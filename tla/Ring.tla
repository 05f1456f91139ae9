--------------------------------- MODULE Ring ---------------------------------
(***************************************************************************)
(* The fixed-capacity rings of simulation/history.go and                   *)
(* simulation/reception_history.go: a buffer written in a circle, cloned   *)
(* by every mutation that may record, then committed or discarded.         *)
(*                                                                         *)
(* A slice is a reference to storage, so copying the struct alone would    *)
(* share it: the ring is a header [store, next, size] and the storage it   *)
(* points to.  What is appended is numbered by its sequence: 1, 2, 3, ...  *)
(***************************************************************************)
EXTENDS Integers, Sequences

CONSTANTS
    Limit,       \* HistoryLimit or ReceptionHistoryLimit
    Stores,      \* backing arrays
    MaxAppends   \* bound: elements appended in a behaviour

ASSUME RingConstants ==
    /\ Limit \in Nat \ {0}
    /\ MaxAppends \in Nat

Slots   == 0 .. Limit - 1
Headers == [store : Stores, next : Slots, size : 0 .. Limit]

VARIABLES
    heap,      \* the contents of the backing arrays; 0 is a slot never written
    live,      \* the committed ring, which snapshots read
    staged,    \* the ring a mutation appends to
    mutating,  \* a mutation is under way
    kept,      \* history: elements appended by committed mutations
    appended   \* history: the same, with those of the mutation under way

vars == <<heap, live, staged, mutating, kept, appended>>

-------------------------------------------------------------------------------
Init ==
    /\ heap \in [Stores -> {[p \in Slots |-> 0]}]
    /\ live \in [store : Stores, next : {0}, size : {0}]
    /\ staged = live
    /\ mutating = FALSE
    /\ kept = 0
    /\ appended = 0

\* Mutant: a struct copy.
BeginSharing ==
    /\ ~mutating
    /\ mutating' = TRUE
    /\ staged' = live
    /\ UNCHANGED <<heap, live, kept, appended>>

\* clone copies the backing storage into fresh storage.
Begin ==
    /\ ~mutating
    /\ mutating' = TRUE
    /\ \E fresh \in Stores \ {live.store} :
          /\ heap' = [heap EXCEPT ![fresh] = heap[live.store]]
          /\ staged' = [live EXCEPT !.store = fresh]
    /\ UNCHANGED <<live, kept, appended>>

Growth(size) == IF size < Limit THEN size + 1 ELSE size

Put ==
    /\ mutating
    /\ appended < MaxAppends
    /\ heap' = [heap EXCEPT ![staged.store][staged.next] = appended + 1]
    /\ staged' = [staged EXCEPT !.next = (staged.next + 1) % Limit,
                                !.size = Growth(staged.size)]
    /\ appended' = appended + 1
    /\ UNCHANGED <<live, mutating, kept>>

Commit ==
    /\ mutating
    /\ mutating' = FALSE
    /\ live' = staged
    /\ kept' = appended
    /\ UNCHANGED <<heap, staged, appended>>

\* The mutation fails or is canceled: the clone is dropped.
Discard ==
    /\ mutating
    /\ mutating' = FALSE
    /\ staged' = live
    /\ appended' = kept
    /\ UNCHANGED <<heap, live, kept>>

Next == Begin \/ Put \/ Commit \/ Discard

Spec == Init /\ [][Next]_vars

-------------------------------------------------------------------------------
(***************************************************************************)
(* Reads.                                                                  *)
(***************************************************************************)

Oldest(ring) == (ring.next - ring.size + Limit) % Limit

Latest(ring) == (ring.next - 1 + Limit) % Limit

\* snapshot and records: retained elements, oldest first.
Snapshot(ring) ==
    [i \in 1 .. ring.size |-> heap[ring.store][(Oldest(ring) + i - 1) % Limit]]

\* bounds, of a ring that is not empty.
Bounds(ring) == <<heap[ring.store][Oldest(ring)], heap[ring.store][Latest(ring)]>>

-------------------------------------------------------------------------------
(***************************************************************************)
(* Properties.                                                             *)
(***************************************************************************)

Least(a, b) == IF a <= b THEN a ELSE b

\* The newest elements of a log of n, oldest first.
Newest(n) == [i \in 1 .. Least(n, Limit) |-> n - Least(n, Limit) + i]

\* A snapshot holds exactly the newest committed elements in order: none is
\* skipped or repeated where the ring wraps, and a mutation under way, however
\* often it has wrapped over its own storage, is invisible until it commits.
SnapshotIsNewest == Snapshot(live) = Newest(kept)

\* The bounds a page of history reports are those of the records it holds.
BoundsMatchSnapshot ==
    kept > 0 => Bounds(live) = <<Snapshot(live)[1], Snapshot(live)[live.size]>>

-------------------------------------------------------------------------------
\* A ring that holds the newest of n elements, without a remainder operator:
\* what lies before next was written in this turn, the rest in the last one.
Holds(ring, n) ==
    /\ ring.size = Least(n, Limit)
    /\ n < Limit => ring.next = n
    /\ \A p \in Slots :
          /\ p < ring.next => heap[ring.store][p] = n - ring.next + p + 1
          /\ p >= ring.next /\ n >= Limit => heap[ring.store][p] = n - ring.next - Limit + p + 1

TypeOK ==
    /\ heap \in [Stores -> [Slots -> Nat]]
    /\ live \in Headers
    /\ staged \in Headers
    /\ mutating \in BOOLEAN
    /\ kept \in Nat
    /\ appended \in Nat

\* The inductive invariant: storage is not shared while a mutation is under
\* way, and both rings hold the newest of what was appended to them.
IInv ==
    /\ TypeOK
    /\ mutating => staged.store # live.store
    /\ ~mutating => staged = live /\ appended = kept
    /\ Holds(live, kept)
    /\ Holds(staged, appended)
===============================================================================
