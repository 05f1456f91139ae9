------------------------------ MODULE RingProofs ------------------------------
(***************************************************************************)
(* Proofs about Ring, for every capacity.                                  *)
(***************************************************************************)
EXTENDS Ring, TLAPS

\* A remainder of a number below twice the capacity.
LEMMA Wrap ==
    ASSUME NEW x \in Nat, x < 2 * Limit
    PROVE  x % Limit = IF x < Limit THEN x ELSE x - Limit
  BY RingConstants

\* The slot that follows a slot.
LEMMA NextSlot ==
    ASSUME NEW p \in Slots
    PROVE  (p + 1) % Limit = IF p + 1 = Limit THEN 0 ELSE p + 1
  <1>1. p + 1 \in Nat /\ p + 1 < 2 * Limit /\ p + 1 <= Limit
    BY RingConstants DEF Slots
  <1> QED
    BY <1>1, Wrap, RingConstants

\* New allocates an empty ring.
LEMMA InitIInv == Init => IInv
  <1> SUFFICES ASSUME Init PROVE IInv
    OBVIOUS
  <1>1. TypeOK
    <2>1. 0 \in Slots /\ 0 \in 0 .. Limit
      BY RingConstants DEF Slots
    <2>2. heap \in [Stores -> [Slots -> Nat]]
      <3>1. [p \in Slots |-> 0] \in [Slots -> Nat]
        OBVIOUS
      <3> QED
        BY <3>1 DEF Init
    <2>3. live \in Headers
      BY <2>1 DEF Init, Headers
    <2> QED
      BY <2>2, <2>3 DEF Init, TypeOK
  <1>2. live.next = 0 /\ live.size = 0
    BY DEF Init
  <1>3. Holds(live, kept)
    BY <1>2, RingConstants DEF Init, Holds, Least, Slots
  <1> QED
    BY <1>1, <1>3 DEF Init, IInv

\* clone: the copy holds what the original holds, in storage of its own.
LEMMA BeginKeepsIInv ==
    ASSUME IInv, Begin
    PROVE  IInv'
  <1>1. PICK fresh \in Stores \ {live.store} :
            /\ heap' = [heap EXCEPT ![fresh] = heap[live.store]]
            /\ staged' = [live EXCEPT !.store = fresh]
    BY DEF Begin
  <1>2. /\ ~mutating /\ mutating' = TRUE /\ UNCHANGED <<live, kept, appended>>
        /\ appended = kept
    BY DEF Begin, IInv
  <1>3. live \in Headers /\ live.store \in Stores /\ heap[live.store] \in [Slots -> Nat]
    BY DEF IInv, TypeOK, Headers
  <1>4. heap'[live.store] = heap[live.store] /\ heap'[fresh] = heap[live.store]
    BY <1>1, <1>3 DEF IInv, TypeOK
  <1>5. /\ staged'.store = fresh /\ staged'.next = live.next /\ staged'.size = live.size
        /\ staged' \in Headers
    BY <1>1, <1>3 DEF Headers
  <1>6. TypeOK'
    BY <1>1, <1>2, <1>3, <1>5 DEF IInv, TypeOK
  <1>7. Holds(live, kept)'
    BY <1>2, <1>4 DEF IInv, Holds
  <1>8. Holds(staged, appended)'
    BY <1>2, <1>4, <1>5 DEF IInv, Holds
  <1> QED
    BY <1>1, <1>2, <1>5, <1>6, <1>7, <1>8 DEF IInv

\* append: the element replaces the oldest one, or fills a free slot.
LEMMA PutKeepsIInv ==
    ASSUME IInv, Put
    PROVE  IInv'
  <1> DEFINE s == staged.store
             k == staged.next
             n == appended
  <1>1. /\ mutating /\ UNCHANGED <<live, mutating, kept>>
        /\ s # live.store
        /\ appended' = n + 1
    BY DEF Put, IInv
  <1>2. s \in Stores /\ k \in Slots /\ n \in Nat /\ staged.size \in 0 .. Limit
    BY DEF IInv, TypeOK, Headers
  <1>3. heap' = [heap EXCEPT ![s][k] = n + 1]
    BY DEF Put
  <1>4. /\ heap'[s][k] = n + 1
        /\ \A p \in Slots \ {k} : heap'[s][p] = heap[s][p]
        /\ \A r \in Stores \ {s} : heap'[r] = heap[r]
        /\ heap' \in [Stores -> [Slots -> Nat]]
    BY <1>2, <1>3 DEF IInv, TypeOK
  <1>5. /\ staged'.store = s
        /\ staged'.next = IF k + 1 = Limit THEN 0 ELSE k + 1
        /\ staged'.size = Growth(staged.size)
        /\ staged' = [staged EXCEPT !.next = staged'.next, !.size = staged'.size]
    BY <1>2, NextSlot DEF Put, IInv, TypeOK, Headers
  <1>6. staged'.next \in Slots /\ staged'.size \in 0 .. Limit
    BY <1>2, <1>5, RingConstants DEF Slots, Growth
  <1>7. staged' \in Headers
    BY <1>5, <1>6 DEF IInv, TypeOK, Headers
  <1>8. TypeOK'
    BY <1>1, <1>2, <1>4, <1>7 DEF IInv, TypeOK
  <1>9. Holds(live, kept)'
    <2>1. heap'[live.store] = heap[live.store]
      BY <1>1, <1>4 DEF IInv, TypeOK, Headers
    <2> QED
      BY <1>1, <2>1 DEF IInv, Holds
  <1>10. Holds(staged, appended)'
    <2>1. /\ staged.size = Least(n, Limit)
          /\ n < Limit => k = n
          /\ \A p \in Slots :
                /\ p < k => heap[s][p] = n - k + p + 1
                /\ p >= k /\ n >= Limit => heap[s][p] = n - k - Limit + p + 1
      BY DEF IInv, Holds
    <2>2. staged'.size = Least(n + 1, Limit)
      BY <1>2, <1>5, <2>1, RingConstants DEF Growth, Least
    <2>3. n + 1 < Limit => staged'.next = n + 1
      BY <1>2, <1>5, <2>1, RingConstants
    <2>4. ASSUME NEW p \in Slots
          PROVE  /\ p < staged'.next => heap'[staged'.store][p] = appended' - staged'.next + p + 1
                 /\ p >= staged'.next /\ appended' >= Limit =>
                        heap'[staged'.store][p] = appended' - staged'.next - Limit + p + 1
      <3>1. p \in 0 .. Limit - 1 /\ k \in 0 .. Limit - 1
        BY <1>2 DEF Slots
      <3>2. CASE p = k
        BY <1>1, <1>2, <1>4, <1>5, <3>1, <3>2, RingConstants
      <3>3. CASE p # k
        <4>1. heap'[s][p] = heap[s][p]
          BY <1>4, <3>3
        <4>2. n < Limit => k = n
          BY <2>1
        <4>3. /\ p < k => heap[s][p] = n - k + p + 1
              /\ p >= k /\ n >= Limit => heap[s][p] = n - k - Limit + p + 1
          BY <2>1
        <4> QED
          BY <1>1, <1>2, <1>5, <3>1, <3>3, <4>1, <4>2, <4>3, RingConstants
      <3> QED
        BY <3>2, <3>3
    <2>5. appended' = n + 1 /\ staged'.store = s
      BY <1>1, <1>5
    <2>6. staged'.size = Least(appended', Limit)
      BY <2>2, <2>5
    <2>7. appended' < Limit => staged'.next = appended'
      BY <2>3, <2>5
    <2> QED
      BY <2>4, <2>6, <2>7 DEF Holds
  <1> QED
    BY <1>1, <1>5, <1>8, <1>9, <1>10 DEF IInv

\* Committing or dropping the clone makes the two rings one again.
LEMMA EndKeepsIInv ==
    ASSUME IInv, Commit \/ Discard
    PROVE  IInv'
  BY DEF IInv, Commit, Discard, TypeOK, Holds

\* The invariant holds in every reachable state.
THEOREM Invariance == Spec => []IInv
  <1>1. IInv /\ [Next]_vars => IInv'
    <2> SUFFICES ASSUME IInv, [Next]_vars PROVE IInv'
      OBVIOUS
    <2>1. CASE UNCHANGED vars
      BY <2>1 DEF vars, IInv, TypeOK, Holds
    <2> QED
      BY <2>1, BeginKeepsIInv, PutKeepsIInv, EndKeepsIInv DEF Next
  <1> QED
    BY <1>1, InitIInv, PTL DEF Spec

-------------------------------------------------------------------------------
\* The slot an element of a snapshot is read from, and what it holds.
LEMMA ReadsNewest ==
    ASSUME TypeOK, Holds(live, kept), NEW i \in 1 .. live.size
    PROVE  heap[live.store][(Oldest(live) + i - 1) % Limit] = kept - live.size + i
  <1> DEFINE k == live.next
             z == live.size
             n == kept
             first == Oldest(live)
             slot == (first + i - 1) % Limit
  <1>1. k \in 0 .. Limit - 1 /\ z \in 1 .. Limit /\ n \in Nat /\ Limit \in Nat \ {0}
        /\ z = Least(n, Limit) /\ (n < Limit => k = n)
    BY RingConstants DEF TypeOK, Headers, Slots, Holds
  <1>2. first = IF k < z THEN k - z + Limit ELSE k - z
    <2> DEFINE x == k - z + Limit
    <2>1. x \in Nat /\ x < 2 * Limit
      BY <1>1
    <2>2. first = x % Limit
      BY DEF Oldest
    <2> HIDE DEF x, first
    <2>3. x % Limit = IF x < Limit THEN x ELSE x - Limit
      BY <2>1, Wrap
    <2> QED
      BY <1>1, <2>2, <2>3 DEF x
  <1>3. slot = IF k < z /\ i <= z - k THEN k - z + Limit + i - 1 ELSE k - z + i - 1
    <2> DEFINE x == first + i - 1
    <2> HIDE DEF first
    <2>1. x \in Nat /\ x < 2 * Limit
      BY <1>1, <1>2
    <2>2. slot = x % Limit
      OBVIOUS
    <2> HIDE DEF x, slot
    <2>3. x % Limit = IF x < Limit THEN x ELSE x - Limit
      BY <2>1, Wrap
    <2> QED
      BY <1>1, <1>2, <2>2, <2>3 DEF x
  <1>4. slot \in Slots
    BY <1>1, <1>3 DEF Slots
  <1>5. /\ slot < k => heap[live.store][slot] = n - k + slot + 1
        /\ slot >= k /\ n >= Limit => heap[live.store][slot] = n - k - Limit + slot + 1
    BY <1>4 DEF Holds
  <1> HIDE DEF slot, first
  <1>6. heap[live.store][slot] = n - z + i
    BY <1>1, <1>3, <1>5 DEF Least
  <1> QED
    BY <1>6 DEF slot, first

\* snapshot and records return the newest committed elements, oldest first,
\* for every capacity and every history of mutations.
THEOREM SnapshotsAreNewest == Spec => []SnapshotIsNewest
  <1>1. IInv => SnapshotIsNewest
    <2> SUFFICES ASSUME IInv PROVE SnapshotIsNewest
      OBVIOUS
    <2>1. live.size = Least(kept, Limit) /\ TypeOK /\ Holds(live, kept)
      BY DEF IInv, Holds
    <2>2. \A i \in 1 .. live.size :
             heap[live.store][(Oldest(live) + i - 1) % Limit] = kept - live.size + i
      BY <2>1, ReadsNewest
    <2> QED
      BY <2>1, <2>2 DEF SnapshotIsNewest, Snapshot, Newest
  <1> QED
    BY <1>1, Invariance, PTL

\* The slots of the first and of the last element of a snapshot are the two
\* that bounds reads.
LEMMA EndSlots ==
    ASSUME TypeOK, live.size > 0
    PROVE  /\ (Oldest(live) + 1 - 1) % Limit = Oldest(live)
           /\ (Oldest(live) + live.size - 1) % Limit = Latest(live)
  <1> DEFINE k == live.next
             z == live.size
             x == k - z + Limit
             first == x % Limit
             y == first + z - 1
             w == k - 1 + Limit
  <1>1. k \in 0 .. Limit - 1 /\ z \in 1 .. Limit /\ Limit \in Nat \ {0}
    BY RingConstants DEF TypeOK, Headers, Slots
  <1>2. Oldest(live) = first /\ Latest(live) = w % Limit
    BY DEF Oldest, Latest
  <1>3. first = IF x < Limit THEN x ELSE x - Limit
    <2>1. x \in Nat /\ x < 2 * Limit
      BY <1>1
    <2> HIDE DEF x
    <2> QED
      BY <2>1, Wrap
  <1>4. first \in 0 .. Limit - 1
    <2> HIDE DEF first
    <2> QED
      BY <1>1, <1>3
  <1>5. first % Limit = first
    <2>1. first \in Nat /\ first < 2 * Limit /\ first < Limit
      BY <1>1, <1>4
    <2> HIDE DEF first
    <2> QED
      BY <2>1, Wrap
  <1>6. y % Limit = IF y < Limit THEN y ELSE y - Limit
    <2>1. y \in Nat /\ y < 2 * Limit
      <3> HIDE DEF first
      <3> QED
        BY <1>1, <1>4
    <2> HIDE DEF y
    <2> QED
      BY <2>1, Wrap
  <1>7. w % Limit = IF w < Limit THEN w ELSE w - Limit
    <2>1. w \in Nat /\ w < 2 * Limit
      BY <1>1
    <2> HIDE DEF w
    <2> QED
      BY <2>1, Wrap
  <1>8. y % Limit = w % Limit
    <2>1. y = first + z - 1 /\ x = k - z + Limit /\ w = k - 1 + Limit
      OBVIOUS
    <2>2. (IF y < Limit THEN y ELSE y - Limit) = (IF w < Limit THEN w ELSE w - Limit)
      <3> HIDE DEF first, x, y, w
      <3> QED
        BY <1>1, <1>3, <2>1
    <2> QED
      BY <1>6, <1>7, <2>2
  <1>9. first + 1 - 1 = first
    <2> HIDE DEF first
    <2> QED
      BY <1>1, <1>4
  <1> QED
    <2> HIDE DEF first, w, x
    <2> QED
      BY <1>2, <1>5, <1>8, <1>9

\* The bounds a page reports are the first and the last record it could hold.
THEOREM BoundsAreExact == Spec => []BoundsMatchSnapshot
  <1>1. IInv => BoundsMatchSnapshot
    <2> SUFFICES ASSUME IInv, kept > 0 PROVE Bounds(live) = <<Snapshot(live)[1], Snapshot(live)[live.size]>>
      BY DEF BoundsMatchSnapshot
    <2>1. TypeOK /\ live.size = Least(kept, Limit) /\ kept \in Nat
      BY DEF IInv, TypeOK, Holds
    <2>2. live.size \in Nat /\ live.size > 0
      BY <2>1, RingConstants DEF Least
    <2>3. /\ (Oldest(live) + 1 - 1) % Limit = Oldest(live)
          /\ (Oldest(live) + live.size - 1) % Limit = Latest(live)
      BY <2>1, <2>2, EndSlots
    <2>4. Snapshot(live)[1] = heap[live.store][(Oldest(live) + 1 - 1) % Limit]
      BY <2>2 DEF Snapshot
    <2>5. Snapshot(live)[live.size] = heap[live.store][(Oldest(live) + live.size - 1) % Limit]
      BY <2>2 DEF Snapshot
    <2> QED
      BY <2>3, <2>4, <2>5 DEF Bounds
  <1> QED
    BY <1>1, Invariance, PTL
===============================================================================
