-------------------------- MODULE HistoryReaderProofs -------------------------
(***************************************************************************)
(* Proofs about HistoryReader, for every retention limit, page size and    *)
(* bound of the browser's rows, and any number of stations and runs.       *)
(*                                                                         *)
(* First the requests, the cursors and the pages (IInv), then what the     *)
(* rows of a history hold (HInv): filtering keeps an order, a page that    *)
(* fits its cursor continues the rows, and neither the trimming of records *)
(* nor the bound on markers opens a hole that no marker tells of.          *)
(***************************************************************************)
EXTENDS HistoryReader, FiniteSetTheorems, SequenceTheorems,
        WellFoundedInduction, NaturalsInduction, TLAPS

Simulator ==
    /\ run \in 1 .. MaxRun
    /\ last \in [StationIds -> Sequences]
    /\ known \in 0 .. run
    /\ generation \in 0 .. MaxGeneration
    /\ pending \in BOOLEAN

\* A cursor that was returned for a station: of a run there has been, and, for
\* the current run, not beyond what the station received.
Sound(cursor, id) ==
    /\ cursor \in Cursors
    /\ cursor.run <= run
    /\ cursor.run = NoRun => cursor = NoCursor
    /\ cursor.run = run => cursor.after <= last[id]

SoundPage(page, id) ==
    /\ page.run \in 1 .. run
    /\ page.next.run = page.run
    /\ Sound(page.next, id)

SoundRequest(request) ==
    /\ request.gen <= generation
    /\ Sound(request.cursor, request.station)
    /\ request.reply.kind # "invalid"
    /\ request.reply.kind = "page" => SoundPage(request.reply.page, request.station)

\* A history of the run that the page knows.
IsLoaded ==
    /\ {"run", "station", "cursor"} \subseteq DOMAIN history
    /\ history.station \in StationIds
    /\ history.run = known
    /\ known # NoRun
    /\ Sound(history.cursor, history.station)

Current(c) == calls[c] # NoCall /\ calls[c].gen = generation

RequestInv ==
    /\ calls \in [Calls -> Requests \cup {NoCall}]
    /\ \A c \in Calls : calls[c] # NoCall => SoundRequest(calls[c])

\* At most one request is of the current generation, and it is for the history
\* that is loaded.
OneRequest ==
    /\ \A c, d \in Calls :
          calls[c] # NoCall /\ calls[d] # NoCall /\ calls[c].gen = calls[d].gen => c = d
    /\ \A c \in Calls : Current(c) => IsLoaded /\ calls[c].station = history.station
    /\ pending <=> \E c \in Calls : Current(c)

IInv ==
    /\ Simulator
    /\ history # NoHistory => IsLoaded
    /\ RequestInv
    /\ OneRequest

-------------------------------------------------------------------------------
(***************************************************************************)
(* Filtering.                                                              *)
(***************************************************************************)

\* e lists the numbers in I in increasing order: the k-th of them is number k.
Lists(e, n, I) ==
    /\ I \subseteq Nat
    /\ e \in [1 .. n -> I]
    /\ \A k, l \in 1 .. n : k < l => e[k] < e[l]
    /\ \A i \in I : \E k \in 1 .. n : e[k] = i
    /\ \A k \in 1 .. n : Cardinality({j \in I : j <= e[k]}) = k

\* filter keeps what is at the positions, in their order.
LEMMA FilteredFacts ==
    ASSUME NEW S, NEW s \in Seq(S), NEW I, I \subseteq DOMAIN s, NEW t, t = Filtered(s, I)
    PROVE  /\ t \in Seq(S) /\ Len(t) = Cardinality(I) /\ Len(t) \in Nat
           /\ \E e : Lists(e, Len(t), I) /\ \A k \in 1 .. Len(t) : t[k] = s[e[k]]
  <1> DEFINE c       == Cardinality(I)
             upTo(i) == {j \in I : j <= i}
             rank    == [i \in I |-> Cardinality(upTo(i))]
             e       == [k \in 1 .. c |-> CHOOSE i \in I : Cardinality(upTo(i)) = k]
  <1>1. I \subseteq Nat /\ IsFiniteSet(I) /\ c \in Nat
    <2>1. DOMAIN s = 1 .. Len(s) /\ Len(s) \in Nat
      BY LenProperties
    <2>2. IsFiniteSet(1 .. Len(s))
      BY <2>1, FS_Interval
    <2>3. IsFiniteSet(I)
      BY <2>1, <2>2, FS_Subset
    <2> QED
      BY <2>1, <2>3, FS_CardinalityType
  <1>2. ASSUME NEW i \in I
        PROVE  /\ IsFiniteSet(upTo(i)) /\ upTo(i) \subseteq I
               /\ Cardinality(upTo(i)) \in 1 .. c
    <2>1. upTo(i) \subseteq I
      OBVIOUS
    <2>2. IsFiniteSet(upTo(i)) /\ Cardinality(upTo(i)) <= c
      BY <1>1, <2>1, FS_Subset
    <2>3. i \in upTo(i)
      BY <1>1
    <2>4. Cardinality(upTo(i)) \in Nat /\ Cardinality(upTo(i)) # 0
      BY <2>2, <2>3, FS_CardinalityType, FS_EmptySet
    <2> HIDE DEF upTo, c
    <2> QED
      BY <1>1, <2>1, <2>2, <2>4
  <1>3. ASSUME NEW i \in I, NEW j \in I, i < j
        PROVE  Cardinality(upTo(i)) < Cardinality(upTo(j))
    <2>1. upTo(i) \subseteq upTo(j) /\ j \notin upTo(i) /\ j \in upTo(j)
      BY <1>1, <1>3
    <2>2. /\ Cardinality(upTo(i)) <= Cardinality(upTo(j))
          /\ Cardinality(upTo(j)) = Cardinality(upTo(i)) => upTo(j) = upTo(i)
      BY <1>2, <2>1, FS_Subset
    <2> HIDE DEF upTo, c
    <2>3. Cardinality(upTo(i)) \in Nat /\ Cardinality(upTo(j)) \in Nat
      BY <1>1, <1>2
    <2> QED
      BY <2>1, <2>2, <2>3
  <1> HIDE DEF upTo, c
  <1>4. rank \in Injection(I, 1 .. c)
    <2>1. rank \in [I -> 1 .. c]
      BY <1>2
    <2>2. ASSUME NEW i \in I, NEW j \in I, rank[i] = rank[j]
          PROVE  i = j
      <3>1. ~(i < j) /\ ~(j < i)
        <4>1. Cardinality(upTo(i)) = Cardinality(upTo(j)) /\ Cardinality(upTo(i)) \in Nat
          BY <1>1, <1>2, <2>2
        <4> QED
          BY <1>3, <4>1
      <3> QED
        BY <1>1, <3>1
    <2> QED
      BY <2>1, <2>2 DEF Injection, IsInjective
  <1>5. rank \in Surjection(I, 1 .. c)
    <2>1. IsFiniteSet(1 .. c) /\ Cardinality(1 .. c) = c
      BY <1>1, FS_Interval
    <2> QED
      BY <1>4, <2>1, FS_Injection DEF c
  <1>6. ASSUME NEW k \in 1 .. c
        PROVE  e[k] \in I /\ Cardinality(upTo(e[k])) = k
    <2>1. \E i \in I : Cardinality(upTo(i)) = k
      BY <1>5 DEF Surjection
    <2> QED
      BY <2>1
  <1>7. t = [k \in 1 .. c |-> s[e[k]]]
    BY DEF Filtered, c, upTo
  <1> HIDE DEF e
  <1>8. t \in Seq(S) /\ Len(t) = c
    <2>1. \A k \in 1 .. c : s[e[k]] \in S
      BY <1>6, LenProperties
    <2>2. t \in [1 .. c -> S]
      BY <1>7, <2>1
    <2> QED
      BY <1>1, <2>2
  <1>9. Lists(e, c, I)
    <2>1. e \in [1 .. c -> I]
      BY <1>6 DEF e
    <2>2. ASSUME NEW k \in 1 .. c, NEW l \in 1 .. c, k < l
          PROVE  e[k] < e[l]
      <3>1. e[k] \in Nat /\ e[l] \in Nat
        BY <1>1, <1>6
      <3>2. ~(e[l] < e[k]) /\ e[k] # e[l]
        BY <1>3, <1>6, <2>2
      <3> QED
        BY <3>1, <3>2
    <2>3. ASSUME NEW i \in I
          PROVE  \E k \in 1 .. c : e[k] = i
      <3> DEFINE k == Cardinality(upTo(i))
      <3>1. k \in 1 .. c
        BY <1>2
      <3> HIDE DEF k
      <3>2. e[k] \in I /\ Cardinality(upTo(e[k])) = k
        BY <1>6, <3>1
      <3>3. k \in Nat /\ ~(k < k)
        BY <3>1
      <3>4. ~(i < e[k]) /\ ~(e[k] < i)
        BY <1>3, <3>2, <3>3 DEF k
      <3>5. e[k] = i
        BY <1>1, <3>2, <3>4
      <3> QED
        BY <3>1, <3>5
    <2>4. \A k \in 1 .. c : Cardinality({j \in I : j <= e[k]}) = k
      BY <1>6 DEF upTo
    <2> QED
      BY <1>1, <2>1, <2>2, <2>3, <2>4 DEF Lists
  <1> QED
    BY <1>1, <1>7, <1>8, <1>9 DEF c

\* What follows directly upon an element that is kept, if it is kept itself.
KeepsNext(e, n, I) ==
    \A k \in 1 .. n : e[k] + 1 \in I => k + 1 \in 1 .. n /\ e[k + 1] = e[k] + 1

LEMMA NextKept ==
    ASSUME NEW I, NEW n \in Nat, NEW e, Lists(e, n, I)
    PROVE  KeepsNext(e, n, I)
  <1> SUFFICES ASSUME NEW k \in 1 .. n, e[k] + 1 \in I
               PROVE  k + 1 \in 1 .. n /\ e[k + 1] = e[k] + 1
    BY DEF KeepsNext
  <1>1. PICK l \in 1 .. n : e[l] = e[k] + 1
    BY DEF Lists
  <1>2. \A i \in 1 .. n : e[i] \in Nat
    BY DEF Lists
  <1>3. k < l
    <2>1. ~(l < k) /\ l # k
      BY <1>1, <1>2 DEF Lists
    <2> QED
      BY <2>1
  <1>4. k + 1 \in 1 .. n
    BY <1>3
  <1>5. ~(k + 1 < l)
    <2>1. k + 1 < l => e[k] < e[k + 1] /\ e[k + 1] < e[l]
      BY <1>4 DEF Lists
    <2> QED
      BY <1>1, <1>2, <1>4, <2>1
  <1> QED
    BY <1>1, <1>3, <1>4, <1>5

\* The last element, if it is kept.
LEMMA LastKept ==
    ASSUME NEW I, NEW n \in Nat, NEW e, Lists(e, n, I), NEW N \in I,
           \A i \in I : i <= N
    PROVE  n \in 1 .. n /\ e[n] = N
  <1>1. PICK k \in 1 .. n : e[k] = N
    BY DEF Lists
  <1>2. n \in 1 .. n
    <2>1. 1 <= k /\ k <= n /\ k \in Nat
      BY <1>1
    <2>2. 1 <= n
      BY <2>1
    <2> QED
      BY <2>2
  <1>3. e \in [1 .. n -> I]
    BY DEF Lists
  <1>4. e[n] \in I
    BY <1>2, <1>3
  <1>5. e[n] \in Nat /\ N \in Nat
    BY <1>4 DEF Lists
  <1>6. \A i, j \in 1 .. n : i < j => e[i] < e[j]
    BY DEF Lists
  <1>7. k < n => e[k] < e[n]
    BY <1>2, <1>6
  <1>8. e[n] <= N
    BY <1>4
  <1>9. k = n
    <2>1. ~(N < e[n])
      BY <1>5, <1>8
    <2>2. ~(k < n)
      BY <1>1, <1>7, <2>1
    <2> QED
      BY <2>2
  <1> QED
    BY <1>1, <1>2, <1>9

\* What is kept when the first x are dropped.
Rest(I, x, N) == x \in Nat /\ N \in Nat /\ I = x + 1 .. N

LEMMA RestKept ==
    ASSUME NEW I, NEW x, NEW N, Rest(I, x, N), NEW n \in Nat, NEW e, Lists(e, n, I)
    PROVE  \A k \in 1 .. n : e[k] = x + k
  <1> SUFFICES ASSUME NEW k \in 1 .. n PROVE e[k] = x + k
    OBVIOUS
  <1> USE DEF Rest
  <1>1. e \in [1 .. n -> x + 1 .. N] /\ Cardinality({j \in x + 1 .. N : j <= e[k]}) = k
    BY DEF Lists
  <1>2. e[k] \in x + 1 .. N
    BY <1>1
  <1> DEFINE l == e[k]
  <1> HIDE DEF l
  <1>3. l \in Int /\ x + 1 <= l /\ l <= N /\ k \in Int
    BY <1>2 DEF l
  <1>4. {j \in x + 1 .. N : j <= l} = x + 1 .. l
    BY <1>3
  <1>5. Cardinality(x + 1 .. l) = l - x
    <2>1. Cardinality(x + 1 .. l) = IF x + 1 > l THEN 0 ELSE l - (x + 1) + 1
      BY <1>3, FS_Interval
    <2> QED
      BY <1>3, <2>1
  <1>6. k = l - x
    BY <1>1, <1>4, <1>5 DEF l
  <1>7. l = x + k
    BY <1>3, <1>6
  <1> QED
    BY <1>7 DEF l

\* filter that drops nothing.
LEMMA AllKept ==
    ASSUME NEW S, NEW s \in Seq(S)
    PROVE  Filtered(s, DOMAIN s) = s
  <1> DEFINE t == Filtered(s, DOMAIN s)
             N == Len(s)
  <1>1. DOMAIN s = 1 .. N /\ N \in Nat
    BY LenProperties
  <1>2. Cardinality(1 .. N) = N
    <2>1. Cardinality(1 .. N) = IF 1 > N THEN 0 ELSE N - 1 + 1
      BY <1>1, FS_Interval
    <2> HIDE DEF N
    <2> QED
      BY <1>1, <2>1
  <1>3. t \in Seq(S) /\ Len(t) = N
    BY <1>1, <1>2, FilteredFacts
  <1>4. PICK e : Lists(e, N, 1 .. N) /\ \A k \in 1 .. N : t[k] = s[e[k]]
    BY <1>1, <1>3, FilteredFacts
  <1> HIDE DEF t, N
  <1>5. ASSUME NEW k \in 1 .. N
        PROVE  t[k] = s[k]
    <2>1. Rest(1 .. N, 0, N)
      BY <1>1 DEF Rest
    <2>2. e[k] = 0 + k
      BY <1>1, <1>4, <2>1, RestKept
    <2>3. e[k] = k
      BY <2>2
    <2> QED
      BY <1>4, <2>3
  <1>6. t = s
    BY <1>1, <1>3, <1>5, SeqEqual DEF N
  <1> QED
    BY <1>6 DEF t

-------------------------------------------------------------------------------
(***************************************************************************)
(* Rows.                                                                   *)
(***************************************************************************)

\* There is room for the markers between the records that are kept.
Enough == MaxGapRows >= MaxRecords - 1

Ordered(rows) ==
    \A i, j \in DOMAIN rows : i < j /\ ~rows[i].gap /\ ~rows[j].gap => rows[i].seq < rows[j].seq

\* A marker stands above all records, or right above one.
Marked(rows) ==
    \A i \in DOMAIN rows : rows[i].gap =>
        \/ \A j \in DOMAIN rows : j < i => rows[j].gap
        \/ i + 1 \in DOMAIN rows /\ ~rows[i + 1].gap

\* The last row is the record that the cursor names.
Ends(rows, after) ==
    rows # <<>> => ~rows[Len(rows)].gap /\ rows[Len(rows)].seq = after

\* No hole between two adjacent records.
Unbroken(rows) ==
    \A i \in 1 .. Len(rows) - 1 :
        ~rows[i].gap /\ ~rows[i + 1].gap => rows[i + 1].seq = rows[i].seq + 1

\* Without a marker the records are those from the first one on.
Counts(rows, first) ==
    GapRows(rows) = {} => \A i \in DOMAIN rows : rows[i].seq = first + i - 1

SoundRows(rows, r, after, first) ==
    /\ rows \in Seq(Rows)
    /\ \A i \in DOMAIN rows : rows[i].run = r
    /\ Ordered(rows)
    /\ Marked(rows)
    /\ Ends(rows, after)
    /\ Enough \/ GapRows(rows) = {} => Unbroken(rows)
    /\ Counts(rows, first)

\* A page that the engine cut for a cursor: what it holds follows upon the
\* cursor, directly unless it has a gap, and with a gap it holds something.
Fits(page, cursor) ==
    /\ page \in Pages
    /\ \A i \in DOMAIN page.records : page.records[i] = page.records[1] + i - 1
    /\ page.records # <<>> => page.records[1] > cursor.after
    /\ page.next.after = IF page.records = <<>> THEN cursor.after
                         ELSE page.records[Len(page.records)]
    /\ page.records = <<>> => ~page.more /\ ~page.gap
    /\ cursor = NoCursor => ~page.gap /\ (page.records # <<>> => page.records[1] = page.oldest)
    /\ page.records # <<>> /\ ~page.gap /\ cursor # NoCursor => page.records[1] = cursor.after + 1

\* Rows, and their positions.
LEMMA RowFacts ==
    ASSUME NEW rows \in Seq(Rows)
    PROVE  /\ Len(rows) \in Nat /\ DOMAIN rows = 1 .. Len(rows)
           /\ \A i \in DOMAIN rows : rows[i] \in Rows /\ rows[i].gap \in BOOLEAN /\ rows[i].seq \in Nat
           /\ rows = <<>> <=> Len(rows) = 0
           /\ rows # <<>> => Len(rows) \in DOMAIN rows
  <1>1. Len(rows) \in Nat /\ DOMAIN rows = 1 .. Len(rows) /\ \A i \in 1 .. Len(rows) : rows[i] \in Rows
    BY LenProperties
  <1>2. rows = <<>> <=> Len(rows) = 0
    BY EmptySeq
  <1>3. \A row \in Rows : row.gap \in BOOLEAN /\ row.seq \in Nat
    BY DEF Rows, Sequences
  <1> HIDE DEF Rows
  <1> QED
    BY <1>1, <1>2, <1>3

\* A record that is not loaded is one beyond the cursor: nothing of a page that
\* fits is dropped.
LEMMA AddedFacts ==
    ASSUME NEW h, NEW r, NEW after \in Nat, NEW first, SoundRows(h.rows, r, after, first),
           NEW page, NEW cursor, Fits(page, cursor), cursor.after = after
    PROVE  Added(h, page) = page.records
  <1> DEFINE rows   == h.rows
             N      == Len(rows)
             P      == page.records
             loaded == {rows[i].seq : i \in RecordRows(rows)}
  <1>1. P \in Seq(Sequences) /\ P \in Seq(Nat)
    <2>1. P \in Seq(Sequences)
      BY DEF Fits, Pages
    <2>2. \A i \in 1 .. Len(P) : P[i] \in Nat
      <3>1. \A i \in 1 .. Len(P) : P[i] \in Sequences
        BY <2>1, ElementOfSeq
      <3>2. \A x \in Sequences : x \in Nat
        BY DEF Sequences
      <3> QED
        BY <3>1, <3>2
    <2>3. Len(P) \in Nat /\ P \in [1 .. Len(P) -> Nat]
      BY <2>1, <2>2, LenProperties
    <2> QED
      BY <2>1, <2>3
  <1>2. /\ rows \in Seq(Rows) /\ N \in Nat /\ DOMAIN rows = 1 .. N
        /\ \A i \in DOMAIN rows : rows[i].seq \in Nat
        /\ rows # <<>> => N \in DOMAIN rows
        /\ rows = <<>> <=> N = 0
    BY RowFacts DEF SoundRows
  <1>3. Ordered(rows) /\ Ends(rows, after)
    BY DEF SoundRows
  <1>4. /\ DOMAIN P = 1 .. Len(P) /\ Len(P) \in Nat
        /\ \A i \in DOMAIN P : P[i] = P[1] + i - 1 /\ P[i] \in Nat
        /\ P # <<>> => P[1] > after
        /\ P = <<>> <=> Len(P) = 0
    BY <1>1, LenProperties, EmptySeq DEF Fits
  <1> HIDE DEF rows, P
  <1>5. ASSUME NEW i \in RecordRows(rows)
        PROVE  rows[i].seq <= after
    <2>1. i \in 1 .. N /\ N \in DOMAIN rows /\ ~rows[i].gap /\ rows # <<>>
      BY <1>2 DEF RecordRows
    <2>2. ~rows[N].gap /\ rows[N].seq = after
      BY <1>3, <2>1 DEF Ends
    <2>3. i < N => rows[i].seq < rows[N].seq
      BY <1>2, <1>3, <2>1, <2>2 DEF Ordered
    <2>4. i = N \/ i < N
      BY <2>1
    <2>5. rows[i].seq \in Nat
      BY <1>2, <2>1
    <2> QED
      BY <2>2, <2>3, <2>4, <2>5
  <1>6. ASSUME NEW i \in DOMAIN P
        PROVE  P[i] \notin loaded
    <2>1. P[i] = P[1] + i - 1 /\ P[1] > after /\ i \in Nat /\ i >= 1 /\ 1 \in DOMAIN P
      BY <1>4
    <2>2. P[1] \in Nat
      BY <1>4, <2>1
    <2>3. P[i] > after
      BY <2>1, <2>2
    <2> SUFFICES ASSUME NEW j \in RecordRows(rows), P[i] = rows[j].seq PROVE FALSE
      OBVIOUS
    <2>4. rows[j].seq <= after /\ rows[j].seq \in Nat
      BY <1>2, <1>5 DEF RecordRows
    <2> QED
      BY <2>3, <2>4
  <1>7. {i \in DOMAIN P : P[i] \notin loaded} = DOMAIN P
    BY <1>6
  <1>8. Added(h, page) = Filtered(P, {i \in DOMAIN P : P[i] \notin loaded})
    BY DEF Added, P, rows
  <1>9. Filtered(P, DOMAIN P) = P
    BY <1>1, AllKept
  <1> QED
    BY <1>7, <1>8, <1>9 DEF P

\* Three sequences, one after the other.
InOrder(t, S, a, b, d) ==
    /\ t \in Seq(S)
    /\ Len(t) = Len(a) + Len(b) + Len(d)
    /\ DOMAIN t = 1 .. Len(a) + Len(b) + Len(d)
    /\ \A i \in 1 .. Len(a) : t[i] = a[i]
    /\ \A i \in 1 .. Len(b) : t[Len(a) + i] = b[i]
    /\ \A i \in 1 .. Len(d) : t[Len(a) + Len(b) + i] = d[i]

LEMMA ThreeParts ==
    ASSUME NEW S, NEW a \in Seq(S), NEW b \in Seq(S), NEW d \in Seq(S)
    PROVE  InOrder(a \o b \o d, S, a, b, d)
  <1> DEFINE l == Len(a)
             m == Len(b)
             n == Len(d)
             u == a \o b
             t == u \o d
  <1>1. l \in Nat /\ m \in Nat /\ n \in Nat
    BY LenProperties
  <1>2. u \in Seq(S) /\ Len(u) = l + m /\ \A i \in 1 .. l + m : u[i] = IF i <= l THEN a[i] ELSE b[i - l]
    <2>1. \A i \in 1 .. Len(a) + Len(b) : u[i] = IF i <= Len(a) THEN a[i] ELSE b[i - Len(a)]
      BY ConcatProperties
    <2>2. u \in Seq(S) /\ Len(u) = Len(a) + Len(b)
      BY ConcatProperties
    <2> QED
      BY <2>1, <2>2
  <1> HIDE DEF u
  <1>3. /\ t \in Seq(S) /\ Len(t) = l + m + n
        /\ \A i \in 1 .. l + m + n : t[i] = IF i <= l + m THEN u[i] ELSE d[i - (l + m)]
    <2>1. \A i \in 1 .. Len(u) + Len(d) : t[i] = IF i <= Len(u) THEN u[i] ELSE d[i - Len(u)]
      BY <1>2, ConcatProperties
    <2>2. t \in Seq(S) /\ Len(t) = Len(u) + Len(d)
      BY <1>2, ConcatProperties
    <2> QED
      BY <1>2, <2>1, <2>2
  <1>4. DOMAIN t = 1 .. l + m + n
    BY <1>3, LenProperties
  <1> HIDE DEF l, m, n, t
  <1>5. ASSUME NEW i \in 1 .. l
        PROVE  t[i] = a[i]
    <2>1. i \in 1 .. l + m /\ i \in 1 .. l + m + n /\ i <= l /\ i <= l + m
      BY <1>1
    <2> QED
      BY <1>2, <1>3, <2>1
  <1>6. ASSUME NEW i \in 1 .. m
        PROVE  t[l + i] = b[i]
    <2>1. l + i \in 1 .. l + m /\ l + i \in 1 .. l + m + n /\ ~(l + i <= l) /\ l + i <= l + m
          /\ (l + i) - l = i
      BY <1>1
    <2>2. u[l + i] = b[(l + i) - l]
      BY <1>2, <2>1
    <2> QED
      BY <1>3, <2>1, <2>2
  <1>7. ASSUME NEW i \in 1 .. n
        PROVE  t[l + m + i] = d[i]
    <2>1. l + m + i \in 1 .. l + m + n /\ ~(l + m + i <= l + m) /\ (l + m + i) - (l + m) = i
      BY <1>1
    <2>2. t[l + m + i] = d[(l + m + i) - (l + m)]
      BY <1>3, <2>1
    <2> QED
      BY <2>1, <2>2
  <1> QED
    BY <1>3, <1>4, <1>5, <1>6, <1>7 DEF InOrder, l, m, n, t, u

\* The rows with a page appended, position by position.
LEMMA AppendedRows ==
    ASSUME NEW h, h.rows \in Seq(Rows), NEW page \in Pages, Added(h, page) = page.records
    PROVE  \E g \in {0, 1} :
               LET N == Len(h.rows)
                   m == Len(page.records)
                   t == Appended(h, page)
               IN  /\ g = 1 <=> page.gap
                   /\ t \in Seq(Rows) /\ Len(t) = N + g + m /\ DOMAIN t = 1 .. N + g + m
                   /\ \A i \in 1 .. N : t[i] = h.rows[i]
                   /\ g = 1 => t[N + 1] = Gap(page)
                   /\ \A i \in 1 .. m : t[N + g + i] = Record(page, page.records[i])
  <1> DEFINE P == page.records
             m == Len(P)
             a == h.rows
             b == IF page.gap THEN <<Gap(page)>> ELSE <<>>
             d == [i \in DOMAIN P |-> Record(page, P[i])]
             t == Appended(h, page)
  <1>1. P \in Seq(Sequences) /\ DOMAIN P = 1 .. m /\ m \in Nat /\ \A i \in 1 .. m : P[i] \in Sequences
    <2>1. P \in Seq(Sequences)
      BY DEF Pages
    <2> QED
      BY <2>1, LenProperties
  <1>2. Gap(page) \in Rows /\ \A s \in Sequences : Record(page, s) \in Rows
    BY DEF Gap, Record, Rows, Pages
  <1>3. d \in Seq(Rows) /\ Len(d) = m /\ \A i \in 1 .. m : d[i] = Record(page, P[i])
    <2> HIDE DEF P, m
    <2>1. \A i \in 1 .. m : Record(page, P[i]) \in Rows
      BY <1>1, <1>2
    <2>2. d = [i \in 1 .. m |-> Record(page, P[i])]
      BY <1>1
    <2> HIDE DEF d
    <2>3. d \in [1 .. m -> Rows]
      BY <2>1, <2>2
    <2> QED
      BY <1>1, <2>2, <2>3
  <1>4. b \in Seq(Rows) /\ Len(b) \in {0, 1} /\ (Len(b) = 1 <=> page.gap)
        /\ (Len(b) = 1 => b[1] = Gap(page))
    BY <1>2
  <1>5. t = a \o b \o d
    BY DEF Appended
  <1>6. a \in Seq(Rows)
    OBVIOUS
  <1> HIDE DEF b, d, a, t, m
  <1>7. /\ t \in Seq(Rows) /\ Len(t) = Len(a) + Len(b) + m /\ DOMAIN t = 1 .. Len(a) + Len(b) + m
        /\ \A i \in 1 .. Len(a) : t[i] = a[i]
        /\ \A i \in 1 .. Len(b) : t[Len(a) + i] = b[i]
        /\ \A i \in 1 .. m : t[Len(a) + Len(b) + i] = Record(page, P[i])
    <2>1. d \in Seq(Rows) /\ b \in Seq(Rows) /\ Len(d) = m
      BY <1>3, <1>4
    <2>2. /\ t \in Seq(Rows) /\ Len(t) = Len(a) + Len(b) + Len(d)
          /\ DOMAIN t = 1 .. Len(a) + Len(b) + Len(d)
          /\ \A i \in 1 .. Len(a) : t[i] = a[i]
          /\ \A i \in 1 .. Len(b) : t[Len(a) + i] = b[i]
          /\ \A i \in 1 .. Len(d) : t[Len(a) + Len(b) + i] = d[i]
      <3>1. InOrder(a \o b \o d, Rows, a, b, d)
        BY <1>6, <2>1, ThreeParts
      <3>2. InOrder(t, Rows, a, b, d)
        BY <1>5, <3>1
      <3> QED
        BY <3>2 DEF InOrder
    <2>3. \A i \in 1 .. m : t[Len(a) + Len(b) + i] = Record(page, P[i])
      BY <1>3, <2>1, <2>2
    <2> QED
      BY <2>1, <2>2, <2>3
  <1>8. Len(b) = 1 => t[Len(a) + 1] = Gap(page)
    BY <1>4, <1>7
  <1>9. Len(b) \in {0, 1} /\ (Len(b) = 1 <=> page.gap)
    BY <1>4
  <1> QED
    BY <1>7, <1>8, <1>9 DEF a, t, m, P

\* A page that fits leaves sound rows, up to the cursor it returns.
LEMMA AppendedSound ==
    ASSUME NEW h, h.rows \in Seq(Rows), NEW r, NEW after \in Nat, NEW first \in Int,
           SoundRows(h.rows, r, after, first),
           NEW page, NEW cursor, Fits(page, cursor), cursor.after = after, page.run = r,
           cursor = NoCursor <=> h.rows = <<>>,
           cursor = NoCursor => first = page.oldest
    PROVE  SoundRows(Appended(h, page), r, page.next.after, first)
  <1> DEFINE a == h.rows
             N == Len(a)
             P == page.records
             m == Len(P)
             t == Appended(h, page)
  <1>1. /\ page \in Pages /\ Added(h, page) = P
        /\ P \in Seq(Sequences) /\ DOMAIN P = 1 .. m /\ m \in Nat
        /\ \A i \in 1 .. m : P[i] \in Nat
        /\ P = <<>> <=> m = 0
    <2>1. page \in Pages /\ Added(h, page) = P
      BY AddedFacts DEF Fits
    <2>2. P \in Seq(Sequences)
      BY <2>1 DEF Pages
    <2>3. \A i \in 1 .. m : P[i] \in Sequences
      BY <2>2, LenProperties
    <2>4. \A s \in Sequences : s \in Nat
      BY DEF Sequences
    <2>5. P = <<>> <=> m = 0
      BY <2>2, EmptySeq
    <2>6. \A i \in 1 .. m : P[i] \in Nat
      BY <2>3, <2>4
    <2>7. DOMAIN P = 1 .. m /\ m \in Nat
      BY <2>2, LenProperties
    <2> QED
      BY <2>1, <2>2, <2>5, <2>6, <2>7
  <1>2. PICK g \in {0, 1} :
            /\ g = 1 <=> page.gap
            /\ t \in Seq(Rows) /\ Len(t) = N + g + m /\ DOMAIN t = 1 .. N + g + m
            /\ \A i \in 1 .. N : t[i] = a[i]
            /\ g = 1 => t[N + 1] = Gap(page)
            /\ \A i \in 1 .. m : t[N + g + i] = Record(page, P[i])
    BY <1>1, AppendedRows
  <1>3. /\ N \in Nat /\ DOMAIN a = 1 .. N /\ (a = <<>> <=> N = 0)
        /\ \A i \in 1 .. N : a[i].gap \in BOOLEAN /\ a[i].seq \in Nat
    BY RowFacts
  <1>4. /\ \A i \in 1 .. N : a[i].run = r
        /\ Ordered(a) /\ Marked(a) /\ Ends(a, after) /\ Counts(a, first)
        /\ Enough \/ GapRows(a) = {} => Unbroken(a)
    BY <1>3 DEF SoundRows
  <1>5. /\ \A i \in 1 .. m : P[i] = P[1] + i - 1
        /\ m > 0 => P[1] > after /\ 1 \in 1 .. m /\ m \in 1 .. m
        /\ page.next.after = IF m = 0 THEN after ELSE P[m]
        /\ m = 0 => ~page.gap
        /\ cursor = NoCursor => ~page.gap /\ (m > 0 => P[1] = page.oldest)
        /\ m > 0 /\ ~page.gap /\ cursor # NoCursor => P[1] = after + 1
    <2>1. \A i \in 1 .. m : P[i] = P[1] + i - 1
      BY <1>1 DEF Fits
    <2>2. m > 0 => P[1] > after
      BY <1>1 DEF Fits
    <2>3. page.next.after = IF m = 0 THEN after ELSE P[m]
      BY <1>1, Zenon DEF Fits
    <2>4. m = 0 => ~page.gap
      BY <1>1 DEF Fits
    <2>5. cursor = NoCursor => ~page.gap /\ (m > 0 => P[1] = page.oldest)
      BY <1>1 DEF Fits
    <2>6. m > 0 /\ ~page.gap /\ cursor # NoCursor => P[1] = after + 1
      BY <1>1 DEF Fits
    <2> HIDE DEF m, P
    <2>7. m > 0 => 1 \in 1 .. m /\ m \in 1 .. m
      BY <1>1
    <2> QED
      BY <2>1, <2>2, <2>3, <2>4, <2>5, <2>6, <2>7
  <1>6. \A i \in 1 .. m : /\ t[N + g + i].gap = FALSE /\ t[N + g + i].seq = P[i]
                          /\ t[N + g + i].run = r
    <2>1. \A s : /\ Record(page, s).gap = FALSE /\ Record(page, s).seq = s
                 /\ Record(page, s).run = r
      BY DEF Record
    <2> HIDE DEF t, N, m, P
    <2> QED
      BY <1>2, <2>1
  <1>7. g = 1 => t[N + 1].gap = TRUE /\ t[N + 1].run = r
    <2>1. Gap(page).gap = TRUE /\ Gap(page).run = r
      BY DEF Gap
    <2> QED
      BY <1>2, <2>1, Zenon
  <1>8. page.gap \in BOOLEAN
    BY <1>1 DEF Pages
  <1>9. N > 0 => N \in 1 .. N /\ ~a[N].gap /\ a[N].seq = after
    BY <1>3, <1>4 DEF Ends
  <1>10. \A i, j \in 1 .. N : i < j /\ ~a[i].gap /\ ~a[j].gap => a[i].seq < a[j].seq
    BY <1>3, <1>4 DEF Ordered
  <1>11. \A i \in 1 .. N : ~a[i].gap => a[i].seq <= after
    <2> SUFFICES ASSUME NEW i \in 1 .. N, ~a[i].gap PROVE a[i].seq <= after
      OBVIOUS
    <2>1. i = N \/ i < N
      BY <1>3
    <2>2. N > 0
      BY <1>3
    <2>3. i < N => a[i].seq < a[N].seq
      BY <1>9, <1>10, <2>2
    <2> QED
      BY <1>3, <1>9, <2>1, <2>2, <2>3
  <1>12. N = 0 <=> cursor = NoCursor
    BY <1>3
  <1> HIDE DEF a, N, P, m, t
  <1>13. ASSUME NEW i \in DOMAIN t
         PROVE  \/ i \in 1 .. N /\ t[i] = a[i]
                \/ g = 1 /\ i = N + 1 /\ t[i].gap = TRUE
                \/ \E k \in 1 .. m : /\ i = N + g + k /\ t[i].gap = FALSE /\ t[i].seq = P[k]
                                     /\ P[k] > after
    <2>1. i \in 1 .. N \/ (g = 1 /\ i = N + 1) \/ (i - (N + g) \in 1 .. m)
      BY <1>1, <1>2, <1>3
    <2>2. CASE i \in 1 .. N
      BY <1>2, <2>2
    <2>3. CASE g = 1 /\ i = N + 1
      BY <1>7, <2>3
    <2>4. CASE i - (N + g) \in 1 .. m
      <3> DEFINE k == i - (N + g)
      <3>1. k \in 1 .. m /\ i = N + g + k /\ k >= 1 /\ k \in Nat
        BY <1>1, <1>2, <1>3, <2>4
      <3>2. t[i].gap = FALSE /\ t[i].seq = P[k]
        BY <1>6, <3>1
      <3> HIDE DEF k
      <3>3. P[k] = P[1] + k - 1 /\ P[1] > after /\ P[1] \in Nat
        BY <1>1, <1>5, <3>1
      <3>4. P[k] > after
        BY <3>1, <3>3
      <3> QED
        BY <3>1, <3>2, <3>4
    <2> QED
      BY <2>1, <2>2, <2>3, <2>4
  <1>14. \A i \in DOMAIN t : t[i].run = r
    <2> TAKE i \in DOMAIN t
    <2>1. i \in 1 .. N \/ (g = 1 /\ i = N + 1) \/ (i - (N + g) \in 1 .. m)
      BY <1>1, <1>2, <1>3
    <2>2. i - (N + g) \in 1 .. m => i = N + g + (i - (N + g))
      BY <1>1, <1>2, <1>3
    <2> QED
      BY <1>2, <1>4, <1>6, <1>7, <2>1, <2>2
  <1>15. Ordered(t)
    <2> SUFFICES ASSUME NEW i \in DOMAIN t, NEW j \in DOMAIN t, i < j, ~t[i].gap, ~t[j].gap
                 PROVE  t[i].seq < t[j].seq
      BY DEF Ordered
    <2>1. CASE j \in 1 .. N
      <3>1. i \in 1 .. N /\ t[i] = a[i] /\ t[j] = a[j]
        BY <1>2, <1>3, <2>1
      <3> QED
        BY <1>10, <2>1, <3>1
    <2>2. CASE \E k \in 1 .. m : j = N + g + k /\ t[j].seq = P[k] /\ P[k] > after
      <3>1. PICK k \in 1 .. m : j = N + g + k /\ t[j].seq = P[k] /\ P[k] > after
        BY <2>2
      <3>2. CASE i \in 1 .. N /\ t[i] = a[i]
        <4>1. a[i].seq <= after /\ a[i].seq \in Nat /\ P[k] \in Nat
          BY <1>1, <1>3, <1>11, <3>2
        <4> QED
          BY <3>1, <3>2, <4>1
      <3>3. CASE \E l \in 1 .. m : i = N + g + l /\ t[i].seq = P[l]
        <4>1. PICK l \in 1 .. m : i = N + g + l /\ t[i].seq = P[l]
          BY <3>3
        <4>2. l < k /\ l \in Int /\ k \in Int
          BY <1>1, <1>2, <1>3, <3>1, <4>1
        <4>3. P[l] = P[1] + l - 1 /\ P[k] = P[1] + k - 1 /\ P[1] \in Nat
          BY <1>1, <1>5, <4>1, <3>1
        <4>4. P[l] < P[k]
          BY <4>2, <4>3
        <4> QED
          BY <3>1, <4>1, <4>4
      <3> QED
        BY <1>13, <3>2, <3>3
    <2> QED
      BY <1>13, <2>1, <2>2
  <1>16. Marked(t)
    <2> SUFFICES ASSUME NEW i \in DOMAIN t, t[i].gap
                 PROVE  \/ \A j \in DOMAIN t : j < i => t[j].gap
                        \/ i + 1 \in DOMAIN t /\ ~t[i + 1].gap
      BY DEF Marked
    <2>1. CASE i \in 1 .. N /\ t[i] = a[i]
      <3>1. \/ \A j \in 1 .. N : j < i => a[j].gap
            \/ i + 1 \in 1 .. N /\ ~a[i + 1].gap
        BY <1>3, <1>4, <2>1 DEF Marked
      <3>2. CASE \A j \in 1 .. N : j < i => a[j].gap
        <4>1. ASSUME NEW j \in DOMAIN t, j < i
              PROVE  t[j].gap
          <5>1. j \in 1 .. N
            BY <1>2, <1>3, <2>1, <4>1
          <5> QED
            BY <1>2, <3>2, <4>1, <5>1
        <4> QED
          BY <4>1
      <3>3. CASE i + 1 \in 1 .. N /\ ~a[i + 1].gap
        <4>1. i + 1 \in DOMAIN t /\ t[i + 1] = a[i + 1]
          BY <1>1, <1>2, <1>3, <3>3
        <4> QED
          BY <3>3, <4>1
      <3> QED
        BY <3>1, <3>2, <3>3
    <2>2. CASE g = 1 /\ i = N + 1
      <3>1. 1 \in 1 .. m
        BY <1>1, <1>2, <1>5, <2>2
      <3>2. t[N + g + 1].gap = FALSE /\ i + 1 = N + g + 1 /\ N + g + 1 \in DOMAIN t
        BY <1>1, <1>2, <1>3, <1>6, <2>2, <3>1
      <3> QED
        BY <3>2
    <2> QED
      BY <1>13, <2>1, <2>2
  <1>17. Ends(t, page.next.after)
    <2> SUFFICES ASSUME t # <<>> PROVE ~t[Len(t)].gap /\ t[Len(t)].seq = page.next.after
      BY DEF Ends
    <2>1. CASE m = 0
      <3>1. g = 0 /\ Len(t) = N /\ page.next.after = after
        BY <1>1, <1>2, <1>3, <1>5, <2>1
      <3>2. N > 0
        <4>1. Len(t) # 0
          BY <1>2, EmptySeq
        <4> QED
          BY <1>3, <3>1, <4>1
      <3>3. N \in 1 .. N /\ t[N] = a[N]
        BY <1>2, <1>9, <3>2
      <3> QED
        BY <1>9, <3>1, <3>2, <3>3
    <2>2. CASE m # 0
      <3>1. m \in 1 .. m /\ page.next.after = P[m]
        BY <1>1, <1>5, <2>2
      <3> QED
        BY <1>2, <1>6, <3>1
    <2> QED
      BY <2>1, <2>2
  <1>18. GapRows(t) = {} => g = 0 /\ GapRows(a) = {}
    <2>1. g = 1 => N + 1 \in DOMAIN t
      BY <1>1, <1>2, <1>3
    <2>2. \A i \in 1 .. N : i \in DOMAIN t
      BY <1>1, <1>2, <1>3
    <2> QED
      BY <1>2, <1>3, <1>7, <2>1, <2>2 DEF GapRows
  <1>19. ASSUME Enough \/ GapRows(t) = {}
         PROVE  Unbroken(t)
    <2>1. Unbroken(a)
      BY <1>4, <1>18, <1>19
    <2> SUFFICES ASSUME NEW i \in 1 .. Len(t) - 1, ~t[i].gap, ~t[i + 1].gap
                 PROVE  t[i + 1].seq = t[i].seq + 1
      BY DEF Unbroken
    <2>2. i \in DOMAIN t /\ i + 1 \in DOMAIN t /\ i \in Nat
      BY <1>1, <1>2, <1>3
    <2>3. CASE i + 1 \in 1 .. N
      <3>1. i \in 1 .. N - 1 /\ i \in 1 .. N /\ t[i] = a[i] /\ t[i + 1] = a[i + 1]
        BY <1>2, <1>3, <2>2, <2>3
      <3>2. i \in 1 .. Len(a) - 1
        BY <3>1 DEF N
      <3> QED
        BY <2>1, <3>1, <3>2 DEF Unbroken
    <2>4. CASE \E k \in 1 .. m : i + 1 = N + g + k /\ t[i + 1].seq = P[k]
      <3>1. PICK k \in 1 .. m : i + 1 = N + g + k /\ t[i + 1].seq = P[k]
        BY <2>4
      <3>2. k \in Nat /\ k >= 1 /\ P[1] \in Nat /\ P[k] = P[1] + k - 1
        BY <1>1, <1>5, <3>1
      <3>3. CASE k > 1
        <4>1. k - 1 \in 1 .. m /\ i = N + g + (k - 1)
          <5>1. i = N + g + k - 1 /\ g \in Nat /\ N \in Nat
            BY <1>2, <1>3, <2>2, <3>1, <3>2
          <5>2. k - 1 \in 1 .. m
            BY <1>1, <3>2, <3>3
          <5> QED
            BY <3>2, <5>1, <5>2
        <4>2. t[i].seq = P[k - 1] /\ P[k - 1] = P[1] + (k - 1) - 1
          BY <1>5, <1>6, <4>1
        <4> QED
          BY <3>1, <3>2, <4>2
      <3>4. CASE k = 1
        <4>1. i = N + g
          BY <1>2, <1>3, <2>2, <3>1, <3>4
        <4>2. g = 0
          BY <1>2, <1>7, <4>1
        <4>3. i = N /\ N > 0
          BY <1>3, <2>2, <4>1, <4>2
        <4>4. t[i] = a[N] /\ a[N].seq = after
          BY <1>2, <1>9, <4>3
        <4>5. P[1] = after + 1
          BY <1>1, <1>2, <1>5, <1>8, <1>12, <3>1, <3>4, <4>2, <4>3
        <4> QED
          BY <3>1, <3>4, <4>4, <4>5
      <3> QED
        BY <3>2, <3>3, <3>4
    <2> QED
      BY <1>13, <2>2, <2>3, <2>4
  <1>20. Counts(t, first)
    <2> SUFFICES ASSUME GapRows(t) = {}, NEW i \in DOMAIN t
                 PROVE  t[i].seq = first + i - 1
      BY DEF Counts
    <2>1. g = 0 /\ GapRows(a) = {} /\ \A j \in 1 .. N : a[j].seq = first + j - 1
      BY <1>3, <1>4, <1>18 DEF Counts
    <2>2. CASE i \in 1 .. N /\ t[i] = a[i]
      BY <2>1, <2>2
    <2>3. CASE \E k \in 1 .. m : i = N + g + k /\ t[i].seq = P[k]
      <3>1. PICK k \in 1 .. m : i = N + g + k /\ t[i].seq = P[k]
        BY <2>3
      <3>2. k \in Nat /\ k >= 1 /\ P[1] \in Nat /\ P[k] = P[1] + k - 1 /\ m > 0
        BY <1>1, <1>5, <3>1
      <3>3. ~page.gap
        BY <1>2, <2>1
      <3>4. P[1] = first + N
        <4>1. CASE N = 0
          <5>1. P[1] = page.oldest /\ first = page.oldest
            BY <1>5, <1>12, <3>2, <4>1
          <5> QED
            BY <4>1, <5>1
        <4>2. CASE N # 0
          <5>1. N \in 1 .. N /\ a[N].seq = after /\ a[N].seq = first + N - 1
            BY <1>3, <1>9, <2>1, <4>2
          <5>2. P[1] = after + 1
            BY <1>5, <1>12, <3>2, <3>3, <4>2
          <5>3. after = first + N - 1
            BY <5>1
          <5> QED
            BY <1>3, <5>2, <5>3
        <4> QED
          BY <4>1, <4>2
      <3>5. i = N + k /\ N \in Nat
        BY <1>3, <2>1, <3>1, <3>2
      <3>6. P[k] = first + N + k - 1
        BY <3>2, <3>4, <3>5
      <3> QED
        BY <3>1, <3>5, <3>6
    <2>4. ~(t[i].gap)
      BY DEF GapRows
    <2>5. ~(g = 1 /\ i = N + 1 /\ t[i].gap = TRUE)
      BY <2>1
    <2> QED
      BY <1>13, <2>2, <2>3, <2>5
  <1>21. t \in Seq(Rows)
    BY <1>2
  <1> QED
    BY <1>14, <1>15, <1>16, <1>17, <1>19, <1>20, <1>21 DEF SoundRows, t

-------------------------------------------------------------------------------
(***************************************************************************)
(* Trimming and bounding.                                                  *)
(***************************************************************************)

\* Filtered rows keep their order, and the last one if it is kept.
Sifted(t, a, I, r, after) ==
    /\ t \in Seq(Rows) /\ \A i \in DOMAIN t : t[i].run = r
    /\ Ordered(t) /\ Ends(t, after)
    /\ t = <<>> <=> a = <<>>
    /\ \E e : Lists(e, Len(t), I) /\ \A k \in 1 .. Len(t) : t[k] = a[e[k]]

LEMMA SiftedRows ==
    ASSUME NEW a \in Seq(Rows), NEW r, NEW after, \A i \in DOMAIN a : a[i].run = r,
           Ordered(a), Ends(a, after),
           NEW I, I \subseteq DOMAIN a, a # <<>> => Len(a) \in I,
           NEW t, t = Filtered(a, I)
    PROVE  Sifted(t, a, I, r, after)
  <1>1. /\ t \in Seq(Rows) /\ Len(t) = Cardinality(I) /\ Len(t) \in Nat
        /\ \E e : Lists(e, Len(t), I) /\ \A k \in 1 .. Len(t) : t[k] = a[e[k]]
    BY FilteredFacts
  <1>2. PICK e : Lists(e, Len(t), I) /\ \A k \in 1 .. Len(t) : t[k] = a[e[k]]
    BY <1>1
  <1> DEFINE n == Len(t)
             N == Len(a)
  <1>3. N \in Nat /\ DOMAIN a = 1 .. N /\ (a = <<>> <=> N = 0)
    BY RowFacts
  <1>4. n \in Nat /\ DOMAIN t = 1 .. n /\ (t = <<>> <=> n = 0)
    BY <1>1, RowFacts
  <1> HIDE DEF n, N
  <1>5. /\ e \in [1 .. n -> I] /\ \A k \in 1 .. n : e[k] \in DOMAIN a /\ t[k] = a[e[k]]
        /\ \A k, l \in 1 .. n : k < l => e[k] < e[l]
    BY <1>2 DEF Lists, n
  <1>6. \A i \in DOMAIN t : t[i].run = r
    BY <1>4, <1>5
  <1>7. Ordered(t)
    BY <1>4, <1>5 DEF Ordered
  <1>8. ASSUME a # <<>>
        PROVE  n \in 1 .. n /\ e[n] = N
    <2>1. N \in I /\ I \in SUBSET Nat /\ \A i \in I : i <= N
      BY <1>3, <1>8 DEF N
    <2> QED
      BY <1>2, <1>4, <2>1, LastKept DEF n
  <1>9. a = <<>> => n = 0
    <2> HAVE a = <<>>
    <2>1. I = {}
      BY <1>3
    <2> QED
      BY <1>1, <2>1, FS_EmptySet DEF n
  <1>10. t = <<>> <=> a = <<>>
    <2>1. n \in 1 .. n => n # 0
      BY <1>4
    <2> QED
      BY <1>4, <1>8, <1>9, <2>1
  <1>11. Ends(t, after)
    <2> SUFFICES ASSUME t # <<>> PROVE ~t[n].gap /\ t[n].seq = after
      BY DEF Ends, n
    <2>1. t[n] = a[N]
      BY <1>5, <1>8, <1>10
    <2>2. ~a[N].gap /\ a[N].seq = after
      BY <1>10 DEF Ends, N
    <2> QED
      BY <2>1, <2>2
  <1> QED
    BY <1>1, <1>6, <1>7, <1>10, <1>11 DEF Sifted

\* The records that are dropped are those up to a position p.
LEMMA TrimCut ==
    ASSUME NEW a \in Seq(Rows), Ordered(a), NEW x, x = Excess(a)
    PROVE  /\ x \in Nat
           /\ \E p \in 0 .. Len(a) :
                 /\ Trim(a) = Filtered(a, {i \in DOMAIN a : a[i].gap \/ i > p})
                 /\ Cardinality({i \in RecordRows(a) : i > p}) <= MaxRecords
                 /\ GapRows(a) = {} => p = x
                 /\ a # <<>> /\ ~a[Len(a)].gap => p < Len(a)
  <1> DEFINE R  == RecordRows(a)
             q  == Filtered(a, R)
             c  == Len(q)
             N  == Len(a)
  <1>1. /\ q \in Seq(Rows) /\ c = Cardinality(R) /\ c \in Nat
        /\ \E e : Lists(e, c, R) /\ \A k \in 1 .. c : q[k] = a[e[k]]
    <2>1. R \subseteq DOMAIN a
      BY DEF RecordRows
    <2> HIDE DEF R
    <2> QED
      BY <2>1, FilteredFacts
  <1>2. PICK e : Lists(e, c, R) /\ \A k \in 1 .. c : q[k] = a[e[k]]
    BY <1>1
  <1>3. N \in Nat /\ DOMAIN a = 1 .. N /\ (a = <<>> <=> N = 0)
        /\ \A i \in DOMAIN a : a[i].gap \in BOOLEAN /\ a[i].seq \in Nat
    BY RowFacts
  <1>4. x = IF c > MaxRecords THEN c - MaxRecords ELSE 0
    BY DEF Excess, Records
  <1>5. MaxRecords \in Nat \ {0}
    BY ReaderConstants
  <1>6. \A i \in R : i \in 1 .. N /\ i \in Nat /\ ~a[i].gap
    BY <1>3 DEF RecordRows
  <1>7. \A i \in DOMAIN a : ~a[i].gap => i \in R
    BY DEF RecordRows
  <1> DEFINE dropped == {q[i].seq : i \in 1 .. x}
  <1>8. Trim(a) = Filtered(a, {i \in DOMAIN a : a[i].gap \/ a[i].seq \notin dropped})
    BY DEF Trim, Records
  <1>9. \A i, j \in R : i < j => a[i].seq < a[j].seq
    BY <1>3, <1>6 DEF Ordered
  <1> HIDE DEF R, q, c, N
  <1>10. /\ e \in [1 .. c -> R] /\ \A k, l \in 1 .. c : k < l => e[k] < e[l]
         /\ \A i \in R : \E k \in 1 .. c : e[k] = i
         /\ \A k \in 1 .. c : e[k] \in R /\ e[k] \in Nat
    <2>1. /\ e \in [1 .. c -> R] /\ \A k, l \in 1 .. c : k < l => e[k] < e[l]
          /\ \A i \in R : \E k \in 1 .. c : e[k] = i
      BY <1>2 DEF Lists
    <2> QED
      BY <1>6, <2>1
  <1>11. x \in 0 .. c /\ (c > 0 => x < c) /\ c - x <= MaxRecords
    BY <1>1, <1>4, <1>5
  <1> DEFINE p == IF x = 0 THEN 0 ELSE e[x]
  <1>12. x = 0 \/ x \in 1 .. c
    BY <1>1, <1>11
  <1>13. p \in 0 .. N
    BY <1>3, <1>6, <1>10, <1>12
  <1>14. \A k \in 1 .. c : e[k] > p <=> k > x
    <2> TAKE k \in 1 .. c
    <2>1. CASE x = 0
      BY <1>1, <1>6, <1>10, <2>1
    <2>2. CASE x # 0
      <3>1. x \in 1 .. c /\ p = e[x] /\ e[x] \in Nat /\ e[k] \in Nat
        BY <1>10, <1>12, <2>2
      <3>2. (k < x => e[k] < e[x]) /\ (x < k => e[x] < e[k]) /\ (k = x => e[k] = e[x])
        BY <1>10, <3>1
      <3>3. k \in Nat /\ x \in Nat
        BY <1>1, <3>1
      <3> HIDE DEF p
      <3> QED
        BY <3>1, <3>2, <3>3
    <2> QED
      BY <2>1, <2>2
  <1> HIDE DEF p
  <1>15. \A i \in R : i > p <=> a[i].seq \notin dropped
    <2> TAKE i \in R
    <2>1. PICK k \in 1 .. c : e[k] = i
      BY <1>10
    <2>2. q[k] = a[i] /\ k \in Nat
      BY <1>1, <1>2, <2>1
    <2>3. ASSUME k <= x
          PROVE  a[i].seq \in dropped
      <3>1. k \in 1 .. x
        BY <1>1, <1>11, <2>1, <2>3
      <3> QED
        BY <2>2, <3>1
    <2>4. ASSUME k > x, a[i].seq \in dropped
          PROVE  FALSE
      <3>1. PICK l \in 1 .. x : a[i].seq = q[l].seq
        BY <2>4
      <3>2. l \in 1 .. c /\ l < k /\ q[l] = a[e[l]]
        BY <1>1, <1>2, <1>11, <2>2, <2>4
      <3>3. e[l] \in R /\ e[l] < i
        BY <1>10, <2>1, <3>2
      <3>4. a[e[l]].seq < a[i].seq /\ a[e[l]].seq \in Nat /\ a[i].seq \in Nat
        BY <1>3, <1>6, <1>9, <3>3
      <3> QED
        BY <3>1, <3>2, <3>4
    <2>5. x \in Nat
      BY <1>1, <1>11
    <2>6. i > p <=> k > x
      BY <1>14, <2>1
    <2> QED
      BY <2>2, <2>3, <2>4, <2>5, <2>6
  <1> HIDE DEF dropped
  <1>16. {i \in DOMAIN a : a[i].gap \/ a[i].seq \notin dropped} = {i \in DOMAIN a : a[i].gap \/ i > p}
    BY <1>3, <1>7, <1>15
  <1>17. Cardinality({i \in R : i > p}) <= MaxRecords
    <2> DEFINE K == {i \in R : i > p}
               f == [i \in K |-> CHOOSE k \in 1 .. c : e[k] = i]
    <2>1. ASSUME NEW i \in K
          PROVE  f[i] \in 1 .. c /\ e[f[i]] = i /\ f[i] \in x + 1 .. c
      <3>1. \E k \in 1 .. c : e[k] = i
        BY <1>10
      <3>2. f[i] \in 1 .. c /\ e[f[i]] = i
        BY <3>1
      <3> HIDE DEF f
      <3>3. f[i] > x
        BY <1>14, <3>2
      <3> QED
        BY <1>1, <1>11, <3>2, <3>3
    <2>2. f \in Injection(K, x + 1 .. c)
      <3>1. f \in [K -> x + 1 .. c]
        BY <2>1
      <3>2. \A i, j \in K : f[i] = f[j] => i = j
        BY <2>1
      <3> HIDE DEF f, K
      <3> QED
        BY <3>1, <3>2 DEF Injection, IsInjective
    <2>3. IsFiniteSet(x + 1 .. c) /\ Cardinality(x + 1 .. c) <= MaxRecords
      <3>1. x + 1 \in Int /\ c \in Int
        BY <1>1, <1>11
      <3>2. IsFiniteSet(x + 1 .. c)
            /\ Cardinality(x + 1 .. c) = IF x + 1 > c THEN 0 ELSE c - (x + 1) + 1
        BY <3>1, FS_Interval
      <3> QED
        BY <1>1, <1>5, <1>11, <3>2
    <2> HIDE DEF f, K
    <2>4. IsFiniteSet(K) /\ Cardinality(K) <= Cardinality(x + 1 .. c)
      BY <2>2, <2>3, FS_Injection
    <2>5. Cardinality(K) \in Nat /\ Cardinality(x + 1 .. c) \in Nat
      BY <2>3, <2>4, FS_CardinalityType
    <2>6. Cardinality(K) <= MaxRecords
      BY <1>5, <2>3, <2>4, <2>5
    <2> QED
      BY <2>6 DEF K
  <1>18. GapRows(a) = {} => p = x
    <2> HAVE GapRows(a) = {}
    <2>1. R = 1 .. N
      BY <1>3, <1>6, <1>7 DEF GapRows
    <2>2. Rest(R, 0, N)
      BY <1>3, <2>1 DEF Rest
    <2>3. \A k \in 1 .. c : e[k] = 0 + k
      BY <1>1, <1>2, <2>2, RestKept
    <2> QED
      BY <1>1, <1>12, <2>3 DEF p
  <1>19. a # <<>> /\ ~a[N].gap => p < N
    <2> HAVE a # <<>> /\ ~a[N].gap
    <2>1. N \in R
      BY <1>3, <1>7
    <2>2. PICK k \in 1 .. c : e[k] = N
      BY <1>10, <2>1
    <2>3. c > 0 /\ x < c /\ c \in 1 .. c
      BY <1>1, <1>11
    <2>4. e[c] > p /\ e[c] \in 1 .. N
      BY <1>6, <1>10, <1>14, <2>3
    <2> QED
      BY <1>3, <1>13, <2>4
  <1>20. x \in Nat
    BY <1>1, <1>11
  <1>21. /\ Trim(a) = Filtered(a, {i \in DOMAIN a : a[i].gap \/ i > p})
         /\ Cardinality({i \in RecordRows(a) : i > p}) <= MaxRecords
         /\ GapRows(a) = {} => p = x
         /\ a # <<>> /\ ~a[Len(a)].gap => p < Len(a)
    BY <1>8, <1>16, <1>17, <1>18, <1>19 DEF R, N
  <1> QED
    BY <1>13, <1>20, <1>21 DEF N

\* Every non-empty set of natural numbers has a least element.
LEMMA LeastNumber ==
    ASSUME NEW S, S \subseteq Nat, S # {}
    PROVE  \E n \in S : \A m \in S : n <= m
  <1>1. PICK n \in S : \A m \in S : ~(<<m, n>> \in OpToRel(<, Nat))
    BY NatLessThanWellFounded, WFMin, Zenon
  <1>2. \A m \in S : m \in Nat /\ n \in Nat /\ ~(m < n)
    BY <1>1, Zenon DEF OpToRel
  <1>3. \A m, k \in Nat : ~(m < k) => k <= m
    OBVIOUS
  <1> QED
    BY <1>1, <1>2, <1>3, Zenon

\* Trimming keeps the rows sound: the first record moves on by what was trimmed.
LEMMA TrimSound ==
    ASSUME NEW a, NEW r, NEW after, NEW first \in Int, SoundRows(a, r, after, first),
           NEW x, x = Excess(a), NEW t, t = Trim(a)
    PROVE  /\ x \in Nat
           /\ SoundRows(t, r, after, first + x)
           /\ t = <<>> <=> a = <<>>
           /\ Cardinality(RecordRows(t)) <= MaxRecords
  <1>1. /\ a \in Seq(Rows) /\ \A i \in DOMAIN a : a[i].run = r
        /\ Ordered(a) /\ Marked(a) /\ Ends(a, after) /\ Counts(a, first)
        /\ Enough \/ GapRows(a) = {} => Unbroken(a)
    BY DEF SoundRows
  <1>2. x \in Nat
    BY <1>1, TrimCut
  <1>3. PICK p \in 0 .. Len(a) :
            /\ Trim(a) = Filtered(a, {i \in DOMAIN a : a[i].gap \/ i > p})
            /\ Cardinality({i \in RecordRows(a) : i > p}) <= MaxRecords
            /\ GapRows(a) = {} => p = x
            /\ a # <<>> /\ ~a[Len(a)].gap => p < Len(a)
    BY <1>1, TrimCut
  <1> DEFINE I == {i \in DOMAIN a : a[i].gap \/ i > p}
             N == Len(a)
             n == Len(t)
  <1>4. N \in Nat /\ DOMAIN a = 1 .. N /\ (a = <<>> <=> N = 0) /\ (a # <<>> => N \in DOMAIN a)
        /\ \A i \in DOMAIN a : a[i].gap \in BOOLEAN /\ a[i].seq \in Nat
    BY <1>1, RowFacts
  <1>5. I \subseteq DOMAIN a /\ I \in SUBSET Nat
    BY <1>4
  <1>6. a # <<>> => N \in I
    BY <1>1, <1>3, <1>4 DEF Ends
  <1>7. \A i \in DOMAIN a : i > p => i \in I
    OBVIOUS
  <1>8. \A i \in I : a[i].gap \/ i > p
    OBVIOUS
  <1>9. \A i \in DOMAIN a : a[i].gap => i \in I
    OBVIOUS
  <1>10. t = Filtered(a, I)
    BY <1>3
  <1> HIDE DEF I, N
  <1>11. /\ t \in Seq(Rows) /\ \A i \in DOMAIN t : t[i].run = r
         /\ Ordered(t) /\ Ends(t, after)
         /\ t = <<>> <=> a = <<>>
         /\ \E e : Lists(e, n, I) /\ \A k \in 1 .. n : t[k] = a[e[k]]
    <2>1. a # <<>> => Len(a) \in I
      BY <1>6 DEF N
    <2>2. Sifted(t, a, I, r, after)
      BY <1>1, <1>5, <1>10, <2>1, SiftedRows
    <2> QED
      BY <2>2 DEF Sifted
  <1>12. PICK e : Lists(e, n, I) /\ \A k \in 1 .. n : t[k] = a[e[k]]
    BY <1>11
  <1>13. n \in Nat /\ DOMAIN t = 1 .. n
    BY <1>11, LenProperties
  <1> HIDE DEF n
  <1>14. /\ e \in [1 .. n -> I] /\ \A k, l \in 1 .. n : k < l => e[k] < e[l]
         /\ \A i \in I : \E k \in 1 .. n : e[k] = i
         /\ \A k \in 1 .. n : e[k] \in I /\ e[k] \in 1 .. N /\ e[k] \in Nat
    BY <1>4, <1>5, <1>12 DEF Lists
  <1>21. KeepsNext(e, n, I)
    <2>1. Lists(e, n, I) /\ n \in Nat
      BY <1>12, <1>13
    <2> QED
      BY <2>1, NextKept
  <1>15. p \in Nat /\ p <= N
    BY <1>3, <1>4 DEF N
  <1>16. Marked(t)
    <2> SUFFICES ASSUME NEW k \in 1 .. n, t[k].gap
                 PROVE  \/ \A j \in 1 .. n : j < k => t[j].gap
                        \/ k + 1 \in 1 .. n /\ ~t[k + 1].gap
      BY <1>13 DEF Marked
    <2>1. a[e[k]].gap /\ e[k] \in DOMAIN a
      BY <1>4, <1>12, <1>14
    <2>2. CASE \A j \in DOMAIN a : j < e[k] => a[j].gap
      <3>1. \A j \in 1 .. n : j < k => a[e[j]].gap
        BY <1>4, <1>14, <2>2
      <3> QED
        BY <1>12, <3>1
    <2>3. CASE e[k] + 1 \in DOMAIN a /\ ~a[e[k] + 1].gap
      <3>1. CASE e[k] + 1 > p
        <4>1. e[k] + 1 \in I
          BY <1>7, <2>3, <3>1
        <4>2. k + 1 \in 1 .. n /\ e[k + 1] = e[k] + 1
          BY <1>21, <4>1 DEF KeepsNext
        <4>3. t[k + 1] = a[e[k] + 1]
          BY <1>12, <4>2
        <4> QED
          BY <2>3, <4>2, <4>3
      <3>2. CASE ~(e[k] + 1 > p)
        <4>1. ASSUME NEW j \in 1 .. n, j < k
              PROVE  t[j].gap
          <5>1. e[j] < e[k] /\ e[j] \in I /\ e[j] \in Nat /\ e[k] \in Nat
            BY <1>14, <4>1
          <5>2. ~(e[j] > p)
            BY <1>15, <3>2, <5>1
          <5> QED
            BY <1>8, <1>12, <5>1, <5>2
        <4> QED
          BY <4>1
      <3> QED
        BY <3>1, <3>2
    <2> QED
      BY <1>1, <2>1, <2>2, <2>3 DEF Marked
  <1>17. GapRows(t) = {} => GapRows(a) = {}
    <2> SUFFICES ASSUME NEW i \in GapRows(a) PROVE GapRows(t) # {}
      OBVIOUS
    <2>1. i \in DOMAIN a /\ a[i].gap /\ i \in I
      BY <1>9 DEF GapRows
    <2>2. PICK k \in 1 .. n : e[k] = i
      BY <1>14, <2>1
    <2>3. t[k].gap /\ k \in DOMAIN t
      BY <1>12, <1>13, <2>1, <2>2
    <2> QED
      BY <2>3 DEF GapRows
  <1>18. ASSUME Enough \/ GapRows(t) = {}
         PROVE  Unbroken(t)
    <2>1. Unbroken(a)
      BY <1>1, <1>17, <1>18
    <2> SUFFICES ASSUME NEW k \in 1 .. n - 1, ~t[k].gap, ~t[k + 1].gap
                 PROVE  t[k + 1].seq = t[k].seq + 1
      BY DEF Unbroken, n
    <2>2. k \in 1 .. n /\ k + 1 \in 1 .. n /\ k < k + 1
      BY <1>13
    <2>3. e[k] < e[k + 1] /\ e[k] \in 1 .. N /\ e[k + 1] \in 1 .. N /\ e[k] \in Nat
      BY <1>14, <2>2
    <2>4. t[k] = a[e[k]] /\ t[k + 1] = a[e[k + 1]] /\ e[k] > p
      BY <1>8, <1>12, <1>14, <2>2
    <2>5. e[k] + 1 \in 1 .. N /\ e[k] + 1 > p /\ e[k] \in 1 .. N - 1
      BY <1>4, <1>15, <2>3, <2>4
    <2>6. e[k] + 1 \in I
      BY <1>4, <1>7, <2>5
    <2>7. e[k + 1] = e[k] + 1
      BY <1>21, <2>2, <2>6 DEF KeepsNext
    <2>8. e[k] \in 1 .. Len(a) - 1
      BY <2>5 DEF N
    <2>9. a[e[k] + 1].seq = a[e[k]].seq + 1
      BY <2>1, <2>4, <2>7, <2>8 DEF Unbroken
    <2> QED
      BY <2>4, <2>7, <2>9
  <1>19. Counts(t, first + x)
    <2> SUFFICES ASSUME GapRows(t) = {}, NEW k \in 1 .. n
                 PROVE  t[k].seq = first + x + k - 1
      BY <1>13 DEF Counts
    <2>1. GapRows(a) = {} /\ p = x
      BY <1>3, <1>17
    <2>2. Rest(I, x, N)
      BY <1>2, <1>4, <2>1 DEF I, GapRows, Rest
    <2>3. e[k] = x + k
      BY <1>12, <1>13, <2>2, RestKept
    <2>4. a[e[k]].seq = first + e[k] - 1
      BY <1>1, <1>4, <1>14, <2>1 DEF Counts
    <2>5. t[k].seq = first + (x + k) - 1 /\ k \in Int
      BY <1>12, <2>3, <2>4
    <2> QED
      BY <1>2, <2>5
  <1>20. Cardinality(RecordRows(t)) <= MaxRecords
    <2> DEFINE K == {i \in RecordRows(a) : i > p}
               L == RecordRows(t)
               f == [k \in L |-> e[k]]
    <2>1. ASSUME NEW k \in L
          PROVE  k \in 1 .. n /\ e[k] \in K
      <3>1. k \in 1 .. n /\ ~t[k].gap
        BY <1>13 DEF RecordRows
      <3>2. ~a[e[k]].gap /\ e[k] \in I /\ e[k] \in DOMAIN a
        BY <1>4, <1>12, <1>14, <3>1
      <3> QED
        BY <1>8, <3>1, <3>2 DEF RecordRows
    <2>2. K \subseteq 1 .. N
      BY <1>4 DEF RecordRows
    <2> HIDE DEF K, L
    <2>3. f \in Injection(L, K)
      <3>1. f \in [L -> K]
        BY <2>1
      <3>2. ASSUME NEW k \in L, NEW l \in L, f[k] = f[l]
            PROVE  k = l
        <4>1. e[k] = e[l] /\ k \in 1 .. n /\ l \in 1 .. n
          BY <2>1, <3>2
        <4>2. ~(k < l) /\ ~(l < k)
          BY <1>14, <4>1
        <4> QED
          BY <1>13, <4>1, <4>2
      <3> HIDE DEF f
      <3> QED
        BY <3>1, <3>2 DEF Injection, IsInjective
    <2> HIDE DEF f
    <2>4. IsFiniteSet(K)
      <3>1. IsFiniteSet(1 .. N)
        BY <1>4, FS_Interval
      <3> QED
        BY <2>2, <3>1, FS_Subset
    <2>5. IsFiniteSet(L) /\ Cardinality(L) <= Cardinality(K)
      BY <2>3, <2>4, FS_Injection
    <2>6. Cardinality(K) \in Nat /\ Cardinality(L) \in Nat /\ Cardinality(K) <= MaxRecords
          /\ MaxRecords \in Nat
      BY <1>3, <2>4, <2>5, FS_CardinalityType, ReaderConstants DEF K
    <2>7. Cardinality(L) <= MaxRecords
      BY <2>5, <2>6
    <2> QED
      BY <2>7 DEF L
  <1> QED
    BY <1>2, <1>11, <1>16, <1>18, <1>19, <1>20 DEF SoundRows

\* Nor does dropping the oldest marker: with Enough room for markers it is above
\* all records.
LEMMA BoundSound ==
    ASSUME NEW a, NEW r, NEW after, NEW first \in Int, SoundRows(a, r, after, first),
           Cardinality(RecordRows(a)) <= MaxRecords,
           NEW t, t = BoundGaps(a)
    PROVE  /\ SoundRows(t, r, after, first)
           /\ t = <<>> <=> a = <<>>
  <1>1. /\ a \in Seq(Rows) /\ \A i \in DOMAIN a : a[i].run = r
        /\ Ordered(a) /\ Marked(a) /\ Ends(a, after) /\ Counts(a, first)
        /\ Enough \/ GapRows(a) = {} => Unbroken(a)
    BY DEF SoundRows
  <1> DEFINE G == GapRows(a)
             R == RecordRows(a)
             N == Len(a)
             n == Len(t)
             o == OldestGap(a)
             I == DOMAIN a \ {o}
  <1>2. N \in Nat /\ DOMAIN a = 1 .. N /\ (a = <<>> <=> N = 0) /\ (a # <<>> => N \in DOMAIN a)
        /\ \A i \in DOMAIN a : a[i].gap \in BOOLEAN /\ a[i].seq \in Nat
    BY <1>1, RowFacts
  <1>3. /\ G \subseteq 1 .. N /\ R \subseteq 1 .. N
        /\ \A i \in 1 .. N : (i \in G <=> a[i].gap) /\ (i \in R <=> ~a[i].gap)
    BY <1>2 DEF GapRows, RecordRows
  <1>4. /\ IsFiniteSet(G) /\ Cardinality(G) \in Nat /\ Len(Gaps(a)) = Cardinality(G)
        /\ IsFiniteSet(R) /\ Cardinality(R) \in Nat
    <2>1. IsFiniteSet(1 .. N)
      <3> HIDE DEF N, G, R, I, n, o
      <3>1. 1 \in Int /\ N \in Int
        BY <1>2
      <3> QED
        BY <3>1, FS_Interval
    <2>2. IsFiniteSet(G) /\ IsFiniteSet(R)
      BY <1>3, <2>1, FS_Subset
    <2>3. G \subseteq DOMAIN a
      BY <1>2, <1>3
    <2> HIDE DEF G, R
    <2>4. Len(Filtered(a, G)) = Cardinality(G)
      BY <1>1, <2>3, FilteredFacts
    <2> QED
      BY <2>2, <2>4, FS_CardinalityType DEF Gaps, G
  <1>5. MaxGapRows \in Nat \ {0} /\ MaxRecords \in Nat \ {0}
    BY ReaderConstants
  <1>6. CASE ~(Cardinality(G) > MaxGapRows)
    <2>1. t = a
      BY <1>4, <1>6 DEF BoundGaps
    <2> QED
      BY <2>1
  <1>7. CASE Cardinality(G) > MaxGapRows
    <2>1. t = Filtered(a, I)
      BY <1>4, <1>7 DEF BoundGaps
    <2>2. o \in G /\ \A j \in G : o <= j
      <3>1. G # {}
        BY <1>5, <1>7, FS_EmptySet
      <3>2. G \subseteq Nat
        BY <1>3
      <3> HIDE DEF G, o
      <3>3. PICK i \in G : \A j \in G : i <= j
        BY <3>1, <3>2, LeastNumber
      <3> QED
        BY <3>3 DEF OldestGap, G, o
    <2> HIDE DEF G, R, o, N
    <2>3. I \subseteq DOMAIN a /\ I \in SUBSET Nat
      BY <1>2
    <2>4. a # <<>> => N \in I
      BY <1>1, <1>2, <1>3, <2>2 DEF Ends, N
    <2>5. \A i \in DOMAIN a : i # o => i \in I
      OBVIOUS
    <2>6. a[o].gap /\ o \in 1 .. N /\ o \notin I
      BY <1>3, <2>2
    <2> HIDE DEF I
    <2>7. /\ t \in Seq(Rows) /\ \A i \in DOMAIN t : t[i].run = r
          /\ Ordered(t) /\ Ends(t, after)
          /\ t = <<>> <=> a = <<>>
          /\ \E e : Lists(e, n, I) /\ \A k \in 1 .. n : t[k] = a[e[k]]
      <3>1. a # <<>> => Len(a) \in I
        BY <2>4 DEF N
      <3>2. Sifted(t, a, I, r, after)
        BY <1>1, <2>1, <2>3, <3>1, SiftedRows
      <3> QED
        BY <3>2 DEF Sifted
    <2>8. PICK e : Lists(e, n, I) /\ \A k \in 1 .. n : t[k] = a[e[k]]
      BY <2>7
    <2>9. n \in Nat /\ DOMAIN t = 1 .. n
      BY <2>7, LenProperties
    <2> HIDE DEF n
    <2>10. /\ e \in [1 .. n -> I] /\ \A k, l \in 1 .. n : k < l => e[k] < e[l]
           /\ \A i \in I : \E k \in 1 .. n : e[k] = i
           /\ \A k \in 1 .. n : e[k] \in I /\ e[k] \in 1 .. N /\ e[k] \in Nat /\ e[k] # o
      BY <1>2, <2>3, <2>6, <2>8 DEF Lists
    <2>17. KeepsNext(e, n, I)
      <3>1. Lists(e, n, I) /\ n \in Nat
        BY <2>8, <2>9
      <3> QED
        BY <3>1, NextKept
    <2>11. Marked(t)
      <3> SUFFICES ASSUME NEW k \in 1 .. n, t[k].gap
                   PROVE  \/ \A j \in 1 .. n : j < k => t[j].gap
                          \/ k + 1 \in 1 .. n /\ ~t[k + 1].gap
        BY <2>9 DEF Marked
      <3>1. a[e[k]].gap /\ e[k] \in DOMAIN a
        BY <1>2, <2>8, <2>10
      <3>2. CASE \A j \in DOMAIN a : j < e[k] => a[j].gap
        <4>1. \A j \in 1 .. n : j < k => a[e[j]].gap
          BY <1>2, <2>10, <3>2
        <4> QED
          BY <2>8, <4>1
      <3>3. CASE e[k] + 1 \in DOMAIN a /\ ~a[e[k] + 1].gap
        <4>1. e[k] + 1 \in I
          BY <2>5, <2>6, <3>3
        <4>2. k + 1 \in 1 .. n /\ e[k + 1] = e[k] + 1
          BY <2>17, <4>1 DEF KeepsNext
        <4> QED
          BY <2>8, <3>3, <4>2
      <3> QED
        BY <1>1, <3>1, <3>2, <3>3 DEF Marked
    <2>12. GapRows(t) # {}
      <3>1. \E i \in G : i # o
        <4> SUFFICES ASSUME \A i \in G : i = o PROVE FALSE
          OBVIOUS
        <4>1. G = {o}
          BY <2>2
        <4>2. Cardinality(G) = 1
          BY <4>1, FS_Singleton
        <4> QED
          BY <1>5, <1>7, <4>2
      <3>2. PICK i \in G : i # o
        BY <3>1
      <3>3. i \in I /\ a[i].gap
        BY <1>2, <1>3, <2>5, <3>2
      <3>4. PICK k \in 1 .. n : e[k] = i
        BY <2>10, <3>3
      <3>5. k \in DOMAIN t /\ t[k].gap
        BY <2>8, <2>9, <3>3, <3>4
      <3> QED
        BY <3>5 DEF GapRows
    <2>13. ASSUME Enough
           PROVE  o = 1
      <3> SUFFICES ASSUME o # 1 PROVE FALSE
        OBVIOUS
      <3>1. 1 \in 1 .. N /\ 1 \in R /\ ~a[1].gap
        <4>1. o \in Nat /\ o > 1 /\ 1 \in 1 .. N
          BY <1>2, <2>6
        <4>2. 1 \notin G
          BY <2>2, <4>1
        <4> QED
          BY <1>3, <4>1, <4>2
      <3>2. ASSUME NEW i \in G
            PROVE  i + 1 \in R \ {1}
        <4>1. i \in 1 .. N /\ a[i].gap /\ i # 1 /\ i \in Nat
          BY <1>3, <3>1
        <4>2. 1 < i /\ 1 \in DOMAIN a
          BY <1>2, <3>1, <4>1
        <4>3. i + 1 \in DOMAIN a /\ ~a[i + 1].gap
          BY <1>1, <1>2, <3>1, <4>1, <4>2 DEF Marked
        <4> QED
          BY <1>2, <1>3, <4>1, <4>3
      <3> DEFINE f == [i \in G |-> i + 1]
      <3>3. f \in Injection(G, R \ {1})
        <4>1. f \in [G -> R \ {1}]
          BY <3>2
        <4>2. ASSUME NEW i \in G, NEW j \in G, f[i] = f[j]
              PROVE  i = j
          <5>1. i + 1 = j + 1 /\ i \in 1 .. N /\ j \in 1 .. N
            BY <1>3, <4>2
          <5> QED
            BY <1>2, <5>1
        <4> HIDE DEF f
        <4> QED
          BY <4>1, <4>2 DEF Injection, IsInjective
      <3> HIDE DEF f
      <3>4. IsFiniteSet(R \ {1}) /\ Cardinality(R \ {1}) = Cardinality(R) - 1
        BY <1>4, <3>1, FS_RemoveElement
      <3>5. Cardinality(G) <= Cardinality(R \ {1})
        BY <3>3, <3>4, FS_Injection
      <3>6. Cardinality(R) <= MaxRecords
        BY DEF R
      <3>7. MaxGapRows >= MaxRecords - 1
        BY <2>13 DEF Enough
      <3>8. Cardinality(G) <= Cardinality(R) - 1
        BY <3>4, <3>5
      <3> QED
        BY <1>4, <1>5, <1>7, <3>6, <3>7, <3>8
    <2>14. ASSUME Enough \/ GapRows(t) = {}
           PROVE  Unbroken(t)
      <3>1. Enough /\ o = 1 /\ Unbroken(a)
        BY <1>1, <2>12, <2>13, <2>14
      <3> SUFFICES ASSUME NEW k \in 1 .. n - 1, ~t[k].gap, ~t[k + 1].gap
                   PROVE  t[k + 1].seq = t[k].seq + 1
        BY DEF Unbroken, n
      <3>2. k \in 1 .. n /\ k + 1 \in 1 .. n /\ k \in Nat
        BY <2>9
      <3>3. I = 1 + 1 .. N
        BY <1>2, <3>1 DEF I
      <3>4. Rest(I, 1, N)
        BY <1>2, <3>3 DEF Rest
      <3>5. \A l \in 1 .. n : e[l] = 1 + l
        BY <2>8, <2>9, <3>4, RestKept
      <3>6. e[k] = 1 + k /\ e[k + 1] = 1 + (k + 1)
        BY <3>2, <3>5
      <3>7. t[k] = a[e[k]] /\ t[k + 1] = a[e[k + 1]] /\ e[k + 1] \in 1 .. N
        BY <2>8, <2>10, <3>2
      <3>8. e[k + 1] = e[k] + 1 /\ e[k] \in 1 .. N - 1
        BY <1>2, <3>2, <3>6, <3>7
      <3>9. e[k] \in 1 .. Len(a) - 1
        BY <3>8 DEF N
      <3>10. a[e[k] + 1].seq = a[e[k]].seq + 1
        BY <3>1, <3>7, <3>8, <3>9 DEF Unbroken
      <3> QED
        BY <3>7, <3>8, <3>10
    <2>15. Counts(t, first)
      BY <2>12 DEF Counts
    <2>16. SoundRows(t, r, after, first)
      BY <2>7, <2>11, <2>14, <2>15 DEF SoundRows
    <2> QED
      BY <2>7, <2>16
  <1> QED
    BY <1>6, <1>7

-------------------------------------------------------------------------------
(***************************************************************************)
(* The engine's page and the display's validator.                          *)
(***************************************************************************)

\* The bounds, as numbers.
LEMMA Bounds ==
    /\ RetentionLimit \in Nat \ {0} /\ PageSize \in Nat \ {0}
    /\ MaxRun \in Nat \ {0} /\ MaxSequence \in Nat /\ MaxGeneration \in Nat
  BY ReaderConstants

\* The ring holds the latest receptions, one after the other.
LEMMA RetainedFacts ==
    ASSUME NEW n \in Nat
    PROVE  /\ Retained(n) \in Seq(Int)
           /\ Len(Retained(n)) = Least(n, RetentionLimit)
           /\ Least(n, RetentionLimit) \in 0 .. n
           /\ n > 0 => Least(n, RetentionLimit) > 0
           /\ \A i \in 1 .. Least(n, RetentionLimit) :
                 Retained(n)[i] = n - Least(n, RetentionLimit) + i
  <1>1. Least(n, RetentionLimit) \in 0 .. n /\ (n > 0 => Least(n, RetentionLimit) > 0)
    BY Bounds DEF Least
  <1> DEFINE L == Least(n, RetentionLimit)
  <1> HIDE DEF L
  <1>2. L \in Nat
    BY <1>1 DEF L
  <1>3. Retained(n) = [i \in 1 .. L |-> n - L + i]
    BY DEF Retained, L
  <1>4. Retained(n) \in Seq(Int) /\ Len(Retained(n)) = L
    BY <1>2, <1>3
  <1> QED
    BY <1>1, <1>2, <1>3, <1>4 DEF L

\* The loop over the retained records ends.
LEMMA PassedFacts ==
    ASSUME NEW n \in Nat, NEW after \in Nat, NEW start, start = Passed(Retained(n), after)
    PROVE  /\ start \in 0 .. Least(n, RetentionLimit)
           /\ \A i \in 1 .. start : Retained(n)[i] <= after
           /\ start < Least(n, RetentionLimit) => Retained(n)[start + 1] > after
  <1> DEFINE L     == Least(n, RetentionLimit)
             first == n - L
             k     == IF after <= first THEN 0 ELSE IF after >= n THEN L ELSE after - first
  <1>1. L \in 0 .. n /\ Len(Retained(n)) = L /\ \A i \in 1 .. L : Retained(n)[i] = first + i
    BY RetainedFacts
  <1> HIDE DEF L
  <1>2. k \in 0 .. L
    BY <1>1
  <1>3. \A i \in 1 .. k : Retained(n)[i] <= after
    BY <1>1, <1>2
  <1>4. k < L => Retained(n)[k + 1] > after
    BY <1>1, <1>2
  <1>5. \E i \in 0 .. Len(Retained(n)) :
            /\ \A j \in 1 .. i : Retained(n)[j] <= after
            /\ i < Len(Retained(n)) => Retained(n)[i + 1] > after
    BY <1>1, <1>2, <1>3, <1>4
  <1> QED
    BY <1>1, <1>5 DEF Passed, L

\* Every page that the engine cuts for a sound cursor of its run is accepted by
\* the display, the cursor it returns is sound, and the page fits the cursor.
LEMMA CutFacts ==
    ASSUME Simulator, NEW request, request.station \in StationIds,
           Sound(request.cursor, request.station), request.cursor.run \in {NoRun, run},
           request.cursor.after <= last[request.station]
    PROVE  /\ AcceptsPage(request, Cut(request))
           /\ SoundPage(Cut(request), request.station)
           /\ Cut(request) \in Pages
           /\ Fits(Cut(request), request.cursor)
  <1> DEFINE n        == last[request.station]
             after    == request.cursor.after
             L        == Least(n, RetentionLimit)
             retained == Retained(n)
             start    == Passed(retained, after)
             end      == Least(start + PageSize, Len(retained))
             records  == SubSeq(retained, start + 1, end)
             page     == Cut(request)
  <1>1. n \in Nat /\ n <= MaxSequence /\ after \in Nat /\ after <= n /\ run \in 1 .. MaxRun
    BY Bounds DEF Simulator, Sequences, Sound, Cursors
  <1>2. /\ retained \in Seq(Int) /\ Len(retained) = L
        /\ L \in 0 .. n
        /\ n > 0 => L > 0
        /\ \A i \in 1 .. L : retained[i] = n - L + i
    BY <1>1, RetainedFacts
  <1>3. /\ start \in 0 .. L
        /\ \A i \in 1 .. start : retained[i] <= after
        /\ start < L => retained[start + 1] > after
    BY <1>1, PassedFacts
  <1>4. page = [run |-> run, station |-> request.station, records |-> records,
                oldest |-> Oldest(n), latest |-> n,
                next |-> [run |-> run, after |-> IF records = <<>> THEN after ELSE Last(records)],
                gap |-> IsGap(request.cursor, Oldest(n)), more |-> end < Len(retained)]
    BY DEF Cut
  <1> HIDE DEF n, after, L
  <1>5. Oldest(n) = IF n = 0 THEN 0 ELSE n - L + 1
    <2>1. CASE n = 0
      BY <2>1 DEF Oldest
    <2>2. CASE n # 0
      <3>1. 1 \in 1 .. L
        BY <1>1, <1>2, <2>2
      <3> QED
        BY <1>2, <2>2, <3>1 DEF Oldest
    <2> QED
      BY <2>1, <2>2
  <1> HIDE DEF retained, start, page
  <1>6. end \in start .. L /\ end <= start + PageSize /\ (start < L => start < end)
    <2>1. start \in 0 .. L
      BY <1>3
    <2> QED
      BY <1>2, <2>1, Bounds DEF Least
  <1> HIDE DEF end
  <1> DEFINE m == end - start
             o == n - L + start
  <1>7. /\ m \in Nat /\ m <= PageSize /\ o \in Nat
        /\ records \in Seq(Int) /\ Len(records) = m /\ DOMAIN records = 1 .. m
        /\ records = [i \in 1 .. m |-> o + i]
        /\ \A i \in 1 .. m : records[i] = o + i
        /\ o + m <= n
    <2>1. m \in Nat /\ m <= PageSize /\ o \in Nat /\ o + m <= n
      BY <1>1, <1>2, <1>3, <1>6, Bounds
    <2>2. records = [i \in 1 .. m |-> retained[start + i]]
      <3>1. start \in 0 .. L
        BY <1>3
      <3> QED
        BY <1>2, <1>6, <3>1
    <2>3. \A i \in 1 .. m : start + i \in 1 .. L /\ retained[start + i] = o + i
      BY <1>1, <1>2, <1>3, <1>6
    <2> HIDE DEF m, o, records
    <2>4. records = [i \in 1 .. m |-> o + i]
      BY <2>2, <2>3
    <2>5. Len(records) = m /\ DOMAIN records = 1 .. m /\ records \in Seq(Int)
      BY <2>1, <2>4
    <2>6. \A i \in 1 .. m : records[i] = o + i
      BY <2>4
    <2> QED
      BY <2>1, <2>4, <2>5, <2>6
  <1> HIDE DEF records
  <1>13. m = 0 => ~(end < L)
    BY <1>1, <1>2, <1>3, <1>6
  <1>14. o >= n - L
    BY <1>1, <1>2, <1>3
  <1> HIDE DEF m, o
  <1>8. records = <<>> <=> m = 0
    BY <1>7
  <1>9. records # <<>> => Last(records) = o + m
    <2>1. records # <<>> => m \in 1 .. m
      BY <1>7, <1>8
    <2> QED
      BY <1>7, <2>1 DEF Last
  <1>10. AcceptsPage(request, page)
    <2>1. /\ page.station = request.station /\ request.cursor.run \in {NoRun, page.run}
          /\ page.records = records /\ page.oldest = Oldest(n) /\ page.latest = n
          /\ page.next.run = page.run
          /\ page.next.after = IF records = <<>> THEN after ELSE Last(records)
          /\ page.more = (end < L) /\ page.gap = IsGap(request.cursor, Oldest(n))
      BY <1>2, <1>4
    <2>2. Len(page.records) <= PageSize
      BY <1>7, <2>1
    <2>3. page.oldest <= page.latest
      BY <1>1, <1>2, <1>5, <2>1
    <2>4. ASSUME NEW i \in DOMAIN page.records
          PROVE  /\ page.records[i] \in page.oldest .. page.latest
                 /\ page.records[i] > 0
                 /\ i > 1 => page.records[i] = page.records[i - 1] + 1
      <3>1. i \in 1 .. m
        BY <1>7, <2>1
      <3>2. i > 1 => i - 1 \in 1 .. m
        BY <1>7, <3>1
      <3>3. page.records[i] = o + i /\ (i > 1 => page.records[i - 1] = o + (i - 1))
        BY <1>7, <2>1, <3>1, <3>2
      <3>4. o + i \in n - L + 1 .. n /\ (n = 0 => FALSE)
        BY <1>1, <1>2, <1>7, <1>14, <3>1
      <3>5. page.oldest = n - L + 1 /\ page.latest = n
        BY <1>5, <2>1, <3>4
      <3>6. i \in Nat /\ i > 0 /\ o \in Nat
        BY <1>7, <3>1
      <3> QED
        BY <1>1, <1>2, <3>3, <3>4, <3>5, <3>6
    <2>5. AcceptsCursor(request, page)
      <3>1. page.records = <<>> => ~page.more
        BY <1>13, <1>8, <2>1
      <3> QED
        BY <2>1, <3>1 DEF AcceptsCursor, IsGap, after
    <2> QED
      BY <2>1, <2>2, <2>3, <2>4, <2>5 DEF AcceptsPage
  <1>11. SoundPage(page, request.station)
    <2> DEFINE next == IF records = <<>> THEN after ELSE Last(records)
    <2>1. next \in 0 .. MaxSequence /\ next <= n
      <3>1. CASE records = <<>>
        BY <1>1, <3>1, Bounds
      <3>2. CASE records # <<>>
        <4>1. next = o + m
          BY <1>9, <3>2
        <4>2. o + m \in 0 .. MaxSequence /\ o + m <= n
          BY <1>1, <1>7, Bounds
        <4> HIDE DEF next
        <4> QED
          BY <4>1, <4>2
      <3> QED
        BY <3>1, <3>2
    <2>2. page.next = [run |-> run, after |-> next] /\ page.run = run
      BY <1>4
    <2> HIDE DEF next
    <2>3. page.next \in Cursors /\ page.next.run = run /\ page.next.after = next
      BY <1>1, <2>1, <2>2 DEF Cursors, Sequences
    <2>4. run # NoRun /\ run \in 1 .. run
      BY <1>1 DEF NoRun
    <2> QED
      BY <2>1, <2>2, <2>3, <2>4 DEF SoundPage, Sound, n
  <1>12. page \in Pages
    <2>1. records \in Seq(Sequences)
      <3>1. \A i \in 1 .. m : o + i \in Sequences
        BY <1>1, <1>7, Bounds DEF Sequences
      <3>2. records \in [1 .. m -> Sequences]
        BY <1>7, <3>1
      <3> QED
        BY <1>7, <3>2
    <2>2. Oldest(n) \in Sequences /\ n \in Sequences
      BY <1>1, <1>2, <1>5, Bounds DEF Sequences
    <2>3. [run |-> run, after |-> IF records = <<>> THEN after ELSE Last(records)] \in Cursors
      BY <1>4, <1>11 DEF SoundPage, Sound
    <2>4. IsGap(request.cursor, Oldest(n)) \in BOOLEAN
      BY DEF IsGap
    <2> QED
      BY <1>1, <1>4, <2>1, <2>2, <2>3, <2>4 DEF Pages
  <1>15. Fits(page, request.cursor)
    <2> DEFINE cursor == request.cursor
               first  == n - L
    <2>1. /\ page.records = records /\ page.oldest = (IF n = 0 THEN 0 ELSE first + 1)
          /\ page.next.after = (IF records = <<>> THEN after ELSE Last(records))
          /\ page.more = (end < L)
      BY <1>2, <1>4, <1>5
    <2>18. page.gap <=> cursor # NoCursor /\ page.oldest > 0 /\ after < page.oldest - 1
      <3>1. page.gap = IsGap(cursor, page.oldest)
        BY <1>4
      <3>2. IsGap(cursor, page.oldest) <=> cursor # NoCursor /\ page.oldest > 0 /\ after < page.oldest - 1
        BY DEF IsGap, after
      <3> QED
        BY <3>1, <3>2
    <2>2. /\ \A i \in 1 .. L : retained[i] = first + i
          /\ first \in Nat /\ L \in Nat /\ start \in Nat /\ start <= L
      BY <1>1, <1>2, <1>3
    <2>3. m = end - start /\ o = first + start /\ m \in Nat /\ end \in Nat
      BY <1>1, <1>2, <1>3, <1>6 DEF m, o
    <2>4. cursor = NoCursor => after = 0
      BY DEF NoCursor, after
    <2>5. cursor.after = after
      BY DEF after
    <2> HIDE DEF cursor, first
    <2>6. start > 0 => first + start <= after
      <3> HAVE start > 0
      <3>1. start \in 1 .. start /\ start \in 1 .. L
        BY <2>2
      <3>2. retained[start] = first + start
        BY <2>2, <3>1
      <3> QED
        BY <1>3, <3>1, <3>2
    <2>7. start > 0 => first + 1 <= after
      BY <1>1, <2>2, <2>6
    <2>8. start < L => first + start + 1 > after
      <3> HAVE start < L
      <3>1. start + 1 \in 1 .. L
        BY <2>2
      <3>2. retained[start + 1] = first + (start + 1)
        BY <2>2, <3>1
      <3> QED
        BY <1>3, <2>2, <3>2
    <2>9. (m > 0 => start < L) /\ (m = 0 => start = L)
      BY <1>6, <2>2, <2>3
    <2>10. m > 0 => records[1] = o + 1
      <3> HAVE m > 0
      <3>1. 1 \in 1 .. m
        BY <2>3
      <3> QED
        BY <1>7, <3>1
    <2>11. \A i \in DOMAIN page.records : page.records[i] = page.records[1] + i - 1
      <3> TAKE i \in DOMAIN page.records
      <3>1. i \in 1 .. m /\ i \in Int /\ m > 0
        BY <1>7, <2>1, <2>3
      <3>2. records[i] = o + i
        BY <1>7, <3>1
      <3> QED
        BY <1>7, <2>1, <2>10, <3>1, <3>2
    <2>12. page.records # <<>> => page.records[1] > cursor.after
      BY <1>8, <2>1, <2>3, <2>5, <2>8, <2>9, <2>10
    <2>13. page.next.after = IF page.records = <<>> THEN cursor.after
                             ELSE page.records[Len(page.records)]
      BY <2>1, <2>5 DEF Last
    <2>14. n = 0 \/ L > 0
      BY <1>1, <1>2
    <2>15. page.records = <<>> => ~page.more /\ ~page.gap
      <3> HAVE page.records = <<>>
      <3>1. m = 0 /\ start = L
        BY <1>8, <2>1, <2>9
      <3>2. ~page.more
        BY <1>13, <2>1, <3>1
      <3>3. L > 0 => first + 1 <= after
        BY <2>7, <3>1
      <3>4. ~page.gap
        BY <1>1, <2>1, <2>2, <2>14, <2>18, <3>3
      <3> QED
        BY <3>2, <3>4
    <2>16. cursor = NoCursor => ~page.gap /\ (page.records # <<>> => page.records[1] = page.oldest)
      <3> HAVE cursor = NoCursor
      <3>1. start = 0
        BY <2>2, <2>4, <2>7
      <3>2. m > 0 => n # 0
        BY <1>1, <1>2, <2>2, <2>9
      <3> QED
        BY <1>8, <2>1, <2>2, <2>3, <2>10, <2>18, <3>1, <3>2
    <2>17. page.records # <<>> /\ ~page.gap /\ cursor # NoCursor => page.records[1] = cursor.after + 1
      <3> HAVE page.records # <<>> /\ ~page.gap /\ cursor # NoCursor
      <3>1. m > 0 /\ start < L
        BY <1>7, <1>8, <2>1, <2>3, <2>9
      <3>2. n # 0 /\ page.oldest = first + 1
        BY <1>1, <1>2, <2>1, <2>2, <3>1
      <3>3. ~(after < first)
        BY <1>1, <2>2, <2>18, <3>2
      <3>4. after = first + start
        BY <1>1, <2>2, <2>6, <2>8, <3>1, <3>3
      <3> QED
        BY <2>1, <2>3, <2>5, <2>10, <3>1, <3>4
    <2> QED
      BY <1>12, <2>11, <2>12, <2>13, <2>15, <2>16, <2>17 DEF Fits, cursor
  <1> QED
    BY <1>10, <1>11, <1>12, <1>15 DEF page

-------------------------------------------------------------------------------
(***************************************************************************)
(* The steps.                                                              *)
(***************************************************************************)

\* Runs and receptions only advance, and take nothing away from a cursor.
LEMMA SoundStays ==
    ASSUME Simulator, NEW id \in StationIds, NEW cursor, Sound(cursor, id),
           run' \in 1 .. MaxRun, run <= run', last' \in [StationIds -> Sequences],
           run' = run => last[id] <= last'[id]
    PROVE  Sound(cursor, id)'
  <1>1. cursor.run \in 0 .. MaxRun /\ cursor.after \in 0 .. MaxSequence /\ run \in 1 .. MaxRun
        /\ last[id] \in 0 .. MaxSequence /\ last'[id] \in 0 .. MaxSequence
    BY DEF Sound, Cursors, Simulator, Sequences
  <1>2. cursor.run <= run'
    BY <1>1, Bounds DEF Sound
  <1>3. cursor.run = run' => run' = run
    BY <1>1, Bounds DEF Sound
  <1>4. cursor.run = run' => cursor.after <= last'[id]
    BY <1>1, <1>3, Bounds DEF Sound
  <1> QED
    BY <1>2, <1>4 DEF Sound

\* The simulator moves on.
LEMMA SimulatorIInv ==
    ASSUME IInv, \/ \E id \in StationIds : Receive(id) \/ RemoveStation(id)
                 \/ Restart
    PROVE  IInv'
  <1>1. UNCHANGED <<known, inspector, calls>>
    BY DEF Receive, RemoveStation, Restart
  <1>2. run \in 1 .. MaxRun /\ last \in [StationIds -> 0 .. MaxSequence] /\ Simulator
    BY DEF IInv, Simulator, Sequences
  <1>3. /\ run' \in 1 .. MaxRun /\ run <= run' /\ last' \in [StationIds -> Sequences]
        /\ \A id \in StationIds : run' = run => last[id] <= last'[id]
    <2>1. CASE \E id \in StationIds : Receive(id) \/ RemoveStation(id)
      BY <1>2, <2>1, Bounds DEF Receive, RemoveStation, Sequences
    <2>2. CASE Restart
      BY <1>2, <2>2, Bounds DEF Restart, Sequences
    <2> QED
      BY <2>1, <2>2
  <1>4. ASSUME NEW id \in StationIds, NEW cursor, Sound(cursor, id)
        PROVE  Sound(cursor, id)'
    BY <1>2, <1>3, <1>4, SoundStays
  <1>5. Simulator'
    <2>1. known \in 0 .. run'
      BY <1>2, <1>3 DEF Simulator
    <2> QED
      BY <1>1, <1>2, <1>3, <2>1 DEF Simulator, inspector
  <1>6. IsLoaded => IsLoaded'
    BY <1>1, <1>4 DEF IsLoaded, inspector
  <1>7. RequestInv'
    <2>1. ASSUME NEW c \in Calls, calls[c] # NoCall
          PROVE  SoundRequest(calls[c])'
      <3>1. calls[c] \in Requests /\ SoundRequest(calls[c])
        BY <2>1 DEF IInv, RequestInv
      <3>2. calls[c].station \in StationIds
        BY <3>1 DEF Requests
      <3>3. Sound(calls[c].cursor, calls[c].station)'
        BY <1>1, <1>4, <3>1, <3>2 DEF SoundRequest
      <3>4. ASSUME calls[c].reply.kind = "page"
            PROVE  SoundPage(calls[c].reply.page, calls[c].station)'
        <4>1. SoundPage(calls[c].reply.page, calls[c].station)
          BY <3>1, <3>4 DEF SoundRequest
        <4>2. Sound(calls[c].reply.page.next, calls[c].station)'
          BY <1>1, <1>4, <3>2, <4>1 DEF SoundPage
        <4>3. calls[c].reply.page.run \in 1 .. run'
          BY <1>2, <1>3, <4>1 DEF SoundPage
        <4> QED
          BY <1>1, <4>1, <4>2, <4>3 DEF SoundPage
      <3> QED
        BY <1>1, <3>1, <3>3, <3>4 DEF SoundRequest, inspector
    <2> QED
      BY <1>1, <2>1 DEF IInv, RequestInv
  <1>8. OneRequest'
    BY <1>1, <1>6 DEF IInv, OneRequest, Current, inspector
  <1> QED
    BY <1>1, <1>5, <1>6, <1>7, <1>8 DEF IInv, inspector

\* An answer to a request, or the loss of one.
LEMMA AnswerIInv ==
    ASSUME IInv, NEW c \in Calls, Serve(c) \/ Fail(c)
    PROVE  IInv'
  <1>1. UNCHANGED <<simulator, known, inspector>> /\ calls[c] # NoCall
    BY DEF Serve, Fail
  <1>2. calls[c] \in Requests /\ SoundRequest(calls[c]) /\ calls[c].station \in StationIds
    BY <1>1 DEF IInv, RequestInv, Requests
  <1>3. PICK reply : /\ calls' = [calls EXCEPT ![c].reply = reply]
                     /\ \/ Serve(c) /\ reply = Reply(calls[c])
                        \/ reply = [kind |-> "failed"]
    BY DEF Serve, Fail
  <1>4. /\ reply \in Replies
        /\ reply.kind # "invalid"
        /\ reply.kind = "page" => SoundPage(reply.page, calls[c].station)
    <2>1. CASE reply = [kind |-> "failed"]
      BY <2>1 DEF Replies, Failures
    <2>2. CASE reply = Reply(calls[c]) /\ Refuses(calls[c]) # "none"
      <3>1. Refuses(calls[c]) \in {"conflict", "not_found", "invalid"}
        BY <2>2 DEF Refuses
      <3>2. Refuses(calls[c]) # "invalid"
        <4>1. CASE calls[c].cursor.run = NoRun
          <5>1. calls[c].cursor.after = 0 /\ last[calls[c].station] \in Sequences
            BY <1>2, <4>1 DEF SoundRequest, Sound, NoCursor, IInv, Simulator
          <5> QED
            BY <5>1, Bounds DEF Refuses, Sequences
        <4>2. CASE calls[c].cursor.run = run
          <5>1. calls[c].cursor.after <= last[calls[c].station]
            BY <1>2, <4>2 DEF SoundRequest, Sound
          <5>2. calls[c].cursor.after \in Nat /\ last[calls[c].station] \in Nat
            BY <1>2, Bounds DEF SoundRequest, Sound, Cursors, IInv, Simulator, Sequences
          <5> QED
            BY <5>1, <5>2 DEF Refuses
        <4>3. CASE calls[c].cursor.run \notin {NoRun, run}
          BY <4>3 DEF Refuses
        <4> QED
          BY <4>1, <4>2, <4>3
      <3>3. reply = [kind |-> Refuses(calls[c])]
        BY <2>2 DEF Reply
      <3> QED
        BY <3>1, <3>2, <3>3 DEF Replies, Failures
    <2>3. CASE reply = Reply(calls[c]) /\ Refuses(calls[c]) = "none"
      <3>1. calls[c].cursor.run \in {NoRun, run}
            /\ ~(calls[c].cursor.after > last[calls[c].station])
        BY <2>3 DEF Refuses
      <3>2. calls[c].cursor.after <= last[calls[c].station]
        <4>1. calls[c].cursor.after \in Nat /\ last[calls[c].station] \in Nat
          BY <1>2, Bounds DEF SoundRequest, Sound, Cursors, IInv, Simulator, Sequences
        <4> QED
          BY <3>1, <4>1
      <3>3. /\ AcceptsPage(calls[c], Cut(calls[c]))
            /\ SoundPage(Cut(calls[c]), calls[c].station)
            /\ Cut(calls[c]) \in Pages
        BY <1>2, <3>1, <3>2, CutFacts DEF IInv, SoundRequest
      <3>4. reply = [kind |-> "page", page |-> Cut(calls[c])]
        BY <2>3, <3>3 DEF Reply
      <3> QED
        BY <3>3, <3>4 DEF Replies
    <2> QED
      BY <1>3, <2>1, <2>2, <2>3
  <1> DEFINE request == [calls[c] EXCEPT !.reply = reply]
  <1>5. /\ request \in Requests /\ request # NoCall
        /\ request.gen = calls[c].gen /\ request.station = calls[c].station
        /\ request.cursor = calls[c].cursor /\ request.reply = reply
    BY <1>2, <1>4, NothingIsAsked DEF Requests
  <1> HIDE DEF request
  <1>6. calls \in [Calls -> Requests \cup {NoCall}]
    BY DEF IInv, RequestInv
  <1>7. calls' = [calls EXCEPT ![c] = request]
    BY <1>3 DEF request
  <1>8. Simulator' /\ (history' # NoHistory => IsLoaded') /\ (IsLoaded => IsLoaded')
    BY <1>1 DEF IInv, Simulator, IsLoaded, Sound, simulator, inspector
  <1>9. RequestInv'
    <2>1. SoundRequest(request)
      BY <1>2, <1>4, <1>5 DEF SoundRequest
    <2>2. ASSUME NEW d \in Calls, calls'[d] # NoCall
          PROVE  SoundRequest(calls[d])'
      <3>1. SoundRequest(calls'[d])
        BY <1>6, <1>7, <2>1, <2>2 DEF IInv, RequestInv
      <3> QED
        BY <1>1, <3>1 DEF SoundRequest, SoundPage, Sound, simulator, inspector
    <2> QED
      BY <1>5, <1>6, <1>7, <2>2 DEF RequestInv
  <1>10. OneRequest'
    <2>1. \A d \in Calls : /\ calls'[d] # NoCall <=> calls[d] # NoCall
                           /\ calls[d] # NoCall => /\ calls'[d].gen = calls[d].gen
                                                   /\ calls'[d].station = calls[d].station
      BY <1>1, <1>5, <1>6, <1>7
    <2>2. generation' = generation /\ history' = history /\ pending' = pending
      BY <1>1 DEF inspector
    <2>3. \A d \in Calls : Current(d)' <=> Current(d)
      BY <2>1, <2>2 DEF Current
    <2> QED
      BY <1>8, <2>1, <2>2, <2>3 DEF IInv, OneRequest, Current
  <1> QED
    BY <1>8, <1>9, <1>10 DEF IInv

\* What an answer makes of a history that is loaded.
LEMMA OutcomeFacts ==
    ASSUME IsLoaded, NEW reply, reply.kind = "page" => SoundPage(reply.page, history.station),
           NEW h, h = Outcome(reply)
    PROVE  /\ {"run", "station", "cursor"} \subseteq DOMAIN h
           /\ h.run = history.run /\ h.station = history.station
           /\ h.cursor = history.cursor \/ Sound(h.cursor, history.station)
  <1>1. CASE reply.kind = "page" /\ reply.page.run = history.run
    <2>1. h = mergePage(history, reply.page)
      BY <1>1 DEF Outcome
    <2> DEFINE rows    == BoundGaps(Trim(Appended(history, reply.page)))
               trimmed == history.trimmed + Excess(Appended(history, reply.page))
               first   == IF history.firstOldest = -1 THEN reply.page.oldest
                          ELSE history.firstOldest
    <2>2. h = [history EXCEPT !.rows = rows, !.trimmed = trimmed, !.cursor = reply.page.next,
                              !.more = reply.page.more, !.firstOldest = first]
      BY <2>1 DEF mergePage
    <2> HIDE DEF rows, trimmed, first
    <2>3. {"run", "station", "cursor"} \subseteq DOMAIN history
      BY DEF IsLoaded
    <2>4. DOMAIN h = DOMAIN history
      BY <2>2
    <2>5. h.run = history.run
      BY <2>2, <2>3
    <2>6. h.station = history.station
      BY <2>2, <2>3
    <2>7. h.cursor = reply.page.next
      BY <2>2, <2>3
    <2>8. Sound(reply.page.next, history.station)
      BY <1>1 DEF SoundPage
    <2> QED
      BY <2>3, <2>4, <2>5, <2>6, <2>7, <2>8
  <1>2. CASE ~(reply.kind = "page" /\ reply.page.run = history.run)
    <2>1. \/ h = history
          \/ h = [history EXCEPT !.resetRequired = TRUE]
          \/ h = [history EXCEPT !.removed = TRUE]
      BY <1>2 DEF Outcome
    <2> QED
      BY <2>1 DEF IsLoaded
  <1> QED
    BY <1>1, <1>2

\* An answer that is delivered, or ignored.
LEMMA DeliverIInv ==
    ASSUME IInv, NEW c \in Calls, Deliver(c)
    PROVE  IInv'
  <1>1. UNCHANGED <<simulator, known, generation>> /\ calls[c] # NoCall
        /\ calls' = [calls EXCEPT ![c] = NoCall]
    BY DEF Deliver
  <1>2. calls \in [Calls -> Requests \cup {NoCall}]
        /\ calls[c] \in Requests /\ SoundRequest(calls[c]) /\ calls[c].station \in StationIds
    BY <1>1 DEF IInv, RequestInv, Requests
  <1>3. RequestInv'
    <2>1. \A d \in Calls : calls'[d] = NoCall \/ calls'[d] = calls[d]
      BY <1>1, <1>2
    <2>2. ASSUME NEW d \in Calls, calls'[d] # NoCall
          PROVE  SoundRequest(calls[d])'
      <3>1. SoundRequest(calls[d]) /\ calls'[d] = calls[d]
        BY <2>1, <2>2 DEF IInv, RequestInv
      <3> QED
        BY <1>1, <3>1 DEF SoundRequest, SoundPage, Sound, simulator
    <2> QED
      BY <1>1, <1>2, <2>2 DEF RequestInv
  <1>4. Simulator'
    BY <1>1 DEF Deliver, IInv, Simulator, simulator
  <1>5. \A d \in Calls : Current(d)' <=> Current(d) /\ d # c
    BY <1>1, <1>2 DEF Current
  <1>6. CASE calls[c].gen = generation
    <2>1. Current(c)
      BY <1>1, <1>6 DEF Current
    <2>2. IsLoaded /\ calls[c].station = history.station
      BY <2>1 DEF IInv, OneRequest
    <2>3. pending' = FALSE /\ history' = Outcome(calls[c].reply)
      BY <1>6 DEF Deliver
    <2>4. IsLoaded'
      <3>1. /\ {"run", "station", "cursor"} \subseteq DOMAIN history'
            /\ history'.run = history.run /\ history'.station = history.station
            /\ history'.cursor = history.cursor \/ Sound(history'.cursor, history.station)
        BY <1>2, <2>2, <2>3, OutcomeFacts DEF SoundRequest
      <3> QED
        BY <1>1, <2>2, <3>1 DEF IsLoaded, Sound, simulator
    <2>5. \A d \in Calls : ~Current(d)'
      BY <1>1, <1>5, <1>6 DEF IInv, OneRequest, Current
    <2>6. OneRequest'
      <3>1. \A d, e \in Calls :
               calls'[d] # NoCall /\ calls'[e] # NoCall /\ calls'[d].gen = calls'[e].gen => d = e
        BY <1>1, <1>2 DEF IInv, OneRequest
      <3> QED
        BY <2>3, <2>5, <3>1 DEF OneRequest
    <2> QED
      BY <1>3, <1>4, <2>4, <2>6 DEF IInv
  <1>7. CASE calls[c].gen # generation
    <2>1. UNCHANGED <<pending, history>>
      BY <1>7 DEF Deliver
    <2>2. \A d \in Calls : Current(d)' <=> Current(d)
      BY <1>5, <1>7 DEF Current
    <2>3. IsLoaded => IsLoaded'
      BY <1>1, <2>1 DEF IsLoaded, Sound, simulator
    <2>4. OneRequest'
      <3>1. \A d, e \in Calls :
               calls'[d] # NoCall /\ calls'[e] # NoCall /\ calls'[d].gen = calls'[e].gen => d = e
        BY <1>1, <1>2 DEF IInv, OneRequest
      <3>2. ASSUME NEW d \in Calls, Current(d)'
            PROVE  IsLoaded' /\ calls'[d].station = history'.station
        <4>1. Current(d) /\ d # c /\ calls'[d] = calls[d]
          BY <1>1, <1>2, <1>5, <3>2
        <4> QED
          BY <2>1, <2>3, <4>1 DEF IInv, OneRequest
      <3> QED
        BY <2>1, <2>2, <3>1, <3>2 DEF IInv, OneRequest
    <2> QED
      BY <1>3, <1>4, <2>1, <2>3, <2>4 DEF IInv
  <1> QED
    BY <1>6, <1>7

\* The user, the page and the catalog.
LEMMA InspectorIInv ==
    ASSUME IInv,
           \/ \E id \in StationIds : Load(id)
           \/ NextPage \/ Discard
           \/ \E r \in 1 .. run : Adopt(r)
           \/ Unlisted
    PROVE  IInv'
  <1>1. UNCHANGED simulator
    BY DEF Load, NextPage, Discard, Adopt, Unlisted
  <1>2. /\ Simulator /\ RequestInv /\ OneRequest
        /\ calls \in [Calls -> Requests \cup {NoCall}]
        /\ generation \in 0 .. MaxGeneration /\ known \in 0 .. run /\ run \in 1 .. MaxRun
    BY DEF IInv, RequestInv, Simulator
  <1>3. ASSUME NEW c \in Calls, calls[c] # NoCall
        PROVE  calls[c].gen \in 1 .. MaxGeneration /\ calls[c].gen <= generation
    BY <1>2, <1>3 DEF RequestInv, SoundRequest, Requests
  <1>4. ASSUME generation' = generation + 1
        PROVE  \A c \in Calls : calls[c] # NoCall =>
                   calls[c].gen # generation' /\ calls[c].gen <= generation'
    BY <1>2, <1>3, <1>4, Bounds
  <1>5. ASSUME NEW id \in StationIds, NEW cursor, Sound(cursor, id), Send(id, cursor),
               known' = known, IsLoaded', history'.station = id
        PROVE  IInv'
    <2>1. PICK c \in Calls :
             /\ calls[c] = NoCall
             /\ calls' = [calls EXCEPT ![c] = [gen |-> generation', station |-> id,
                                               cursor |-> cursor, reply |-> Unanswered]]
      BY <1>5 DEF Send
    <2>2. generation' = generation + 1 /\ pending' = TRUE /\ generation < MaxGeneration
      BY <1>5 DEF Send
    <2>3. generation' \in 1 .. MaxGeneration
      BY <1>2, <2>2, Bounds
    <2> DEFINE request == [gen |-> generation', station |-> id, cursor |-> cursor,
                           reply |-> Unanswered]
    <2>4. Unanswered \in Replies /\ Unanswered.kind = "none"
      BY DEF Unanswered, Replies
    <2>5. request \in Requests /\ request # NoCall
      BY <1>5, <2>3, <2>4, NothingIsAsked DEF Requests, Sound
    <2>6. /\ request.gen = generation' /\ request.station = id /\ request.cursor = cursor
          /\ request.reply = Unanswered
      OBVIOUS
    <2> HIDE DEF request
    <2>7. calls' = [calls EXCEPT ![c] = request]
      BY <2>1 DEF request
    <2>8. /\ calls'[c] = request
          /\ \A d \in Calls : d # c => calls'[d] = calls[d]
          /\ calls' \in [Calls -> Requests \cup {NoCall}]
      BY <1>2, <2>5, <2>7
    <2>9. Simulator'
      BY <1>1, <1>2, <1>5, <2>2, <2>3 DEF Simulator, simulator
    <2>10. RequestInv'
      <3>1. ASSUME NEW d \in Calls, calls'[d] # NoCall
            PROVE  SoundRequest(calls[d])'
        <4>1. CASE d = c
          <5>1. Sound(request.cursor, request.station)
            BY <1>5, <2>6
          <5>2. generation' <= generation'
            BY <2>3
          <5> QED
            BY <1>1, <2>4, <2>6, <2>8, <4>1, <5>1, <5>2 DEF SoundRequest, Sound, simulator
        <4>2. CASE d # c
          <5>1. calls'[d] = calls[d] /\ SoundRequest(calls[d])
            BY <1>2, <2>8, <3>1, <4>2 DEF RequestInv
          <5>2. calls[d].gen <= generation'
            BY <1>4, <2>2, <3>1, <5>1
          <5> QED
            BY <1>1, <5>1, <5>2 DEF SoundRequest, SoundPage, Sound, simulator
        <4> QED
          BY <4>1, <4>2
      <3> QED
        BY <2>8, <3>1 DEF RequestInv
    <2>11. OneRequest'
      <3>1. \A d \in Calls : d # c /\ calls'[d] # NoCall => calls'[d].gen # generation'
        BY <1>4, <2>2, <2>8
      <3>2. \A d, e \in Calls :
               calls'[d] # NoCall /\ calls'[e] # NoCall /\ calls'[d].gen = calls'[e].gen => d = e
        BY <1>2, <2>6, <2>8, <3>1 DEF OneRequest
      <3>3. \A d \in Calls : Current(d)' <=> d = c
        BY <2>5, <2>6, <2>8, <3>1 DEF Current
      <3> QED
        BY <1>5, <2>2, <2>6, <2>8, <3>2, <3>3 DEF OneRequest
    <2> QED
      BY <1>5, <2>9, <2>10, <2>11 DEF IInv
  <1>6. ASSUME invalidateHistory, history' = NoHistory, UNCHANGED calls,
               generation < MaxGeneration, known' \in 0 .. run
        PROVE  IInv'
    <2>1. generation' = generation + 1 /\ pending' = FALSE
      BY <1>6 DEF invalidateHistory
    <2>2. generation' \in 0 .. MaxGeneration
      BY <1>2, <1>6, <2>1, Bounds
    <2>3. Simulator'
      BY <1>1, <1>2, <1>6, <2>1, <2>2 DEF Simulator, simulator
    <2>4. RequestInv'
      <3>1. ASSUME NEW d \in Calls, calls[d] # NoCall
            PROVE  SoundRequest(calls[d])'
        <4>1. SoundRequest(calls[d])
          BY <1>2, <3>1 DEF RequestInv
        <4>2. calls[d].gen <= generation'
          BY <1>4, <2>1, <3>1
        <4> QED
          BY <1>1, <1>6, <4>1, <4>2 DEF SoundRequest, SoundPage, Sound, simulator
      <3> QED
        BY <1>2, <1>6, <3>1 DEF RequestInv
    <2>5. \A d \in Calls : ~Current(d)'
      BY <1>4, <1>6, <2>1 DEF Current
    <2>6. OneRequest'
      BY <1>2, <1>6, <2>1, <2>5 DEF OneRequest
    <2> QED
      BY <1>6, <2>3, <2>4, <2>6 DEF IInv
  <1>7. ASSUME UNCHANGED <<generation, pending, calls>>, known' \in 0 .. run,
               IsLoaded => IsLoaded' /\ history'.station = history.station,
               history' # NoHistory => IsLoaded'
        PROVE  IInv'
    <2>1. Simulator'
      BY <1>1, <1>2, <1>7 DEF Simulator, simulator
    <2>2. RequestInv'
      BY <1>1, <1>2, <1>7 DEF RequestInv, SoundRequest, SoundPage, Sound, simulator
    <2>3. OneRequest'
      BY <1>2, <1>7 DEF OneRequest, Current
    <2> QED
      BY <1>7, <2>1, <2>2, <2>3 DEF IInv
  <1>8. ASSUME NEW id \in StationIds, Load(id)
        PROVE  IInv'
    <2>1. history' = emptyHistory(id) /\ Send(id, NoCursor) /\ known' = known /\ known # NoRun
      BY <1>8 DEF Load
    <2>2. Sound(NoCursor, id)
      <3>1. NoCursor \in Cursors /\ NoCursor.run = NoRun
        BY Bounds DEF NoCursor, Cursors, NoRun
      <3> QED
        BY <1>2, <3>1 DEF Sound, NoRun
    <2>3. /\ {"run", "station", "cursor"} \subseteq DOMAIN emptyHistory(id)
          /\ emptyHistory(id).station = id /\ emptyHistory(id).run = known
          /\ emptyHistory(id).cursor = NoCursor
      BY DEF emptyHistory
    <2>4. IsLoaded' /\ history'.station = id
      BY <1>1, <2>1, <2>2, <2>3 DEF IsLoaded, Sound, simulator
    <2> QED
      BY <1>5, <2>1, <2>2, <2>4
  <1>9. CASE NextPage
    <2>1. IsLoaded /\ Send(history.station, history.cursor) /\ UNCHANGED <<simulator, known, history>>
      BY <1>9 DEF NextPage, IInv
    <2>2. IsLoaded'
      BY <2>1 DEF IsLoaded, Sound, simulator
    <2>3. history.station \in StationIds /\ Sound(history.cursor, history.station)
      BY <2>1 DEF IsLoaded
    <2> QED
      BY <1>5, <2>1, <2>2, <2>3
  <1>10. CASE Discard
    BY <1>2, <1>6, <1>10 DEF Discard
  <1>11. ASSUME NEW r \in 1 .. run, Adopt(r)
         PROVE  IInv'
    <2>1. known' = r /\ known' \in 0 .. run /\ UNCHANGED calls
      BY <1>2, <1>11, Bounds DEF Adopt
    <2>2. CASE known = NoRun
      <3>1. UNCHANGED inspector
        BY <1>11, <2>2 DEF Adopt
      <3>2. ~IsLoaded /\ history = NoHistory
        BY <2>2 DEF IsLoaded, IInv
      <3> QED
        BY <1>7, <2>1, <3>1, <3>2 DEF inspector
    <2>3. CASE known # NoRun
      BY <1>6, <1>11, <2>1, <2>3 DEF Adopt
    <2> QED
      BY <2>2, <2>3
  <1>12. CASE Unlisted
    <2>1. IsLoaded /\ history' = [history EXCEPT !.removed = TRUE]
          /\ UNCHANGED <<known, generation, pending, calls>>
      BY <1>12 DEF Unlisted, IInv
    <2>2. {"run", "station", "cursor"} \subseteq DOMAIN history
      BY <2>1 DEF IsLoaded
    <2>3. DOMAIN history' = DOMAIN history /\ history'.run = history.run
          /\ history'.station = history.station /\ history'.cursor = history.cursor
      BY <2>1, <2>2
    <2>4. IsLoaded'
      BY <1>1, <2>1, <2>3 DEF IsLoaded, Sound, simulator
    <2> QED
      BY <1>2, <1>7, <2>1, <2>3, <2>4
  <1> QED
    BY <1>8, <1>9, <1>10, <1>11, <1>12

-------------------------------------------------------------------------------
(***************************************************************************)
(* The theorems.                                                           *)
(***************************************************************************)

\* The invariant that everything below rests on.
LEMMA Invariant == Spec => []IInv
  <1>1. Init => IInv
    <2> SUFFICES ASSUME Init PROVE IInv
      OBVIOUS
    <2>1. Simulator
      <3>1. run = 1 /\ known = 0 /\ generation = 0 /\ pending = FALSE
        BY DEF Init, NoRun
      <3>2. last \in [StationIds -> Sequences]
        <4>1. 0 \in Sequences
          BY Bounds DEF Sequences
        <4> QED
          BY <4>1 DEF Init
      <3>3. 1 \in 1 .. MaxRun /\ 0 \in 0 .. 1 /\ 0 \in 0 .. MaxGeneration
        BY Bounds
      <3> QED
        BY <3>1, <3>2, <3>3 DEF Simulator
    <2>2. RequestInv /\ OneRequest
      BY DEF Init, RequestInv, OneRequest, Current
    <2> QED
      BY <2>1, <2>2 DEF Init, IInv
  <1>2. IInv /\ [Next]_vars => IInv'
    <2> SUFFICES ASSUME IInv, [Next]_vars PROVE IInv'
      OBVIOUS
    <2>1. CASE Next
      BY <2>1, SimulatorIInv, AnswerIInv, DeliverIInv, InspectorIInv DEF Next
    <2>2. CASE UNCHANGED vars
      <3> USE <2>2 DEF vars, simulator, inspector
      <3>1. Simulator'
        BY DEF IInv, Simulator
      <3>2. IsLoaded' <=> IsLoaded
        BY DEF IsLoaded, Sound
      <3>3. RequestInv'
        BY DEF IInv, RequestInv, SoundRequest, SoundPage, Sound
      <3>4. OneRequest'
        BY <3>2 DEF IInv, OneRequest, Current
      <3> QED
        BY <3>1, <3>2, <3>3, <3>4 DEF IInv
    <2> QED
      BY <2>1, <2>2
  <1> QED
    BY <1>1, <1>2, PTL DEF Spec

\* No cursor that the inspector sends is beyond what the station received
\* (reception_query.go), and no page that the engine cuts is rejected by the
\* display's validator (validate.go).
THEOREM ProtocolAlwaysAgrees == Spec => []ProtocolAgrees
  <1>1. IInv => ProtocolAgrees
    BY DEF IInv, RequestInv, SoundRequest, ProtocolAgrees
  <1> QED
    BY <1>1, Invariant, PTL

\* "One history request is active at a time" (inspector.js): the buttons wait
\* exactly for the one request whose answer will be used.
THEOREM OneRequestIsCurrent == Spec => []OneCurrentRequest
  <1>1. ASSUME IInv
        PROVE  OneCurrentRequest
    <2> DEFINE current == {c \in Calls : calls[c] # NoCall /\ calls[c].gen = generation}
    <2>1. \A c, d \in current : c = d
      BY <1>1 DEF IInv, OneRequest
    <2>2. pending <=> \E c \in Calls : c \in current
      BY <1>1 DEF IInv, OneRequest, Current
    <2>3. CASE pending
      BY <2>1, <2>2, <2>3 DEF OneCurrentRequest
    <2>4. CASE ~pending
      BY <2>2, <2>4 DEF OneCurrentRequest
    <2> QED
      BY <2>3, <2>4
  <1> QED
    BY <1>1, Invariant, PTL

-------------------------------------------------------------------------------
(***************************************************************************)
(* What a history holds.                                                   *)
(***************************************************************************)

SoundHistory(h) ==
    /\ h \in Histories
    /\ SoundRows(h.rows, h.run, h.cursor.after, h.firstOldest + h.trimmed)
    /\ h.cursor = NoCursor => h.rows = <<>> /\ h.trimmed = 0
    /\ h.cursor = NoCursor <=> h.firstOldest = -1
    /\ h.rows = <<>> => ~h.more

\* A page fits the cursor it was asked with, and the request whose answer will
\* be used was sent with the cursor of the history.
Continues(request) ==
    /\ request.reply.kind = "page" => Fits(request.reply.page, request.cursor)
    /\ request.gen = generation =>
           /\ history # NoHistory
           /\ request.cursor = history.cursor
           /\ history.cursor # NoCursor => history.rows # <<>>

HInv ==
    /\ gone \subseteq (1 .. MaxRun) \X StationIds
    /\ history # NoHistory => SoundHistory(history)
    /\ \A c \in Calls : calls[c] # NoCall => Continues(calls[c])

\* No rows are sound rows, whatever they start with.
LEMMA NoRows ==
    ASSUME NEW r, NEW after, NEW first
    PROVE  SoundRows(<<>>, r, after, first)
  <1>1. <<>> \in Seq(Rows) /\ DOMAIN <<>> = {} /\ Len(<<>>) = 0
    BY EmptySeq
  <1>2. Ordered(<<>>)
    BY <1>1 DEF Ordered
  <1>3. Marked(<<>>)
    BY <1>1 DEF Marked
  <1>4. Ends(<<>>, after)
    BY DEF Ends
  <1>5. Unbroken(<<>>)
    BY <1>1 DEF Unbroken
  <1>6. Counts(<<>>, first)
    BY <1>1 DEF Counts
  <1> QED
    BY <1>1, <1>2, <1>3, <1>4, <1>5, <1>6 DEF SoundRows

LEMMA EmptySound ==
    ASSUME known \in 1 .. MaxRun, NEW id \in StationIds
    PROVE  SoundHistory(emptyHistory(id))
  <1> DEFINE h == emptyHistory(id)
  <1>1. /\ h.rows = <<>> /\ h.trimmed = 0 /\ h.cursor = NoCursor /\ h.more = FALSE
        /\ h.firstOldest = -1 /\ h.run = known
    BY DEF emptyHistory
  <1>2. h \in Histories
    <2>1. NoCursor \in Cursors
      BY Bounds DEF NoCursor, Cursors, NoRun
    <2>2. <<>> \in Seq(Rows) /\ 0 \in Nat
      BY EmptySeq
    <2> QED
      BY <2>1, <2>2 DEF emptyHistory, Histories
  <1> HIDE DEF h
  <1>3. SoundRows(h.rows, h.run, h.cursor.after, h.firstOldest + h.trimmed)
    BY <1>1, NoRows
  <1>4. SoundHistory(h)
    BY <1>1, <1>2, <1>3 DEF SoundHistory
  <1> QED
    BY <1>4 DEF h

\* mergePage, of a page that fits the history's cursor.
LEMMA MergeSound ==
    ASSUME NEW h, SoundHistory(h), NEW page, Fits(page, h.cursor), page.run = h.run,
           page.next.run = page.run,
           h.cursor # NoCursor => h.rows # <<>>
    PROVE  SoundHistory(mergePage(h, page))
  <1> DEFINE after == h.cursor.after
             first == IF h.firstOldest = -1 THEN page.oldest ELSE h.firstOldest
             start == first + h.trimmed
             rows  == Appended(h, page)
             x     == Excess(rows)
             kept  == Trim(rows)
             bound == BoundGaps(kept)
             merged == mergePage(h, page)
  <1>1. /\ h \in Histories /\ h.rows \in Seq(Rows) /\ h.cursor \in Cursors /\ after \in Nat
        /\ h.trimmed \in Nat /\ h.firstOldest \in Sequences \cup {-1} /\ h.run \in 1 .. MaxRun
    <2>1. h \in Histories
      BY DEF SoundHistory
    <2>2. h.cursor \in Cursors
      BY <2>1 DEF Histories
    <2>3. after \in Nat
      BY <2>2 DEF Cursors
    <2> QED
      BY <2>1, <2>2, <2>3 DEF Histories
  <1>2. /\ page \in Pages /\ page.next \in Cursors /\ page.oldest \in Sequences /\ page.more \in BOOLEAN
        /\ page.records \in Seq(Sequences)
    BY DEF Fits, Pages
  <1>3. \A s \in Sequences : s \in Nat
    BY DEF Sequences
  <1>4. first \in Sequences /\ first \in Nat /\ first # -1 /\ start \in Int
    BY <1>1, <1>2, <1>3
  <1>5. h.cursor = NoCursor <=> h.rows = <<>>
    BY DEF SoundHistory
  <1>6. h.cursor = NoCursor => start = page.oldest
    BY <1>2, <1>3 DEF SoundHistory
  <1>7. SoundRows(h.rows, h.run, after, start)
    <2>1. CASE h.cursor = NoCursor
      BY <1>5, <2>1, NoRows
    <2>2. CASE h.cursor # NoCursor
      <3>1. first = h.firstOldest
        BY <2>2 DEF SoundHistory
      <3> QED
        BY <3>1 DEF SoundHistory
    <2> QED
      BY <2>1, <2>2
  <1>8. merged = [h EXCEPT !.rows = bound, !.trimmed = h.trimmed + x, !.cursor = page.next,
                           !.more = page.more, !.firstOldest = first]
    BY DEF mergePage
  <1> HIDE DEF first, start
  <1>9. SoundRows(rows, h.run, page.next.after, start)
    BY <1>1, <1>4, <1>5, <1>6, <1>7, AppendedSound
  <1> HIDE DEF rows
  <1>10. /\ x \in Nat
         /\ SoundRows(kept, h.run, page.next.after, start + x)
         /\ kept = <<>> <=> rows = <<>>
         /\ Cardinality(RecordRows(kept)) <= MaxRecords
    BY <1>4, <1>9, TrimSound
  <1> HIDE DEF x, kept
  <1>11. /\ SoundRows(bound, h.run, page.next.after, start + x)
         /\ bound = <<>> <=> kept = <<>>
    <2>1. start + x \in Int
      BY <1>4, <1>10
    <2> QED
      BY <1>10, <2>1, BoundSound
  <1>12. bound = <<>> => ~page.more
    <2> HAVE bound = <<>>
    <2>1. rows = <<>>
      BY <1>10, <1>11
    <2>2. Added(h, page) = page.records
      BY <1>1, <1>7, AddedFacts
    <2>3. PICK g \in {0, 1} : Len(rows) = Len(h.rows) + g + Len(page.records)
      BY <1>1, <1>2, <2>2, AppendedRows DEF rows
    <2>4. Len(rows) = 0 /\ Len(h.rows) \in Nat /\ Len(page.records) \in Nat
      BY <1>1, <1>2, <2>1, LenProperties, EmptySeq
    <2>5. Len(page.records) = 0
      <3>1. \A i, j \in Nat, k \in {0, 1} : i + k + j = 0 => j = 0
        OBVIOUS
      <3> QED
        BY <2>3, <2>4, <3>1
    <2>6. page.records = <<>>
      BY <1>2, <2>5, EmptySeq
    <2> QED
      BY <2>6 DEF Fits
  <1> HIDE DEF bound
  <1>13. bound \in Seq(Rows)
    BY <1>11 DEF SoundRows
  <1>14. h.trimmed + x \in Nat
    BY <1>1, <1>10
  <1>15. merged \in Histories
    BY <1>1, <1>2, <1>4, <1>8, <1>13, <1>14 DEF Histories
  <1>16. /\ merged.rows = bound /\ merged.trimmed = h.trimmed + x /\ merged.cursor = page.next
         /\ merged.more = page.more /\ merged.firstOldest = first /\ merged.run = h.run
    BY <1>1, <1>8 DEF Histories
  <1> HIDE DEF merged
  <1>17. page.next # NoCursor
    <2>1. page.next.run # NoRun
      BY <1>1 DEF NoRun
    <2> QED
      BY <2>1 DEF NoCursor
  <1>18. first + (h.trimmed + x) = start + x
    BY <1>1, <1>4, <1>10 DEF start
  <1>19. SoundHistory(merged)
    BY <1>4, <1>11, <1>12, <1>15, <1>16, <1>17, <1>18 DEF SoundHistory
  <1> QED
    BY <1>19 DEF merged

\* What an answer makes of a history that is sound.
LEMMA OutcomeSound ==
    ASSUME SoundHistory(history), NEW reply,
           reply.kind = "page" => /\ Fits(reply.page, history.cursor)
                                  /\ reply.page.next.run = reply.page.run,
           history.cursor # NoCursor => history.rows # <<>>
    PROVE  SoundHistory(Outcome(reply))
  <1>1. CASE reply.kind = "page" /\ reply.page.run = history.run
    <2>1. Outcome(reply) = mergePage(history, reply.page)
      BY <1>1 DEF Outcome
    <2> QED
      BY <1>1, <2>1, MergeSound
  <1>2. CASE ~(reply.kind = "page" /\ reply.page.run = history.run)
    <2>1. \/ Outcome(reply) = history
          \/ Outcome(reply) = [history EXCEPT !.resetRequired = TRUE]
          \/ Outcome(reply) = [history EXCEPT !.removed = TRUE]
      BY <1>2 DEF Outcome
    <2>2. history \in Histories
      BY DEF SoundHistory
    <2> DEFINE h == Outcome(reply)
    <2>3. /\ h \in Histories /\ h.rows = history.rows /\ h.run = history.run
          /\ h.cursor = history.cursor /\ h.firstOldest = history.firstOldest
          /\ h.trimmed = history.trimmed /\ h.more = history.more
      BY <2>1, <2>2 DEF Histories
    <2> HIDE DEF h
    <2>4. SoundHistory(h)
      BY <2>3 DEF SoundHistory
    <2> QED
      BY <2>4 DEF h
  <1> QED
    BY <1>1, <1>2

\* The simulator moves on, and requests are answered or lost.
LEMMA AnswerHInv ==
    ASSUME IInv, HInv,
           \/ \E id \in StationIds : Receive(id) \/ RemoveStation(id)
           \/ Restart
           \/ \E c \in Calls : Serve(c) \/ Fail(c)
    PROVE  HInv'
  <1>1. UNCHANGED <<known, inspector>> /\ run \in 1 .. MaxRun /\ MaxRun \in Nat
    BY Bounds DEF Receive, RemoveStation, Restart, Serve, Fail, IInv, Simulator
  <1>2. UNCHANGED <<generation, pending, history>>
    BY <1>1 DEF inspector
  <1>3. gone' \subseteq (1 .. MaxRun) \X StationIds
    <2>1. CASE \E id \in StationIds : RemoveStation(id)
      BY <1>1, <2>1 DEF RemoveStation, HInv
    <2>2. CASE Restart
      <3>1. run + 1 \in 1 .. MaxRun
        BY <1>1, <2>2 DEF Restart
      <3> QED
        BY <2>2, <3>1 DEF Restart, HInv
    <2>3. CASE UNCHANGED gone
      BY <2>3 DEF HInv
    <2> QED
      BY <2>1, <2>2, <2>3 DEF Receive, Serve, Fail, simulator
  <1>4. ASSUME UNCHANGED calls
        PROVE  HInv'
    BY <1>2, <1>3, <1>4 DEF HInv, Continues
  <1>5. ASSUME NEW c \in Calls, Serve(c) \/ Fail(c)
        PROVE  HInv'
    <2>1. /\ calls[c] # NoCall
          /\ calls \in [Calls -> Requests \cup {NoCall}]
          /\ calls[c] \in Requests /\ SoundRequest(calls[c]) /\ calls[c].station \in StationIds
          /\ Continues(calls[c])
      BY <1>5 DEF Serve, Fail, IInv, RequestInv, Requests, HInv
    <2>2. PICK reply : /\ calls' = [calls EXCEPT ![c].reply = reply]
                       /\ \/ reply = Reply(calls[c])
                          \/ reply = [kind |-> "failed"]
      BY <1>5 DEF Serve, Fail
    <2>3. reply.kind = "page" => Fits(reply.page, calls[c].cursor)
      <3> HAVE reply.kind = "page"
      <3>1. reply = Reply(calls[c])
        BY <2>2
      <3>2. Refuses(calls[c]) = "none"
        BY <3>1 DEF Reply, Refuses
      <3>3. calls[c].cursor.run \in {NoRun, run}
            /\ ~(calls[c].cursor.after > last[calls[c].station])
        BY <3>2 DEF Refuses
      <3>4. calls[c].cursor.after <= last[calls[c].station]
        <4>1. calls[c].cursor.after \in Nat /\ last[calls[c].station] \in Nat
          BY <2>1, Bounds DEF SoundRequest, Sound, Cursors, IInv, Simulator, Sequences
        <4> QED
          BY <3>3, <4>1
      <3>5. AcceptsPage(calls[c], Cut(calls[c])) /\ Fits(Cut(calls[c]), calls[c].cursor)
        BY <2>1, <3>3, <3>4, CutFacts DEF IInv, SoundRequest
      <3>6. reply = [kind |-> "page", page |-> Cut(calls[c])]
        BY <3>1, <3>2, <3>5 DEF Reply
      <3>7. reply.page = Cut(calls[c])
        BY <3>6
      <3> QED
        BY <3>5, <3>7
    <2> DEFINE request == [calls[c] EXCEPT !.reply = reply]
    <2>4. /\ request.gen = calls[c].gen /\ request.cursor = calls[c].cursor
          /\ request.reply = reply
      BY <2>1 DEF Requests
    <2>5. calls' = [calls EXCEPT ![c] = request]
      BY <2>2
    <2> HIDE DEF request
    <2>6. Continues(request)
      BY <2>1, <2>3, <2>4 DEF Continues
    <2>7. \A d \in Calls : calls'[d] = IF d = c THEN request ELSE calls[d]
      BY <2>1, <2>5
    <2>8. \A d \in Calls : calls'[d] # NoCall => Continues(calls'[d])
      BY <2>6, <2>7 DEF HInv
    <2> QED
      BY <1>2, <1>3, <2>8 DEF HInv, Continues
  <1>6. \A c \in Calls : ~(Serve(c) \/ Fail(c)) \/ HInv'
    BY <1>5
  <1> QED
    BY <1>4, <1>6 DEF Receive, RemoveStation, Restart

\* An answer that is delivered, or ignored.
LEMMA DeliverHInv ==
    ASSUME IInv, HInv, NEW c \in Calls, Deliver(c)
    PROVE  HInv'
  <1>1. UNCHANGED <<simulator, known, generation>> /\ calls[c] # NoCall
        /\ calls' = [calls EXCEPT ![c] = NoCall] /\ UNCHANGED gone
    BY DEF Deliver, simulator
  <1>2. /\ calls \in [Calls -> Requests \cup {NoCall}]
        /\ calls[c] \in Requests /\ SoundRequest(calls[c]) /\ Continues(calls[c])
    BY <1>1 DEF IInv, RequestInv, HInv
  <1>3. \A d \in Calls : calls'[d] = IF d = c THEN NoCall ELSE calls[d]
    BY <1>1, <1>2
  <1>4. CASE calls[c].gen = generation
    <2>1. Current(c)
      BY <1>1, <1>4 DEF Current
    <2>2. IsLoaded
      BY <2>1 DEF IInv, OneRequest
    <2>3. history' = Outcome(calls[c].reply)
      BY <1>4 DEF Deliver
    <2>4. history = NoHistory \/ SoundHistory(history)
      BY DEF HInv
    <2>5. history # NoHistory => SoundHistory(history')
      <3> HAVE history # NoHistory
      <3>1. /\ calls[c].cursor = history.cursor
            /\ history.cursor # NoCursor => history.rows # <<>>
        BY <1>2, <1>4 DEF Continues
      <3>2. calls[c].reply.kind = "page" =>
                /\ Fits(calls[c].reply.page, history.cursor)
                /\ calls[c].reply.page.next.run = calls[c].reply.page.run
        BY <1>2, <3>1 DEF Continues, SoundRequest, SoundPage
      <3> QED
        BY <2>3, <2>4, <3>1, <3>2, OutcomeSound
    <2>6. \A d \in Calls : calls'[d] # NoCall => calls[d].gen # generation
      BY <1>1, <1>3, <1>4 DEF IInv, OneRequest
    <2>7. \A d \in Calls : calls'[d] # NoCall => Continues(calls[d])'
      BY <1>1, <1>3, <2>6 DEF HInv, Continues
    <2>8. history # NoHistory
      BY <1>2, <1>4 DEF Continues
    <2> QED
      BY <1>1, <2>5, <2>7, <2>8 DEF HInv
  <1>5. CASE calls[c].gen # generation
    <2>1. UNCHANGED history
      BY <1>5 DEF Deliver
    <2> QED
      BY <1>1, <1>3, <2>1 DEF HInv, Continues
  <1> QED
    BY <1>4, <1>5

\* The user, the page and the catalog.
LEMMA InspectorHInv ==
    ASSUME IInv, HInv,
           \/ \E id \in StationIds : Load(id)
           \/ NextPage \/ Discard
           \/ \E r \in 1 .. run : Adopt(r)
           \/ Unlisted
    PROVE  HInv'
  <1>1. UNCHANGED gone
    BY DEF Load, NextPage, Discard, Adopt, Unlisted, simulator
  <1>2. /\ calls \in [Calls -> Requests \cup {NoCall}] /\ generation \in Nat
        /\ run \in 1 .. MaxRun /\ known \in 0 .. run /\ MaxRun \in Nat
        /\ \A c \in Calls : calls[c] # NoCall =>
              calls[c].gen \in Nat /\ calls[c].gen <= generation /\ Continues(calls[c])
    <2>1. /\ calls \in [Calls -> Requests \cup {NoCall}] /\ generation \in 0 .. MaxGeneration
          /\ run \in 1 .. MaxRun /\ known \in 0 .. run
          /\ \A c \in Calls : calls[c] # NoCall => calls[c] \in Requests /\ SoundRequest(calls[c])
      BY DEF IInv, Simulator, RequestInv
    <2>2. \A request \in Requests : request.gen \in Nat
      BY Bounds DEF Requests
    <2> QED
      BY <2>1, <2>2, Bounds DEF SoundRequest, HInv
  <1>3. ASSUME generation' = generation + 1, NEW c \in Calls, calls[c] # NoCall
        PROVE  Continues(calls[c])'  \/ calls'[c] # calls[c]
    <2>1. calls[c].gen # generation'
      BY <1>2, <1>3
    <2> QED
      BY <1>2, <1>3, <2>1 DEF Continues
  <1>4. ASSUME NEW id, NEW cursor, Send(id, cursor), SoundHistory(history'),
               history'.cursor = cursor, cursor # NoCursor => history'.rows # <<>>
        PROVE  HInv'
    <2>1. PICK c \in Calls :
             /\ calls[c] = NoCall
             /\ calls' = [calls EXCEPT ![c] = [gen |-> generation', station |-> id,
                                               cursor |-> cursor, reply |-> Unanswered]]
      BY <1>4 DEF Send
    <2> DEFINE request == [gen |-> generation', station |-> id, cursor |-> cursor,
                           reply |-> Unanswered]
    <2>2. request.gen = generation' /\ request.cursor = cursor /\ request.reply.kind = "none"
      BY DEF Unanswered
    <2> HIDE DEF request
    <2>3. \A d \in Calls : calls'[d] = IF d = c THEN request ELSE calls[d]
      BY <1>2, <2>1 DEF request
    <2>4. generation' = generation + 1
      BY <1>4 DEF Send
    <2>5. ASSUME NEW d \in Calls, calls'[d] # NoCall
          PROVE  Continues(calls[d])'
      <3>1. CASE d = c
        <4>1. calls'[d] = request
          BY <2>3, <3>1
        <4>2. history' # NoHistory
          BY <1>4, NothingIsLoaded DEF SoundHistory
        <4> QED
          BY <1>4, <2>2, <4>1, <4>2 DEF Continues
      <3>2. CASE d # c
        BY <1>3, <2>3, <2>4, <2>5, <3>2
      <3> QED
        BY <3>1, <3>2
    <2> QED
      BY <1>1, <1>4, <2>5 DEF HInv
  <1>5. ASSUME invalidateHistory, history' = NoHistory, UNCHANGED calls
        PROVE  HInv'
    <2>1. generation' = generation + 1
      BY <1>5 DEF invalidateHistory
    <2> QED
      BY <1>1, <1>3, <1>5, <2>1 DEF HInv
  <1>6. ASSUME NEW id \in StationIds, Load(id)
        PROVE  HInv'
    <2>1. history' = emptyHistory(id) /\ Send(id, NoCursor) /\ known # NoRun
      BY <1>6 DEF Load
    <2>2. known \in 1 .. MaxRun
      BY <1>2, <2>1 DEF NoRun
    <2>3. SoundHistory(emptyHistory(id))
      BY <2>2, EmptySound
    <2>4. SoundHistory(history') /\ history'.cursor = NoCursor
      BY <2>1, <2>3 DEF emptyHistory
    <2> QED
      BY <1>4, <2>1, <2>4
  <1>7. CASE NextPage
    <2>1. /\ history # NoHistory /\ history.more /\ Send(history.station, history.cursor)
          /\ history' = history
      BY <1>7 DEF NextPage
    <2>2. SoundHistory(history)
      BY <2>1 DEF HInv
    <2>3. history.rows # <<>>
      BY <2>1, <2>2 DEF SoundHistory
    <2>4. SoundHistory(history')
      BY <2>1, <2>2
    <2> QED
      BY <1>4, <2>1, <2>3, <2>4
  <1>8. CASE Discard
    BY <1>5, <1>8 DEF Discard
  <1>9. ASSUME NEW r \in 1 .. run, Adopt(r)
        PROVE  HInv'
    <2>1. CASE known = NoRun
      <3>1. UNCHANGED <<inspector, calls>>
        BY <1>9, <2>1 DEF Adopt
      <3> QED
        BY <1>1, <3>1 DEF HInv, Continues, inspector
    <2>2. CASE known # NoRun
      BY <1>5, <1>9, <2>2 DEF Adopt
    <2> QED
      BY <2>1, <2>2
  <1>10. CASE Unlisted
    <2>1. /\ history # NoHistory /\ history' = [history EXCEPT !.removed = TRUE]
          /\ UNCHANGED <<generation, calls>>
      BY <1>10 DEF Unlisted
    <2>2. SoundHistory(history) /\ history \in Histories
      BY <2>1 DEF HInv, SoundHistory
    <2>3. /\ history' \in Histories /\ history'.rows = history.rows /\ history'.run = history.run
          /\ history'.cursor = history.cursor /\ history'.firstOldest = history.firstOldest
          /\ history'.trimmed = history.trimmed /\ history'.more = history.more
      BY <2>1, <2>2 DEF Histories
    <2>4. SoundHistory(history')
      BY <2>2, <2>3 DEF SoundHistory
    <2>5. \A c \in Calls : calls'[c] # NoCall => Continues(calls[c])'
      BY <2>1, <2>3, NothingIsLoaded DEF HInv, Continues
    <2> QED
      BY <1>1, <2>1, <2>4, <2>5 DEF HInv
  <1> QED
    BY <1>6, <1>7, <1>8, <1>9, <1>10

-------------------------------------------------------------------------------
(***************************************************************************)
(* The theorems about the rows.                                            *)
(***************************************************************************)

LEMMA HistoryInvariant == Spec => []HInv
  <1>1. Init => HInv
    BY DEF Init, HInv
  <1>2. IInv /\ HInv /\ [Next]_vars => HInv'
    <2> SUFFICES ASSUME IInv, HInv, [Next]_vars PROVE HInv'
      OBVIOUS
    <2>1. CASE Next
      BY <2>1, AnswerHInv, DeliverHInv, InspectorHInv DEF Next
    <2>2. CASE UNCHANGED vars
      BY <2>2 DEF vars, simulator, inspector, HInv, Continues
    <2> QED
      BY <2>1, <2>2
  <1> QED
    BY <1>1, <1>2, Invariant, PTL DEF Spec

\* The inspector's own state: well typed, "new-run records are never appended to
\* old history" (inspector.js), nor is a history kept whose run the page has
\* left, and "one history request is active at a time".
THEOREM InspectorIsSound == Spec => []InspectorInv
  <1>1. ASSUME IInv, HInv
        PROVE  TypeOK /\ OneRunPerHistory
    <2>1. history # NoHistory => /\ history \in Histories /\ history.run = known
                                 /\ \A i \in DOMAIN history.rows : history.rows[i].run = history.run
      BY <1>1 DEF IInv, IsLoaded, HInv, SoundHistory, SoundRows
    <2>2. known \in 0 .. MaxRun
      BY <1>1, Bounds DEF IInv, Simulator
    <2> QED
      BY <1>1, <2>1, <2>2
      DEF TypeOK, OneRunPerHistory, IInv, Simulator, RequestInv, HInv
  <1> QED
    BY <1>1, Invariant, HistoryInvariant, OneRequestIsCurrent, PTL DEF InspectorInv

\* Two records that are shown one below the other are consecutive receptions,
\* whatever was evicted, trimmed, retried or answered late in between: as long as
\* mergePage may keep a marker for every hole between the records it keeps.
THEOREM NothingIsSkippedSilently ==
    ASSUME MaxGapRows >= MaxRecords - 1
    PROVE  Spec => []NoSilentSkip
  <1>1. HInv => NoSilentSkip
    BY DEF HInv, SoundHistory, SoundRows, Unbroken, Enough, NoSilentSkip
  <1> QED
    BY <1>1, HistoryInvariant, PTL

\* The notes above the rows account for what is missing at their top, and the
\* cursor names the last row: receptions before firstOldest were never offered,
\* the next ones were trimmed (renderHistory of inspector.js).
THEOREM WhatIsMissingIsAccounted == Spec => []MissingIsAccounted
  <1>1. ASSUME HInv
        PROVE  MissingIsAccounted
    <2> SUFFICES ASSUME history # NoHistory, Records(history.rows) # <<>>
                 PROVE  /\ history.cursor.after = Last(Records(history.rows)).seq
                        /\ Gaps(history.rows) = <<>> =>
                              Records(history.rows)[1].seq = history.firstOldest + history.trimmed
      BY DEF MissingIsAccounted
    <2> DEFINE rows    == history.rows
               first   == history.firstOldest + history.trimmed
               after   == history.cursor.after
               I       == RecordRows(rows)
               records == Records(rows)
               n       == Len(records)
    <2>1. /\ rows \in Seq(Rows) /\ Ends(rows, after) /\ Counts(rows, first) /\ first \in Int
      <3>1. SoundHistory(history)
        BY <1>1 DEF HInv
      <3>2. first \in Int
        BY <3>1 DEF SoundHistory, Histories, Sequences
      <3> QED
        BY <3>1, <3>2 DEF SoundHistory, SoundRows
    <2> HIDE DEF first, after, rows
    <2>2. /\ DOMAIN rows = 1 .. Len(rows) /\ Len(rows) \in Nat
          /\ rows # <<>> => Len(rows) \in DOMAIN rows
          /\ \A i \in DOMAIN rows : rows[i].gap \in BOOLEAN
      BY <2>1, RowFacts
    <2>3. I \subseteq DOMAIN rows
      BY DEF RecordRows
    <2>4. /\ records \in Seq(Rows) /\ n = Cardinality(I) /\ n \in Nat
          /\ \E e : Lists(e, n, I) /\ \A k \in 1 .. n : records[k] = rows[e[k]]
      <3> HIDE DEF I
      <3>1. Records(rows) = Filtered(rows, I)
        BY DEF Records, I
      <3> QED
        BY <2>1, <2>3, <3>1, FilteredFacts
    <2>5. PICK e : Lists(e, n, I) /\ \A k \in 1 .. n : records[k] = rows[e[k]]
      BY <2>4
    <2>6. n # 0
      BY <2>4, EmptySeq DEF rows
    <2>7. 1 \in 1 .. n /\ e[1] \in I /\ n \in 1 .. n
      BY <2>4, <2>5, <2>6 DEF Lists
    <2>8. rows # <<>> /\ Len(rows) \in I
      <3>1. rows # <<>>
        BY <2>3, <2>7, EmptySeq
      <3> QED
        BY <2>1, <2>2, <3>1 DEF Ends, RecordRows
    <2> HIDE DEF I, records, n
    <2>9. e[n] = Len(rows)
      <3>1. \A i \in I : i <= Len(rows)
        BY <2>2, <2>3
      <3>2. Lists(e, n, I) /\ n \in Nat
        BY <2>4, <2>5
      <3> QED
        BY <2>8, <3>1, <3>2, LastKept
    <2>10. Last(records).seq = after
      <3>1. Last(records) = records[n]
        BY DEF Last, n
      <3>2. records[n] = rows[Len(rows)]
        BY <2>5, <2>7, <2>9
      <3>3. rows[Len(rows)].seq = after
        BY <2>1, <2>8 DEF Ends
      <3> QED
        BY <3>1, <3>2, <3>3
    <2>11. ASSUME Gaps(rows) = <<>>
           PROVE  records[1].seq = first
      <3>1. GapRows(rows) = {}
        <4>1. GapRows(rows) \subseteq DOMAIN rows
          BY DEF GapRows
        <4>2. Len(Gaps(rows)) = Cardinality(GapRows(rows))
          BY <2>1, <4>1, FilteredFacts DEF Gaps
        <4>3. IsFiniteSet(GapRows(rows))
          <5>1. 1 \in Int /\ Len(rows) \in Int
            BY <2>2
          <5>2. IsFiniteSet(1 .. Len(rows))
            BY <5>1, FS_Interval
          <5> QED
            BY <2>2, <4>1, <5>2, FS_Subset
        <4>4. Cardinality(GapRows(rows)) = 0
          BY <2>11, <4>2, EmptySeq
        <4> QED
          BY <4>3, <4>4, FS_EmptySet
      <3>2. I = 1 .. Len(rows)
        BY <2>2, <3>1 DEF I, RecordRows, GapRows
      <3>3. Rest(I, 0, Len(rows))
        BY <2>2, <3>2 DEF Rest
      <3>4. Lists(e, n, I) /\ n \in Nat
        BY <2>4, <2>5
      <3>5. e[1] = 0 + 1
        BY <2>7, <3>3, <3>4, RestKept
      <3>6. records[1] = rows[1] /\ 1 \in DOMAIN rows
        BY <2>3, <2>5, <2>7, <3>5
      <3>7. rows[1].seq = first + 1 - 1
        BY <2>1, <3>1, <3>6 DEF Counts
      <3> QED
        BY <2>1, <3>6, <3>7
    <2> QED
      BY <2>10, <2>11 DEF records, rows, after, first
  <1> QED
    BY <1>1, HistoryInvariant, PTL
===============================================================================
