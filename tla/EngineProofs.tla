----------------------------- MODULE EngineProofs -----------------------------
(***************************************************************************)
(* For every number of aircraft, stations and retained records, and for     *)
(* every stream of positive intervals: the transmission log stays numbered  *)
(* without a hole and in chronological order, and no deadline is overdue;   *)
(* what every station received is numbered, ordered and was possible under  *)
(* the settings it names; and no two stations or aircraft are confused.     *)
(* Every mutation is atomic.  Of the engines of EngineTwins: stations only  *)
(* listen, a loss never shifts a stream, and no split of a duration shows.  *)
(* What the reference engine shows, the display accepts, and what the       *)
(* display makes of one station's receptions never goes back.               *)
(***************************************************************************)
EXTENDS EngineReaders, EngineTwins, FiniteSetTheorems, SequenceTheorems, WellFoundedInduction,
        NaturalsInduction, TLAPS

-------------------------------------------------------------------------------
(***************************************************************************)
(* Typing of the pure operators.                                           *)
(***************************************************************************)

\* There are three families.
LEMMA ThreeFamilies == DOMAIN Families = 1 .. 3
BY DEF Families

\* history.append and receptionHistory.append: a bounded ring keeps its type.
LEMMA RetainType ==
    ASSUME NEW S, NEW ring \in Seq(S), NEW x \in S, NEW limit \in Nat \ {0}
    PROVE  Retain(ring, x, limit) \in Seq(S)
BY DEF Retain

\* history.append: one element more, or the oldest one evicted.
LEMMA RetainElements ==
    ASSUME NEW S, NEW ring \in Seq(S), NEW x \in S, NEW limit \in Nat \ {0},
           Len(ring) <= limit, NEW r, r = Retain(ring, x, limit)
    PROVE  /\ Len(r) = Least(Len(ring) + 1, limit)
           /\ Len(r) \in 1 .. limit
           /\ r[Len(r)] = x
           /\ \A i \in 1 .. Len(r) - 1 :
                 /\ i + (Len(ring) + 1 - Len(r)) \in DOMAIN ring
                 /\ r[i] = ring[i + (Len(ring) + 1 - Len(r))]
<1>1. CASE Len(ring) < limit
  <2>1. /\ Len(Append(ring, x)) = Len(ring) + 1
        /\ Append(ring, x)[Len(ring) + 1] = x
        /\ \A i \in 1 .. Len(ring) : Append(ring, x)[i] = ring[i]
    BY AppendProperties
  <2>2. r = Append(ring, x)
    BY <1>1 DEF Retain
  <2>3. QED
    BY <1>1, <2>1, <2>2 DEF Least
<1>2. CASE Len(ring) = limit
  <2>1. /\ Tail(ring) \in Seq(S)
        /\ Len(Tail(ring)) = limit - 1
        /\ \A i \in 1 .. limit - 1 : Tail(ring)[i] = ring[i + 1]
    BY <1>2, HeadTailProperties
  <2>2. /\ Len(Append(Tail(ring), x)) = limit
        /\ Append(Tail(ring), x)[limit] = x
        /\ \A i \in 1 .. limit - 1 : Append(Tail(ring), x)[i] = Tail(ring)[i]
    BY <2>1, AppendProperties
  <2>3. r = Append(Tail(ring), x)
    BY <1>2 DEF Retain
  <2>4. QED
    BY <1>2, <2>1, <2>2, <2>3 DEF Least
<1>3. QED
  BY <1>1, <1>2

\* deliver: a station stays a station.
LEMMA ReceiveType ==
    ASSUME NEW st \in Stations, NEW frame \in Frames
    PROVE  Receive(st, frame) \in Stations
<1> DEFINE drawn == [st EXCEPT !.draws = @ + 1]
<1>1. /\ drawn \in Stations
      /\ drawn.last = st.last
      /\ drawn.ring = st.ring
  BY DEF Stations
<1>2. Reception(st, frame) \in Heard
  BY DEF Reception, Heard, Stations
<1>3. Retain(st.ring, Reception(st, frame), ReceptionHistoryLimit) \in Seq(Heard)
  BY <1>2, RetainType, EngineLimits DEF Stations
<1>4. ASSUME NEW d \in Stations, NEW n \in Nat, NEW r \in Seq(Heard)
      PROVE  [d EXCEPT !.last = n, !.ring = r] \in Stations
  BY DEF Stations
<1>5. drawn.last + 1 \in Nat
  BY <1>1 DEF Stations
<1>6. [drawn EXCEPT !.last = @ + 1,
                    !.ring = Retain(@, Reception(st, frame), ReceptionHistoryLimit)] \in Stations
  BY <1>1, <1>3, <1>4, <1>5, Zenon
<1>7. QED
  BY <1>1, <1>6 DEF Receive

\* record: the log and every station are updated, nothing else.
LEMMA RecordEffect ==
    ASSUME NEW s \in States, NEW ord \in Nat, NEW kind \in Kinds,
           NEW odd \in BOOLEAN, NEW at \in Nat, NEW t, t = Record(s, ord, kind, odd, at)
    PROVE  /\ t \in States
           /\ Transmission(s, ord, kind, odd, at) \in Frames
           /\ t.lastSequence = s.lastSequence + 1
           /\ t.history = Retain(s.history, Transmission(s, ord, kind, odd, at), HistoryLimit)
           /\ t.fleet = s.fleet
           /\ t.elapsed = s.elapsed
           /\ t.nextAddress = s.nextAddress
           /\ t.reserved = s.reserved
           /\ t.nextStation = s.nextStation
<1> DEFINE frame == Transmission(s, ord, kind, odd, at)
<1>1. s.lastSequence \in Nat /\ s.history \in Seq(Frames) /\ s.active \in Seq(Stations)
  BY DEF States
<1>2. frame \in Frames
  BY <1>1 DEF Transmission, Frames
<1>3. Retain(s.history, frame, HistoryLimit) \in Seq(Frames)
  BY <1>1, <1>2, RetainType, EngineLimits
<1>4. [i \in DOMAIN s.active |-> Receive(s.active[i], frame)] \in Seq(Stations)
  <2>1. \A i \in 1 .. Len(s.active) : Receive(s.active[i], frame) \in Stations
    BY <1>1, <1>2, ReceiveType
  <2>2. DOMAIN s.active = 1 .. Len(s.active) /\ Len(s.active) \in Nat
    BY <1>1
  <2> DEFINE g == [i \in DOMAIN s.active |-> Receive(s.active[i], frame)]
  <2>3. g \in [1 .. Len(s.active) -> Stations]
    BY <2>1, <2>2
  <2>4. QED
    BY <2>2, <2>3, IsASeq
<1> DEFINE n == s.lastSequence + 1
           h == Retain(s.history, frame, HistoryLimit)
           a == [i \in DOMAIN s.active |-> Receive(s.active[i], frame)]
<1>5. n \in Nat /\ h \in Seq(Frames) /\ a \in Seq(Stations)
  BY <1>1, <1>3, <1>4
<1>6. t = [s EXCEPT !.lastSequence = n, !.history = h, !.active = a]
  BY DEF Record
<1> HIDE DEF n, h, a
<1>7. /\ t \in States
      /\ t.lastSequence = n
      /\ t.history = h
      /\ t.fleet = s.fleet
      /\ t.elapsed = s.elapsed
      /\ t.nextAddress = s.nextAddress
      /\ t.reserved = s.reserved
      /\ t.nextStation = s.nextStation
  BY <1>5, <1>6 DEF States
<1>8. QED
  BY <1>2, <1>7 DEF n, h

\* deliver: every active station is handed the frame, in place.
LEMMA RecordDelivers ==
    ASSUME NEW s \in States, NEW ord \in Nat, NEW kind \in Kinds,
           NEW odd \in BOOLEAN, NEW at \in Nat, NEW t, t = Record(s, ord, kind, odd, at)
    PROVE  /\ DOMAIN t.active = DOMAIN s.active
           /\ \A i \in DOMAIN s.active :
                 t.active[i] = Receive(s.active[i], Transmission(s, ord, kind, odd, at))
<1> DEFINE frame == Transmission(s, ord, kind, odd, at)
           n == s.lastSequence + 1
           h == Retain(s.history, frame, HistoryLimit)
           a == [i \in DOMAIN s.active |-> Receive(s.active[i], frame)]
<1>1. t = [s EXCEPT !.lastSequence = n, !.history = h, !.active = a]
  BY DEF Record
<1> HIDE DEF n, h, a
<1>2. t.active = a
  BY <1>1 DEF States
<1>3. QED
  BY <1>2 DEF a

\* record: everything else stays.
LEMMA RecordKeepsRest ==
    ASSUME NEW s \in States, NEW ord \in Nat, NEW kind \in Kinds, NEW odd \in BOOLEAN,
           NEW at \in Nat
    PROVE  /\ Record(s, ord, kind, odd, at) \in States
           /\ Record(s, ord, kind, odd, at).fleet = s.fleet
           /\ Record(s, ord, kind, odd, at).elapsed = s.elapsed
           /\ Record(s, ord, kind, odd, at).nextAddress = s.nextAddress
BY RecordEffect

\* record: a report no earlier than those retained keeps the log sound.
LEMMA RecordKeepsLog ==
    ASSUME NEW s \in States, NEW ord \in Nat, NEW kind \in Kinds, NEW odd \in BOOLEAN,
           NEW at \in Nat, NEW horizon \in Nat, at <= horizon, TransmissionsSound(s, horizon),
           \A i \in DOMAIN s.history : s.history[i].at <= at
    PROVE  /\ TransmissionsSound(Record(s, ord, kind, odd, at), horizon)
           /\ \A i \in DOMAIN Record(s, ord, kind, odd, at).history :
                 Record(s, ord, kind, odd, at).history[i].at <= at
<1> SUFFICES ASSUME NEW t, t = Record(s, ord, kind, odd, at)
             PROVE  /\ TransmissionsSound(t, horizon)
                    /\ \A i \in DOMAIN t.history : t.history[i].at <= at
  BY Zenon
<1> DEFINE frame == Transmission(s, ord, kind, odd, at)
           old == s.history
           new == t.history
           cut == Len(old) + 1 - Len(new)
<1> HIDE DEF old, new
<1>0. old = s.history /\ new = t.history
  BY DEF old, new
<1>1. /\ t \in States
      /\ frame \in Frames
      /\ t.lastSequence = s.lastSequence + 1
      /\ new = Retain(old, frame, HistoryLimit)
  <2>1. /\ t \in States
        /\ frame \in Frames
        /\ t.lastSequence = s.lastSequence + 1
        /\ t.history = Retain(s.history, frame, HistoryLimit)
    BY RecordEffect
  <2> HIDE DEF frame
  <2>2. QED
    BY <1>0, <2>1
<1>2. frame.seq = s.lastSequence + 1 /\ frame.at = at
  BY DEF Transmission
<1> HIDE DEF frame
<1>3. s.lastSequence \in Nat /\ old \in Seq(Frames) /\ new \in Seq(Frames)
  BY <1>0, <1>1 DEF States
<1>4. HistoryLimit \in Nat \ {0}
  BY EngineLimits
<1>5. Len(old) = Least(s.lastSequence, HistoryLimit)
  BY <1>0 DEF TransmissionsSound
<1>6. Len(old) \in Nat /\ Len(old) <= HistoryLimit
  BY <1>3, <1>4, <1>5 DEF Least
<1>7. /\ Len(new) = Least(Len(old) + 1, HistoryLimit)
      /\ Len(new) \in 1 .. HistoryLimit
      /\ new[Len(new)] = frame
      /\ \A i \in 1 .. Len(new) - 1 : i + cut \in DOMAIN old /\ new[i] = old[i + cut]
  <2>1. Len(new) = Least(Len(old) + 1, HistoryLimit)
    BY <1>1, <1>3, <1>4, <1>6, RetainElements
  <2>2. Len(new) \in 1 .. HistoryLimit /\ new[Len(new)] = frame
    BY <1>1, <1>3, <1>4, <1>6, RetainElements
  <2>3. \A i \in 1 .. Len(new) - 1 : i + cut \in DOMAIN old
    BY <1>1, <1>3, <1>4, <1>6, RetainElements
  <2>4. \A i \in 1 .. Len(new) - 1 : new[i] = old[i + cut]
    BY <1>1, <1>3, <1>4, <1>6, RetainElements
  <2>5. QED
    BY <2>1, <2>2, <2>3, <2>4
<1>8. DOMAIN new = 1 .. Len(new) /\ DOMAIN old = 1 .. Len(old)
  BY <1>3
<1>9. \A i \in DOMAIN old : old[i].seq \in Nat /\ old[i].at \in Nat
  <2>1. \A f \in Frames : f.seq \in Nat /\ f.at \in Nat
    BY DEF Frames
  <2>2. QED
    BY <1>3, <1>8, <2>1, ElementOfSeq
<1>10. Len(new) = Least(t.lastSequence, HistoryLimit)
  BY <1>1, <1>3, <1>4, <1>5, <1>7 DEF Least
<1>11. \A i \in DOMAIN new : new[i].seq = t.lastSequence - Len(new) + i
  <2>1. \A i \in DOMAIN old : old[i].seq = s.lastSequence - Len(old) + i
    BY <1>0 DEF TransmissionsSound
  <2>2. ASSUME NEW i \in 1 .. Len(new) - 1
        PROVE  new[i].seq = t.lastSequence - Len(new) + i
    <3>1. new[i].seq = s.lastSequence - Len(old) + (i + cut)
      BY <1>7, <2>1
    <3>2. QED
      BY <1>1, <1>3, <1>6, <1>7, <3>1
  <2>3. new[Len(new)].seq = t.lastSequence - Len(new) + Len(new)
    BY <1>1, <1>2, <1>3, <1>7
  <2>4. QED
    BY <1>7, <1>8, <2>2, <2>3
<1>12. \A i \in DOMAIN new : new[i].at <= at
  <2>1. \A i \in DOMAIN old : old[i].at <= at
    BY <1>0
  <2>2. ASSUME NEW i \in 1 .. Len(new)
        PROVE  new[i].at <= at
    <3>1. CASE i = Len(new)
      BY <1>2, <1>7, <3>1
    <3>2. CASE i # Len(new)
      BY <1>7, <2>1, <3>2
    <3>3. QED
      BY <3>1, <3>2
  <2>3. QED
    BY <1>8, <2>2
<1>13. \A i \in DOMAIN new : new[i].at \in Nat
  <2>1. \A f \in Frames : f.at \in Nat
    BY DEF Frames
  <2>2. QED
    BY <1>3, <1>8, <2>1, ElementOfSeq
<1>14. \A i \in DOMAIN new : new[i].at <= horizon
  BY <1>12, <1>13
<1>15. \A i, j \in DOMAIN new : i < j => new[i].at <= new[j].at
  <2>1. \A i, j \in DOMAIN old : i < j => old[i].at <= old[j].at
    BY <1>0 DEF TransmissionsSound
  <2>2. ASSUME NEW i \in DOMAIN new, NEW j \in DOMAIN new, i < j
        PROVE  new[i].at <= new[j].at
    <3>1. CASE j = Len(new)
      BY <1>2, <1>7, <1>12, <3>1
    <3>2. CASE j # Len(new)
      <4>1. i \in 1 .. Len(new) - 1 /\ j \in 1 .. Len(new) - 1
        BY <1>7, <1>8, <2>2, <3>2
      <4>2. /\ i + cut \in DOMAIN old /\ new[i] = old[i + cut]
            /\ j + cut \in DOMAIN old /\ new[j] = old[j + cut]
        BY <1>7, <4>1
      <4>3. i + cut < j + cut
        BY <1>6, <1>7, <4>1, <2>2
      <4>4. QED
        BY <2>1, <4>2, <4>3
    <3>3. QED
      BY <3>1, <3>2
  <2>3. QED
    BY <2>2
<1>16. QED
  BY <1>0, <1>10, <1>11, <1>12, <1>14, <1>15 DEF TransmissionsSound

-------------------------------------------------------------------------------
(***************************************************************************)
(* Aircraft.                                                               *)
(***************************************************************************)

\* drawInterval: intervals are positive.
LEMMA IntervalPositive ==
    ASSUME NEW n \in 1 .. MaxAddress, NEW k \in DOMAIN Families, NEW i \in 0 .. MaxDuration
    PROVE  Interval(n, k, i) \in Nat /\ Interval(n, k, i) > 0
BY IntervalsArePositive

\* newAircraft and scheduleFirst: one value of each stream is drawn, and each
\* first deadline is one interval after creation.
LEMMA NewAircraftEffect ==
    ASSUME NEW ord \in 1 .. MaxAddress, NEW at \in Nat, NEW craft, craft = NewAircraft(ord, at)
    PROVE  /\ craft \in Aircraft
           /\ craft.ord = ord
           /\ \A k \in DOMAIN Families :
                 craft.draws[k] = 1 /\ craft.due[k] = at + Interval(ord, k, 0)
<1>1. \A k \in DOMAIN Families : at + Interval(ord, k, 0) \in Nat
  BY IntervalPositive, EngineLimits
<1>2. [k \in DOMAIN Families |-> at + Interval(ord, k, 0)] \in [DOMAIN Families -> Nat]
  BY <1>1
<1>3. [k \in DOMAIN Families |-> 1] \in [DOMAIN Families -> Nat]
  OBVIOUS
<1>4. craft \in Aircraft
  BY <1>2, <1>3 DEF NewAircraft, Aircraft
<1>5. QED
  BY <1>4 DEF NewAircraft

\* rescheduleAfter: the family moves on by one interval, the others stay.
LEMMA RescheduleEffect ==
    ASSUME NEW craft \in Aircraft, NEW k \in DOMAIN Families,
           craft.draws[k] \in 0 .. MaxDuration,
           NEW next, next = Reschedule(craft, k)
    PROVE  /\ next \in Aircraft
           /\ next.ord = craft.ord
           /\ next.due[k] = craft.due[k] + Interval(craft.ord, k, craft.draws[k])
           /\ next.draws[k] = craft.draws[k] + 1
           /\ \A j \in DOMAIN Families \ {k} :
                 next.due[j] = craft.due[j] /\ next.draws[j] = craft.draws[j]
<1> DEFINE gap == Interval(craft.ord, k, craft.draws[k])
<1>1. /\ craft.ord \in 1 .. MaxAddress
      /\ craft.due \in [DOMAIN Families -> Nat]
      /\ craft.draws \in [DOMAIN Families -> Nat]
      /\ craft.odd \in BOOLEAN
  BY DEF Aircraft
<1>2. gap \in Nat
  BY <1>1, IntervalPositive
<1>3. [craft.due EXCEPT ![k] = craft.due[k] + gap] \in [DOMAIN Families -> Nat]
  BY <1>1, <1>2
<1>4. [craft.draws EXCEPT ![k] = craft.draws[k] + 1] \in [DOMAIN Families -> Nat]
  BY <1>1
<1>6. next \in Aircraft
  <2> DEFINE flip  == IF Families[k] = "position" THEN ~craft.odd ELSE craft.odd
             due   == [craft.due EXCEPT ![k] = craft.due[k] + gap]
             draws == [craft.draws EXCEPT ![k] = craft.draws[k] + 1]
  <2>1. flip \in BOOLEAN
    BY <1>1
  <2>2. due \in [DOMAIN Families -> Nat] /\ draws \in [DOMAIN Families -> Nat]
    BY <1>3, <1>4
  <2>3. next = [craft EXCEPT !.due = due, !.draws = draws, !.odd = flip]
    BY Zenon DEF Reschedule
  <2> HIDE DEF flip, due, draws
  <2>4. QED
    BY <2>1, <2>2, <2>3 DEF Aircraft
<1>7. next.due = [craft.due EXCEPT ![k] = craft.due[k] + gap]
  BY DEF Reschedule, Aircraft
<1>8. next.draws = [craft.draws EXCEPT ![k] = craft.draws[k] + 1]
  BY DEF Reschedule, Aircraft
<1>9. next.ord = craft.ord
  BY DEF Reschedule, Aircraft
<1>10. QED
  BY <1>1, <1>6, <1>7, <1>8, <1>9

-------------------------------------------------------------------------------
(***************************************************************************)
(* One emission.                                                           *)
(***************************************************************************)

\* nextEvent: what is due is a family of an aircraft of the fleet.
LEMMA DueFacts ==
    ASSUME NEW s \in States, NEW limit \in Nat, NEW e \in Due(s, limit)
    PROVE  /\ e[1] \in DOMAIN s.fleet
           /\ e[2] \in DOMAIN Families
           /\ s.fleet[e[1]] \in Aircraft
           /\ s.fleet[e[1]].due[e[2]] \in Nat
           /\ s.fleet[e[1]].due[e[2]] <= limit
<1>1. e[1] \in DOMAIN s.fleet /\ e[2] \in DOMAIN Families
  BY DEF Due
<1>2. s.fleet[e[1]].due[e[2]] <= limit
  BY DEF Due
<1>3. s.fleet \in Seq(Aircraft)
  BY DEF States
<1>4. s.fleet[e[1]] \in Aircraft
  BY <1>1, <1>3
<1>5. s.fleet[e[1]].due[e[2]] \in Nat
  BY <1>1, <1>4 DEF Aircraft
<1>6. QED
  BY <1>1, <1>2, <1>4, <1>5

\* One iteration of runTo: one report is recorded, one family moves on.
LEMMA EmitEffect ==
    ASSUME NEW s \in States, NEW limit \in Nat, NEW e \in Due(s, limit),
           s.fleet[e[1]].draws[e[2]] \in 0 .. MaxDuration,
           NEW t, t = Emit(s, e)
    PROVE  \E kind \in Kinds : \E odd \in BOOLEAN :
             LET sent == Record(s, s.fleet[e[1]].ord, kind, odd, s.fleet[e[1]].due[e[2]]) IN
             /\ t \in States
             /\ t.elapsed = s.elapsed
             /\ t.nextAddress = s.nextAddress
             /\ t.lastSequence = sent.lastSequence
             /\ t.history = sent.history
             /\ t.active = sent.active
             /\ t.reserved = sent.reserved
             /\ t.nextStation = sent.nextStation
             /\ t.fleet = [s.fleet EXCEPT ![e[1]] = Reschedule(s.fleet[e[1]], e[2])]
<1> DEFINE craft == s.fleet[e[1]]
           kind  == Families[e[2]]
           odd   == kind = "position" /\ craft.odd
           sent  == Record(s, craft.ord, kind, odd, craft.due[e[2]])
           fleet == [s.fleet EXCEPT ![e[1]] = Reschedule(craft, e[2])]
<1>1. /\ e[1] \in DOMAIN s.fleet
      /\ e[2] \in DOMAIN Families
      /\ craft \in Aircraft
      /\ craft.due[e[2]] \in Nat
  BY DueFacts
<1>2. kind \in Kinds
  BY <1>1 DEF Kinds
<1>3. craft.ord \in Nat /\ craft.odd \in BOOLEAN
  BY <1>1, EngineLimits DEF Aircraft
<1>4. odd \in BOOLEAN
  OBVIOUS
<1>5. /\ sent \in States
      /\ sent.fleet = s.fleet
      /\ sent.elapsed = s.elapsed
      /\ sent.nextAddress = s.nextAddress
  <2>1. \A o \in Nat, k \in Kinds, b \in BOOLEAN, a \in Nat :
           /\ Record(s, o, k, b, a) \in States
           /\ Record(s, o, k, b, a).fleet = s.fleet
           /\ Record(s, o, k, b, a).elapsed = s.elapsed
           /\ Record(s, o, k, b, a).nextAddress = s.nextAddress
    BY RecordKeepsRest
  <2> HIDE DEF craft, kind, odd
  <2>2. QED
    BY <1>1, <1>2, <1>3, <1>4, <2>1
<1>6. Reschedule(craft, e[2]) \in Aircraft
  BY <1>1, RescheduleEffect
<1>7. s.fleet \in Seq(Aircraft)
  BY DEF States
<1>8. fleet \in Seq(Aircraft)
  BY <1>1, <1>6, <1>7
<1>9. t = [sent EXCEPT !.fleet = [sent.fleet EXCEPT ![e[1]] = Reschedule(craft, e[2])]]
  BY Zenon DEF Emit
<1>10. t = [sent EXCEPT !.fleet = fleet]
  BY <1>5, <1>9, Zenon
<1>11. /\ t \in States
       /\ t.elapsed = sent.elapsed
       /\ t.nextAddress = sent.nextAddress
       /\ t.lastSequence = sent.lastSequence
       /\ t.history = sent.history
       /\ t.active = sent.active
       /\ t.reserved = sent.reserved
       /\ t.nextStation = sent.nextStation
       /\ t.fleet = fleet
  <2> HIDE DEF sent, fleet
  <2>1. QED
    BY <1>5, <1>8, <1>10 DEF States
<1>12. QED
  BY <1>2, <1>4, <1>5, <1>11, Zenon

\* nextEvent and rescheduleAfter: the earliest due emission is recorded after
\* everything recorded so far and before everything scheduled, and its family's
\* next deadline starts from its own.
LEMMA EmitKeeps ==
    ASSUME NEW s \in States, NEW limit \in Nat, NEW e \in Due(s, limit), NEW t, t = Emit(s, e),
           IsNext(s, limit, e), CanReschedule(Reschedule(s.fleet[e[1]], e[2])),
           TransmissionsSound(s, limit), Scheduled(s, limit), Monotone(s)
    PROVE  /\ t \in States
           /\ t.elapsed = s.elapsed
           /\ t.nextAddress = s.nextAddress
           /\ TransmissionsSound(t, limit)
           /\ Scheduled(t, limit)
           /\ Monotone(t)
<1> DEFINE n     == e[1]
           k     == e[2]
           craft == s.fleet[n]
           at    == craft.due[k]
           next  == Reschedule(craft, k)
<1>1. /\ n \in DOMAIN s.fleet
      /\ k \in DOMAIN Families
      /\ craft \in Aircraft
      /\ at \in Nat
      /\ at <= limit
  BY DueFacts
<1>2. craft.draws[k] \in 1 .. at /\ at <= MaxDuration /\ at > s.elapsed
  BY <1>1 DEF Scheduled
<1>3. craft.draws[k] \in 0 .. MaxDuration
  BY <1>1, <1>2, EngineLimits
<1>4. PICK kind \in Kinds, odd \in BOOLEAN :
         LET sent == Record(s, craft.ord, kind, odd, at) IN
         /\ t \in States
         /\ t.elapsed = s.elapsed
         /\ t.nextAddress = s.nextAddress
         /\ t.lastSequence = sent.lastSequence
         /\ t.history = sent.history
         /\ t.fleet = [s.fleet EXCEPT ![n] = next]
  BY <1>3, EmitEffect
<1>5. /\ next \in Aircraft
      /\ next.ord = craft.ord
      /\ next.due[k] = at + Interval(craft.ord, k, craft.draws[k])
      /\ next.draws[k] = craft.draws[k] + 1
      /\ \A j \in DOMAIN Families \ {k} :
            next.due[j] = craft.due[j] /\ next.draws[j] = craft.draws[j]
  BY <1>1, <1>3, RescheduleEffect
<1>6. craft.ord \in 1 .. MaxAddress
  BY <1>1 DEF Aircraft
<1>7. Interval(craft.ord, k, craft.draws[k]) \in Nat /\ Interval(craft.ord, k, craft.draws[k]) > 0
  BY <1>1, <1>3, <1>6, IntervalPositive
<1>8. \A i \in DOMAIN s.history : s.history[i].at <= at
  BY <1>1 DEF Monotone
<1> DEFINE sent == Record(s, craft.ord, kind, odd, at)
<1>9. TransmissionsSound(sent, limit) /\ \A i \in DOMAIN sent.history : sent.history[i].at <= at
  <2>1. craft.ord \in Nat
    BY <1>6, EngineLimits
  <2> HIDE DEF craft
  <2>2. TransmissionsSound(sent, limit)
    BY <1>1, <1>8, <2>1, RecordKeepsLog
  <2>3. \A i \in DOMAIN sent.history : sent.history[i].at <= at
    BY <1>1, <1>8, <2>1, RecordKeepsLog
  <2>4. QED
    BY <2>2, <2>3
<1>10. TransmissionsSound(t, limit)
  BY <1>4, <1>9, Zenon DEF TransmissionsSound
<1>11. \A i \in DOMAIN t.history : t.history[i] \in Frames
  BY <1>4 DEF States
<1>12. \A i \in DOMAIN t.history : t.history[i].at \in Nat /\ t.history[i].at <= at
  BY <1>4, <1>9, <1>11, Zenon DEF Frames
<1>13. /\ DOMAIN t.fleet = DOMAIN s.fleet
       /\ t.fleet[n] = next
       /\ \A i \in DOMAIN s.fleet \ {n} : t.fleet[i] = s.fleet[i]
  <2>1. s.fleet \in Seq(Aircraft)
    BY DEF States
  <2>2. QED
    BY <1>1, <1>4, <2>1
\* Nothing scheduled is earlier than the report made.
<1>14. ASSUME NEW i \in DOMAIN s.fleet, NEW j \in DOMAIN Families
       PROVE  s.fleet[i].due[j] \in Nat /\ at <= s.fleet[i].due[j]
  <2>1. s.fleet[i].due[j] \in Nat
    <3>1. s.fleet \in Seq(Aircraft)
      BY DEF States
    <3>2. s.fleet[i] \in Aircraft
      BY <3>1
    <3>3. QED
      BY <3>2 DEF Aircraft
  <2>2. CASE <<i, j>> \in Due(s, limit)
    <3>1. CASE <<i, j>> = e
      BY <1>1, <2>1, <3>1
    <3>2. CASE <<i, j>> # e
      BY <1>1, <2>1, <2>2, <3>2 DEF IsNext, Precedes
    <3>3. QED
      BY <3>1, <3>2
  <2>3. CASE <<i, j>> \notin Due(s, limit)
    <3>1. ~(s.fleet[i].due[j] <= limit)
      BY <2>3 DEF Due
    <3>2. QED
      BY <1>1, <2>1, <3>1
  <2>4. QED
    BY <2>2, <2>3
<1>15. Monotone(t)
  <2>1. ASSUME NEW i \in DOMAIN t.fleet, NEW j \in DOMAIN Families
        PROVE  t.fleet[i].due[j] \in Nat /\ at <= t.fleet[i].due[j]
    <3>1. CASE i = n /\ j = k
      BY <1>1, <1>5, <1>7, <1>13, <3>1
    <3>2. CASE i = n /\ j # k
      BY <1>5, <1>13, <1>14, <2>1, <3>2
    <3>3. CASE i # n
      BY <1>13, <1>14, <2>1, <3>3
    <3>4. QED
      BY <3>1, <3>2, <3>3
  <2>2. ASSUME NEW h \in DOMAIN t.history, NEW i \in DOMAIN t.fleet, NEW j \in DOMAIN Families
        PROVE  t.history[h].at <= t.fleet[i].due[j]
    BY <1>1, <1>12, <2>1
  <2>3. QED
    BY <2>2 DEF Monotone
<1>16. Scheduled(t, limit)
  <2>1. ASSUME NEW i \in DOMAIN t.fleet, NEW j \in DOMAIN Families
        PROVE  /\ t.fleet[i].due[j] <= MaxDuration
               /\ t.fleet[i].due[j] > t.elapsed
               /\ t.fleet[i].draws[j] \in 1 .. t.fleet[i].due[j]
               /\ t.fleet[i].due[j]
                      - Interval(t.fleet[i].ord, j, t.fleet[i].draws[j] - 1) <= limit
    <3>1. CASE i = n /\ j = k
      <4>1. t.fleet[i].due[j] <= MaxDuration
        BY <1>1, <1>13, <3>1 DEF CanReschedule
      <4>2. t.elapsed \in Nat /\ s.elapsed \in Nat /\ t.elapsed = s.elapsed
        BY <1>4 DEF States
      <4>3. t.fleet[i].due[j] > t.elapsed
        BY <1>1, <1>2, <1>5, <1>7, <1>13, <3>1, <4>2
      <4>4. t.fleet[i].draws[j] \in 1 .. t.fleet[i].due[j]
        BY <1>1, <1>2, <1>5, <1>7, <1>13, <3>1
      <4>5. t.fleet[i].draws[j] - 1 = craft.draws[k]
        BY <1>2, <1>5, <1>13, <3>1
      <4>6. t.fleet[i].due[j] - Interval(t.fleet[i].ord, j, t.fleet[i].draws[j] - 1) = at
        BY <1>1, <1>5, <1>7, <1>13, <3>1, <4>5
      <4>7. QED
        BY <1>1, <4>1, <4>3, <4>4, <4>6
    <3>2. CASE i = n /\ j # k
      <4>1. /\ t.fleet[i].due[j] = craft.due[j]
            /\ t.fleet[i].draws[j] = craft.draws[j]
            /\ t.fleet[i].ord = craft.ord
        BY <1>5, <1>13, <3>2
      <4>2. QED
        BY <1>1, <1>4, <3>2, <4>1 DEF Scheduled
    <3>3. CASE i # n
      BY <1>4, <1>13, <2>1, <3>3 DEF Scheduled
    <3>4. QED
      BY <3>1, <3>2, <3>3
  <2>2. QED
    BY <2>1 DEF Scheduled
<1>17. QED
  BY <1>4, <1>10, <1>15, <1>16

-------------------------------------------------------------------------------
(***************************************************************************)
(* One creation.                                                           *)
(***************************************************************************)

\* Between runs, what was reported is past and what is scheduled is ahead.
LEMMA PastAndFuture ==
    ASSUME NEW s \in States, TransmissionsSound(s, s.elapsed), NEW horizon, Scheduled(s, horizon)
    PROVE  Monotone(s)
<1>1. s.elapsed \in Nat /\ s.fleet \in Seq(Aircraft) /\ s.history \in Seq(Frames)
  BY DEF States
<1>2. \A h \in DOMAIN s.history : s.history[h].at \in Nat
  <2>1. \A h \in DOMAIN s.history : s.history[h] \in Frames
    BY <1>1
  <2>2. QED
    BY <2>1 DEF Frames
<1>3. \A h \in DOMAIN s.history : s.history[h].at <= s.elapsed
  BY DEF TransmissionsSound
<1>4. \A i \in DOMAIN s.fleet : s.fleet[i] \in Aircraft
  BY <1>1
<1>5. \A i \in DOMAIN s.fleet : \A k \in DOMAIN Families : s.fleet[i].due[k] \in Nat
  BY <1>4 DEF Aircraft
<1>6. \A i \in DOMAIN s.fleet : \A k \in DOMAIN Families : s.fleet[i].due[k] > s.elapsed
  BY DEF Scheduled
<1>7. QED
  BY <1>1, <1>2, <1>3, <1>5, <1>6 DEF Monotone

\* addAircraft: one creation report keeps the log sound and the rest untouched.
LEMMA CreationReport ==
    ASSUME NEW s \in States, NEW ord \in Nat, NEW k \in DOMAIN Families,
           TransmissionsSound(s, s.elapsed)
    PROVE  LET t == Record(s, ord, Families[k], FALSE, s.elapsed) IN
           /\ t \in States
           /\ t.elapsed = s.elapsed
           /\ t.fleet = s.fleet
           /\ t.nextAddress = s.nextAddress
           /\ TransmissionsSound(t, t.elapsed)
<1> DEFINE t == Record(s, ord, Families[k], FALSE, s.elapsed)
<1>1. s.elapsed \in Nat /\ s.history \in Seq(Frames)
  BY DEF States
<1>2. Families[k] \in Kinds
  BY DEF Kinds
<1>3. \A h \in DOMAIN s.history : s.history[h].at <= s.elapsed
  BY DEF TransmissionsSound
<1>4. /\ t \in States
      /\ t.elapsed = s.elapsed
      /\ t.fleet = s.fleet
      /\ t.nextAddress = s.nextAddress
  BY <1>1, <1>2, RecordKeepsRest
<1>5. s.elapsed <= s.elapsed
  BY <1>1
<1>6. TransmissionsSound(t, s.elapsed)
  BY <1>1, <1>2, <1>3, <1>5, RecordKeepsLog
<1>7. QED
  BY <1>4, <1>6

\* addAircraft: the three reports and the new aircraft.
LEMMA AddAircraftKeeps ==
    ASSUME NEW s \in States, s.nextAddress \in 1 .. MaxAddress,
           CanReschedule(NewAircraft(s.nextAddress, s.elapsed)),
           TransmissionsSound(s, s.elapsed), Scheduled(s, s.elapsed),
           NEW t, t = AddAircraft(s)
    PROVE  /\ t \in States
           /\ t.elapsed = s.elapsed
           /\ t.nextAddress = s.nextAddress + 1
           /\ TransmissionsSound(t, t.elapsed)
           /\ Scheduled(t, t.elapsed)
           /\ Monotone(t)
<1> DEFINE ord == s.nextAddress
           at  == s.elapsed
           a   == Record(s, ord, Families[1], FALSE, at)
           b   == Record(a, ord, Families[2], FALSE, a.elapsed)
           c   == Record(b, ord, Families[3], FALSE, b.elapsed)
           craft == NewAircraft(ord, at)
<1>1. ord \in 1 .. MaxAddress /\ ord \in Nat /\ at \in Nat /\ s.fleet \in Seq(Aircraft)
  BY EngineLimits DEF States
<1>2. 1 \in DOMAIN Families /\ 2 \in DOMAIN Families /\ 3 \in DOMAIN Families
  BY ThreeFamilies
<1>3. /\ a \in States
      /\ a.elapsed = at
      /\ a.fleet = s.fleet
      /\ a.nextAddress = ord
      /\ TransmissionsSound(a, a.elapsed)
  BY <1>1, <1>2, CreationReport
<1>4. /\ b \in States
      /\ b.elapsed = at
      /\ b.fleet = s.fleet
      /\ b.nextAddress = ord
      /\ TransmissionsSound(b, b.elapsed)
  <2> HIDE DEF a
  <2>1. QED
    BY <1>1, <1>2, <1>3, CreationReport
<1>5. /\ c \in States
      /\ c.elapsed = at
      /\ c.fleet = s.fleet
      /\ c.nextAddress = ord
      /\ TransmissionsSound(c, c.elapsed)
  <2> HIDE DEF b
  <2>1. QED
    BY <1>1, <1>2, <1>4, CreationReport
<1>6. /\ craft \in Aircraft
      /\ craft.ord = ord
      /\ \A k \in DOMAIN Families : craft.draws[k] = 1 /\ craft.due[k] = at + Interval(ord, k, 0)
  BY <1>1, NewAircraftEffect
<1>7. t = [c EXCEPT !.nextAddress = c.nextAddress + 1, !.fleet = Append(c.fleet, craft)]
  <2>1. c = Record(Record(a, ord, Families[2], FALSE, at), ord, Families[3], FALSE, at)
    BY <1>3, <1>4, Zenon
  <2>2. QED
    BY <2>1, Zenon DEF AddAircraft
<1>8. Append(s.fleet, craft) \in Seq(Aircraft)
  BY <1>1, <1>6
<1>9. /\ t \in States
      /\ t.elapsed = at
      /\ t.nextAddress = ord + 1
      /\ t.fleet = Append(s.fleet, craft)
      /\ t.lastSequence = c.lastSequence
      /\ t.history = c.history
  <2> DEFINE fleet == Append(s.fleet, craft)
             next  == ord + 1
  <2>1. next \in Nat /\ fleet \in Seq(Aircraft)
    BY <1>1, <1>8
  <2>2. t = [c EXCEPT !.nextAddress = next, !.fleet = fleet]
    BY <1>5, <1>7, Zenon
  <2> HIDE DEF c, fleet, next
  <2>3. /\ t \in States
        /\ t.elapsed = c.elapsed
        /\ t.nextAddress = next
        /\ t.fleet = fleet
        /\ t.lastSequence = c.lastSequence
        /\ t.history = c.history
    BY <1>5, <2>1, <2>2 DEF States
  <2>4. QED
    BY <1>5, <2>3 DEF fleet, next
<1>10. TransmissionsSound(t, t.elapsed)
  BY <1>5, <1>9, Zenon DEF TransmissionsSound
<1>11. Scheduled(t, t.elapsed)
  <2>1. ASSUME NEW i \in DOMAIN t.fleet, NEW k \in DOMAIN Families
        PROVE  /\ t.fleet[i].due[k] <= MaxDuration
               /\ t.fleet[i].due[k] > t.elapsed
               /\ t.fleet[i].draws[k] \in 1 .. t.fleet[i].due[k]
               /\ t.fleet[i].due[k]
                      - Interval(t.fleet[i].ord, k, t.fleet[i].draws[k] - 1) <= t.elapsed
    <3>1. CASE i = Len(s.fleet) + 1
      <4>1. t.fleet[i] = craft
        BY <1>1, <1>6, <1>9, <3>1
      <4>2. craft.due[k] <= MaxDuration
        BY DEF CanReschedule
      <4>3. Interval(ord, k, 0) \in Nat /\ Interval(ord, k, 0) > 0
        BY <1>1, IntervalPositive, EngineLimits
      <4>4. /\ craft.draws[k] = 1
            /\ craft.due[k] = at + Interval(ord, k, 0)
            /\ craft.draws[k] - 1 = 0
        BY <1>6
      <4>5. craft.due[k] > at /\ craft.draws[k] \in 1 .. craft.due[k]
        BY <1>1, <4>3, <4>4
      <4>6. craft.due[k] - Interval(craft.ord, k, craft.draws[k] - 1) = at
        BY <1>1, <1>6, <4>3, <4>4
      <4>7. QED
        BY <1>1, <1>9, <4>1, <4>2, <4>5, <4>6
    <3>2. CASE i # Len(s.fleet) + 1
      <4>1. i \in DOMAIN s.fleet /\ t.fleet[i] = s.fleet[i]
        BY <1>1, <1>6, <1>9, <3>2
      <4>2. QED
        BY <1>9, <4>1 DEF Scheduled
    <3>3. QED
      BY <3>1, <3>2
  <2>2. QED
    BY <2>1 DEF Scheduled
<1>12. Monotone(t)
  BY <1>9, <1>10, <1>11, PastAndFuture
<1>13. QED
  BY <1>9, <1>10, <1>11, <1>12

-------------------------------------------------------------------------------
(***************************************************************************)
(* The invariant.                                                          *)
(***************************************************************************)

\* What every commit needs to know of the state it commits.
Sound(s) ==
    /\ s \in States
    /\ Allocated(s)
    /\ TransmissionsSound(s, s.elapsed)
    /\ Scheduled(s, s.elapsed)

\* The committed state is sound.
LEMMA CommittedIsSound == LogInv => Sound(state)
BY DEF LogInv, TypeOK, Committed, LogInOrder, Sound

\* Whatever is committed is the new clone too.
LEMMA CommitKeepsLogInv ==
    ASSUME NEW u, Sound(u), Commit(u)
    PROVE  LogInv'
<1>1. state' = u /\ staged' = u /\ mode' = "idle" /\ target' = Start /\ count' = 0
  BY DEF Commit
<1>2. u \in States /\ Allocated(u) /\ TransmissionsSound(u, u.elapsed) /\ Scheduled(u, u.elapsed)
  BY DEF Sound
<1>3. u.elapsed \in Nat
  BY <1>2 DEF States
<1>4. Horizon' = u.elapsed
  BY <1>1 DEF Horizon
<1>5. TypeOK'
  <2>1. Start \in [elapsed : Nat, carry : 0 .. 99]
    BY DEF Start, Clock
  <2>2. QED
    BY <1>1, <1>2, <2>1 DEF TypeOK
<1>6. Committed'
  BY <1>1, <1>2 DEF Committed, Allocated, LogInOrder, TransmissionsSound, Scheduled
<1>7. Monotone(u)
  BY <1>2, PastAndFuture
<1>8. ClonedLogInOrder'
  BY <1>1, <1>2, <1>4 DEF ClonedLogInOrder, TransmissionsSound
<1>9. Scheduled(staged, Horizon)'
  BY <1>1, <1>2, <1>4 DEF Scheduled
<1>10. Cloned'
  <2>1. Allocated(staged)'
    BY <1>1, <1>2 DEF Allocated
  <2>2. Monotone(staged)'
    BY <1>1, <1>7 DEF Monotone
  <2>3. (staged.elapsed = state.elapsed)' /\ (staged.elapsed <= Horizon)'
    BY <1>1, <1>3, <1>4
  <2>4. QED
    BY <1>8, <1>9, <2>1, <2>2, <2>3 DEF Cloned
<1>11. QED
  BY <1>5, <1>6, <1>10 DEF LogInv

\* New: an empty state is sound.
LEMMA InitLogInv == Init => LogInv
<1> SUFFICES ASSUME Init PROVE LogInv
  OBVIOUS
<1>1. PICK speed \in Speeds : state = Empty(speed)
  BY DEF Init
<1>2. speed \in Nat
  BY EngineInputs
<1>3. state \in States
  <2>1. /\ <<>> \in Seq(Aircraft) /\ <<>> \in Seq(Frames) /\ <<>> \in Seq(Stations)
        /\ {} \in SUBSET StationIds
    BY EmptySeq
  <2>2. QED
    BY <1>1, <1>2, <2>1 DEF Empty, States
<1>4. /\ state.elapsed = 0 /\ state.lastSequence = 0 /\ state.history = <<>>
      /\ state.fleet = <<>> /\ state.nextAddress = 1
  BY <1>1 DEF Empty
<1>5. Len(<<>>) = 0 /\ DOMAIN <<>> = {}
  OBVIOUS
<1>6. /\ staged = state /\ mode = "idle" /\ target = Start /\ count = 0
  BY DEF Init
<1>7. Allocated(state)
  BY <1>4, EngineLimits DEF Allocated
<1>8. TransmissionsSound(state, state.elapsed)
  <2>1. Least(0, HistoryLimit) = 0
    BY EngineLimits DEF Least
  <2>2. QED
    BY <1>4, <1>5, <2>1 DEF TransmissionsSound
<1>9. Scheduled(state, state.elapsed) /\ Monotone(state)
  BY <1>4, <1>5 DEF Scheduled, Monotone
<1>10. Horizon = state.elapsed
  BY <1>6 DEF Horizon
<1>11. TypeOK
  <2>1. Start \in [elapsed : Nat, carry : 0 .. 99]
    BY DEF Start, Clock
  <2>2. QED
    BY <1>3, <1>6, <2>1 DEF TypeOK
<1>12. Committed
  BY <1>7, <1>8, <1>9 DEF Committed, LogInOrder
<1>13. Cloned
  BY <1>4, <1>6, <1>7, <1>8, <1>9, <1>10 DEF Cloned, ClonedLogInOrder
<1>14. QED
  BY <1>11, <1>12, <1>13 DEF LogInv

\* planAdvance and planElapse: time never goes back, and the carry stays below
\* one tick.
LEMMA PlanFacts ==
    ASSUME NEW s \in States, NEW d \in Nat
    PROVE  /\ PlanAdvance(s, d) \in [elapsed : Nat, carry : 0 .. 99]
           /\ PlanAdvance(s, d).elapsed >= s.elapsed
           /\ PlanElapse(s, d) \in [elapsed : Nat, carry : 0 .. 99]
           /\ PlanElapse(s, d).elapsed >= s.elapsed
<1>1. s.elapsed \in Nat /\ s.carry \in 0 .. 99 /\ s.speed \in Nat
  BY DEF States
<1>2. d * s.speed \in Nat
  BY <1>1
<1>3. Earned(s, d) \in Nat
  BY <1>1, <1>2 DEF Earned
<1>4. Earned(s, d) \div 100 \in Nat /\ Earned(s, d) % 100 \in 0 .. 99
  BY <1>3
<1>5. s.elapsed + d \in Nat /\ s.elapsed + d >= s.elapsed
  BY <1>1
<1>6. /\ s.elapsed + Earned(s, d) \div 100 \in Nat
      /\ s.elapsed + Earned(s, d) \div 100 >= s.elapsed
  BY <1>1, <1>4
<1>7. PlanAdvance(s, d) \in [elapsed : Nat, carry : 0 .. 99] /\ PlanAdvance(s, d).elapsed >= s.elapsed
  BY <1>1, <1>5 DEF PlanAdvance, Clock
<1>8. PlanElapse(s, d) \in [elapsed : Nat, carry : 0 .. 99] /\ PlanElapse(s, d).elapsed >= s.elapsed
  <2>1. CASE s.speed = 0
    BY <1>1, <2>1 DEF PlanElapse, Clock
  <2>2. CASE s.speed # 0
    BY <1>4, <1>6, <2>2 DEF PlanElapse, Clock
  <2>3. QED
    BY <2>1, <2>2
<1>9. QED
  BY <1>7, <1>8

\* A later horizon allows what an earlier one allows.
LEMMA LaterHorizon ==
    ASSUME NEW s \in States, NEW early \in Nat, NEW late \in Nat, early <= late,
           TransmissionsSound(s, early), Scheduled(s, early)
    PROVE  TransmissionsSound(s, late) /\ Scheduled(s, late)
<1>1. s.history \in Seq(Frames) /\ s.fleet \in Seq(Aircraft)
  BY DEF States
<1>2. \A i \in DOMAIN s.history : s.history[i].at \in Nat
  <2>1. \A i \in DOMAIN s.history : s.history[i] \in Frames
    BY <1>1
  <2>2. QED
    BY <2>1 DEF Frames
<1>3. \A i \in DOMAIN s.history : s.history[i].at <= late
  BY <1>2 DEF TransmissionsSound
<1>4. TransmissionsSound(s, late)
  BY <1>3 DEF TransmissionsSound
<1>5. ASSUME NEW i \in DOMAIN s.fleet, NEW k \in DOMAIN Families
      PROVE  s.fleet[i].due[k] - Interval(s.fleet[i].ord, k, s.fleet[i].draws[k] - 1) <= late
  <2> DEFINE craft == s.fleet[i]
  <2>1. craft \in Aircraft
    BY <1>1
  <2>2. craft.due[k] \in Nat /\ craft.draws[k] \in Nat /\ craft.ord \in 1 .. MaxAddress
    BY <2>1 DEF Aircraft
  <2>3. craft.draws[k] \in 1 .. craft.due[k] /\ craft.due[k] <= MaxDuration
    BY DEF Scheduled
  <2>4. craft.draws[k] - 1 \in 0 .. MaxDuration
    BY <2>2, <2>3, EngineLimits
  <2>5. Interval(craft.ord, k, craft.draws[k] - 1) \in Nat
    BY <2>2, <2>4, IntervalPositive
  <2>6. craft.due[k] - Interval(craft.ord, k, craft.draws[k] - 1) <= early
    BY DEF Scheduled
  <2>7. QED
    BY <2>2, <2>5, <2>6
<1>6. Scheduled(s, late)
  BY <1>5 DEF Scheduled
<1>7. QED
  BY <1>4, <1>6

\* Advance and Elapse, up to the loop: nothing moves but the horizon.
LEMMA RunKeepsLogInv ==
    ASSUME LogInv, NEW clock \in [elapsed : Nat, carry : 0 .. 99], clock.elapsed >= state.elapsed,
           Run(clock)
    PROVE  LogInv'
<1>1. /\ mode = "idle" /\ mode' = "run" /\ target' = clock
      /\ state' = state /\ staged' = staged /\ count' = count
  BY DEF Run
<1>2. TypeOK /\ Committed /\ Cloned
  BY DEF LogInv
<1>3. staged \in States /\ staged.elapsed \in Nat /\ clock.elapsed \in Nat
  BY <1>2 DEF TypeOK, States
<1>4. Horizon = staged.elapsed /\ Horizon' = clock.elapsed
  BY <1>1 DEF Horizon
<1>5. staged.elapsed <= clock.elapsed /\ staged.elapsed = state.elapsed
  BY <1>2, <1>3 DEF Cloned
<1>6. TransmissionsSound(staged, clock.elapsed) /\ Scheduled(staged, clock.elapsed)
  <2>1. TransmissionsSound(staged, staged.elapsed) /\ Scheduled(staged, staged.elapsed)
    BY <1>2, <1>4 DEF Cloned, ClonedLogInOrder
  <2>2. QED
    BY <1>3, <1>5, <2>1, LaterHorizon
<1>7. TypeOK'
  BY <1>1, <1>2 DEF TypeOK
<1>8. Committed'
  BY <1>1, <1>2 DEF Committed, Allocated, LogInOrder, TransmissionsSound, Scheduled
<1>9. Cloned'
  <2>1. Allocated(staged)' /\ Monotone(staged)'
    BY <1>1, <1>2 DEF Cloned, Allocated, Monotone
  <2>2. (staged.elapsed = state.elapsed)' /\ (staged.elapsed <= Horizon)'
    BY <1>1, <1>4, <1>5
  <2>3. ClonedLogInOrder'
    BY <1>1, <1>4, <1>6 DEF ClonedLogInOrder, TransmissionsSound
  <2>4. Scheduled(staged, Horizon)'
    BY <1>1, <1>4, <1>6 DEF Scheduled
  <2>5. QED
    BY <2>1, <2>2, <2>3, <2>4 DEF Cloned
<1>10. QED
  BY <1>7, <1>8, <1>9 DEF LogInv

\* A step that only changes the clone keeps the invariant when it keeps the
\* clone sound; the committed state is not touched.
LEMMA CloneKeepsLogInv ==
    ASSUME LogInv, NEW u \in States, staged' = u, UNCHANGED <<state, mode, target, count>>,
           Allocated(u), u.elapsed = staged.elapsed,
           TransmissionsSound(u, Horizon), Scheduled(u, Horizon), Monotone(u)
    PROVE  LogInv'
<1>1. TypeOK /\ Committed /\ Cloned
  BY DEF LogInv
<1>2. Horizon' = Horizon
  BY DEF Horizon
<1>3. TypeOK'
  BY <1>1 DEF TypeOK
<1>4. Committed'
  BY <1>1 DEF Committed, Allocated, LogInOrder, TransmissionsSound, Scheduled
<1>5. Cloned'
  <2>1. Allocated(staged)' /\ Monotone(staged)'
    BY DEF Allocated, Monotone
  <2>2. (staged.elapsed = state.elapsed)' /\ (staged.elapsed <= Horizon)'
    BY <1>1, <1>2 DEF Cloned
  <2>3. ClonedLogInOrder'
    BY <1>2 DEF ClonedLogInOrder, TransmissionsSound
  <2>4. Scheduled(staged, Horizon)'
    BY <1>2 DEF Scheduled
  <2>5. QED
    BY <2>1, <2>2, <2>3, <2>4 DEF Cloned
<1>6. QED
  BY <1>3, <1>4, <1>5 DEF LogInv

\* runTo's loop.
LEMMA FireKeepsLogInv ==
    ASSUME LogInv, Fire
    PROVE  LogInv'
<1>1. TypeOK /\ Cloned /\ mode = "run"
  BY DEF LogInv, Fire
<1>2. Horizon = target.elapsed /\ target.elapsed \in Nat /\ staged \in States
  BY <1>1 DEF Horizon, TypeOK
<1>3. PICK e \in Due(staged, target.elapsed) :
         /\ IsNext(staged, target.elapsed, e)
         /\ CanReschedule(Reschedule(staged.fleet[e[1]], e[2]))
         /\ staged' = Emit(staged, e)
  BY DEF Fire
<1>4. TransmissionsSound(staged, target.elapsed) /\ Scheduled(staged, target.elapsed)
  BY <1>1, <1>2 DEF Cloned, ClonedLogInOrder
<1>5. Monotone(staged) /\ Allocated(staged)
  BY <1>1 DEF Cloned
<1> DEFINE u == Emit(staged, e)
<1>6. /\ u \in States
      /\ u.elapsed = staged.elapsed
      /\ u.nextAddress = staged.nextAddress
      /\ TransmissionsSound(u, target.elapsed)
      /\ Scheduled(u, target.elapsed)
      /\ Monotone(u)
  BY <1>2, <1>3, <1>4, <1>5, EmitKeeps
<1>7. Allocated(u)
  BY <1>5, <1>6 DEF Allocated
<1>8. UNCHANGED <<state, mode, target, count>>
  BY DEF Fire
<1> HIDE DEF u
<1>9. staged' = u
  BY <1>3 DEF u
<1>10. QED
  BY <1>2, <1>6, <1>7, <1>8, <1>9, CloneKeepsLogInv

\* addAircraft's loop.
LEMMA CreateKeepsLogInv ==
    ASSUME LogInv, Create
    PROVE  LogInv'
<1>1. TypeOK /\ Cloned /\ mode = "grow"
  BY DEF LogInv, Create
<1>2. Horizon = staged.elapsed /\ staged \in States /\ staged.nextAddress \in Nat
  BY <1>1 DEF Horizon, TypeOK, States
<1>3. TransmissionsSound(staged, staged.elapsed) /\ Scheduled(staged, staged.elapsed)
  BY <1>1, <1>2 DEF Cloned, ClonedLogInOrder
<1>4. staged.nextAddress \in 1 .. MaxAddress
  BY <1>1, <1>2, EngineLimits DEF Cloned, Allocated, Create
<1> DEFINE u == AddAircraft(staged)
<1>5. CanReschedule(NewAircraft(staged.nextAddress, staged.elapsed))
  BY DEF Create
<1>6. /\ u \in States
      /\ u.elapsed = staged.elapsed
      /\ u.nextAddress = staged.nextAddress + 1
      /\ TransmissionsSound(u, u.elapsed)
      /\ Scheduled(u, u.elapsed)
      /\ Monotone(u)
  BY <1>2, <1>3, <1>4, <1>5, AddAircraftKeeps
<1>7. Allocated(u)
  BY <1>4, <1>6, EngineLimits DEF Allocated
<1>8. UNCHANGED <<state, mode, target, count>> /\ staged' = u
  BY DEF Create
<1> HIDE DEF u
<1>9. QED
  BY <1>2, <1>6, <1>7, <1>8, CloneKeepsLogInv

-------------------------------------------------------------------------------
(***************************************************************************)
(* What the mutations that emit nothing change, and the end of runTo.      *)
(***************************************************************************)

\* registry.find: the index of an active identifier.
LEMMA FindFacts ==
    ASSUME NEW s \in States, NEW id \in ActiveIds(s)
    PROVE  Find(s, id) \in DOMAIN s.active
BY DEF ActiveIds, Find

\* slices.Delete: the elements after the removed one move up.
Closed(S, seq, n, r) ==
    /\ r \in Seq(S)
    /\ Len(r) = Len(seq) - 1
    /\ \A i \in 1 .. Len(r) : r[i] = seq[IF i < n THEN i ELSE i + 1]

LEMMA RemoveAtElements ==
    ASSUME NEW S, NEW seq \in Seq(S), NEW n \in DOMAIN seq, NEW r, r = RemoveAt(seq, n)
    PROVE  Closed(S, seq, n, r)
<1> USE DEF Closed
<1> DEFINE a == SubSeq(seq, 1, n - 1)
           b == SubSeq(seq, n + 1, Len(seq))
<1>1. n \in 1 .. Len(seq) /\ Len(seq) \in Nat /\ \A i \in 1 .. Len(seq) : seq[i] \in S
  OBVIOUS
<1>2. a \in Seq(S) /\ Len(a) = n - 1 /\ \A i \in 1 .. n - 1 : a[i] = seq[i]
  <2>1. /\ a \in Seq(S)
        /\ Len(a) = IF 1 <= n - 1 THEN n - 1 - 1 + 1 ELSE 0
        /\ \A i \in 1 .. n - 1 - 1 + 1 : a[i] = seq[1 + i - 1]
    BY <1>1, SubSeqProperties
  <2>2. QED
    BY <1>1, <2>1
<1>3. /\ b \in Seq(S) /\ Len(b) = Len(seq) - n
      /\ \A i \in 1 .. Len(seq) - n : b[i] = seq[n + i]
  <2>1. /\ b \in Seq(S)
        /\ Len(b) = IF n + 1 <= Len(seq) THEN Len(seq) - (n + 1) + 1 ELSE 0
        /\ \A i \in 1 .. Len(seq) - (n + 1) + 1 : b[i] = seq[n + 1 + i - 1]
    BY <1>1, SubSeqProperties
  <2>2. QED
    BY <1>1, <2>1
<1>4. r = a \o b
  BY DEF RemoveAt
<1> HIDE DEF a, b
<1>5. /\ r \in Seq(S)
      /\ Len(r) = Len(a) + Len(b)
      /\ \A i \in 1 .. Len(a) : r[i] = a[i]
      /\ \A i \in Len(a) + 1 .. Len(a) + Len(b) : r[i] = b[i - Len(a)]
  BY <1>2, <1>3, <1>4, ConcatProperties
<1>6. Len(r) = Len(seq) - 1
  BY <1>1, <1>2, <1>3, <1>5
<1>7. ASSUME NEW i \in 1 .. Len(r) PROVE r[i] = seq[IF i < n THEN i ELSE i + 1]
  <2>1. CASE i < n
    BY <1>1, <1>2, <1>5, <1>6, <2>1
  <2>2. CASE ~(i < n)
    <3>1. i \in Len(a) + 1 .. Len(a) + Len(b) /\ i - Len(a) \in 1 .. Len(seq) - n
      BY <1>1, <1>2, <1>3, <1>6, <2>2
    <3>2. r[i] = seq[n + (i - Len(a))]
      BY <1>3, <1>5, <3>1
    <3>3. n + (i - Len(a)) = i + 1
      BY <1>1, <1>2, <1>6
    <3>4. QED
      BY <2>2, <3>2, <3>3
  <2>3. QED
    BY <2>1, <2>2
<1>8. QED
  BY <1>5, <1>6, <1>7

\* Another fleet, or another registry, under the same clock and log.
SameLog(s, t) ==
    /\ t \in States
    /\ t.elapsed = s.elapsed
    /\ t.carry = s.carry
    /\ t.lastSequence = s.lastSequence
    /\ t.history = s.history
    /\ t.nextAddress = s.nextAddress

SameRegistry(s, t) ==
    t.active = s.active /\ t.reserved = s.reserved /\ t.nextStation = s.nextStation

\* SetCount downwards.
LEMMA ShrinkEffect ==
    ASSUME NEW s \in States, NEW n \in 0 .. Len(s.fleet), NEW t, t = Shrink(s, n)
    PROVE  /\ SameLog(s, t) /\ SameRegistry(s, t) /\ t.speed = s.speed
           /\ Len(t.fleet) = n
           /\ \A i \in DOMAIN t.fleet : i \in DOMAIN s.fleet /\ t.fleet[i] = s.fleet[i]
<1> DEFINE fleet == SubSeq(s.fleet, 1, n)
<1>1. s.fleet \in Seq(Aircraft) /\ n \in Nat /\ n <= Len(s.fleet)
  BY DEF States
<1>2. \A i \in 1 .. n : s.fleet[i] \in Aircraft
  BY <1>1
<1>3. /\ fleet \in Seq(Aircraft)
      /\ Len(fleet) = n
      /\ \A i \in 1 .. n : fleet[i] = s.fleet[i]
  <2>1. /\ fleet \in Seq(Aircraft)
        /\ Len(fleet) = IF 1 <= n THEN n - 1 + 1 ELSE 0
        /\ \A i \in 1 .. n - 1 + 1 : fleet[i] = s.fleet[1 + i - 1]
    BY <1>1, <1>2, SubSeqProperties
  <2>2. QED
    BY <1>1, <2>1
<1>4. t = [s EXCEPT !.fleet = fleet]
  BY DEF Shrink
<1> HIDE DEF fleet
<1>5. /\ t \in States
      /\ t.elapsed = s.elapsed /\ t.carry = s.carry /\ t.speed = s.speed
      /\ t.lastSequence = s.lastSequence /\ t.history = s.history
      /\ t.nextAddress = s.nextAddress /\ t.active = s.active
      /\ t.reserved = s.reserved /\ t.nextStation = s.nextStation
      /\ t.fleet = fleet
  BY <1>1, <1>3, <1>4 DEF States
<1>6. \A i \in DOMAIN t.fleet : i \in DOMAIN s.fleet /\ t.fleet[i] = s.fleet[i]
  BY <1>1, <1>3, <1>5
<1>7. QED
  BY <1>3, <1>5, <1>6 DEF SameLog, SameRegistry

\* SetSpeed.
LEMMA SpeedEffect ==
    ASSUME NEW s \in States, NEW speed \in Nat, NEW t, t = [s EXCEPT !.speed = speed]
    PROVE  SameLog(s, t) /\ SameRegistry(s, t) /\ t.speed = speed /\ t.fleet = s.fleet
BY DEF States, SameLog, SameRegistry

\* runTo's end: another clock.
Arrived(s, now, rest, t) ==
    /\ t \in States
    /\ SameRegistry(s, t)
    /\ t.elapsed = now
    /\ t.carry = rest
    /\ t.speed = s.speed
    /\ t.lastSequence = s.lastSequence
    /\ t.history = s.history
    /\ t.nextAddress = s.nextAddress
    /\ t.fleet = s.fleet

LEMMA ArriveEffect ==
    ASSUME NEW s \in States, NEW now \in Nat, NEW rest \in 0 .. 99,
           NEW t, t = [s EXCEPT !.elapsed = now, !.carry = rest]
    PROVE  Arrived(s, now, rest, t)
BY DEF States, SameRegistry, Arrived

\* registry.add: one station more, at the end.
AddedTo(s, id, cfg, t) ==
    /\ SameLog(s, t) /\ t.fleet = s.fleet /\ t.speed = s.speed
    /\ t.reserved = s.reserved \cup {id}
    /\ t.nextStation = s.nextStation + 1
    /\ t.active = Append(s.active,
                         [id |-> id, cfg |-> cfg, rev |-> 1, created |-> s.elapsed,
                          ordinal |-> s.nextStation, draws |-> 0, last |-> 0,
                          ring |-> <<>>])

LEMMA AddedEffect ==
    ASSUME NEW s \in States, NEW id \in StationIds, NEW cfg \in Settings,
           NEW t, t = StationAdded(s, id, cfg)
    PROVE  AddedTo(s, id, cfg, t)
<1>1. /\ s.active \in Seq(Stations) /\ s.reserved \in SUBSET StationIds
      /\ s.nextStation \in Nat /\ s.elapsed \in Nat
  BY DEF States
<1> DEFINE st == [id |-> id, cfg |-> cfg, rev |-> 1, created |-> s.elapsed,
                  ordinal |-> s.nextStation, draws |-> 0, last |-> 0, ring |-> <<>>]
           active == Append(s.active, st)
           reserved == s.reserved \cup {id}
           next == s.nextStation + 1
<1>2. st \in Stations
  BY <1>1, EmptySeq DEF Stations
<1>3. active \in Seq(Stations) /\ reserved \in SUBSET StationIds /\ next \in Nat
  BY <1>1, <1>2
<1>4. t = [s EXCEPT !.active = active, !.reserved = reserved, !.nextStation = next]
  BY Zenon DEF StationAdded
<1> HIDE DEF active, reserved, next
<1>5. /\ t \in States
      /\ t.elapsed = s.elapsed /\ t.carry = s.carry /\ t.speed = s.speed
      /\ t.lastSequence = s.lastSequence /\ t.history = s.history
      /\ t.nextAddress = s.nextAddress /\ t.fleet = s.fleet
      /\ t.active = active /\ t.reserved = reserved /\ t.nextStation = next
  BY <1>3, <1>4 DEF States
<1>6. QED
  BY <1>5 DEF SameLog, active, reserved, next, AddedTo

\* What a replaced registry leaves alone.
LEMMA ActiveEffect ==
    ASSUME NEW s \in States, NEW active \in Seq(Stations),
           NEW t, t = [s EXCEPT !.active = active]
    PROVE  /\ SameLog(s, t) /\ t.fleet = s.fleet /\ t.speed = s.speed
           /\ t.reserved = s.reserved /\ t.nextStation = s.nextStation
           /\ t.active = active
BY DEF States, SameLog

\* registry.update: one station has other settings and the next revision.
UpdatedIn(s, id, cfg, t) ==
    LET n  == Find(s, id)
        st == s.active[n]
    IN  /\ SameLog(s, t) /\ t.fleet = s.fleet /\ t.speed = s.speed
        /\ t.reserved = s.reserved /\ t.nextStation = s.nextStation
        /\ n \in DOMAIN s.active
        /\ t.active = [s.active EXCEPT ![n] = [st EXCEPT !.cfg = cfg, !.rev = st.rev + 1]]

LEMMA UpdatedEffect ==
    ASSUME NEW s \in States, NEW id \in ActiveIds(s), NEW cfg \in Settings,
           NEW t, t = StationUpdated(s, id, cfg)
    PROVE  UpdatedIn(s, id, cfg, t)
<1> DEFINE n  == Find(s, id)
           st == s.active[n]
           changed == [st EXCEPT !.cfg = cfg, !.rev = st.rev + 1]
           active == [s.active EXCEPT ![n] = changed]
<1>1. s.active \in Seq(Stations)
  BY DEF States
<1>2. n \in DOMAIN s.active
  BY FindFacts
<1>3. st \in Stations
  <2> HIDE DEF n
  <2>1. QED
    BY <1>1, <1>2
<1>4. changed \in Stations
  <2> HIDE DEF st
  <2>1. st.rev + 1 \in Nat
    BY <1>3 DEF Stations
  <2>2. QED
    BY <1>3, <2>1 DEF Stations
<1>5. active \in Seq(Stations)
  <2> HIDE DEF n, changed
  <2>1. QED
    BY <1>1, <1>2, <1>4
<1>6. t = [s EXCEPT !.active = active]
  BY Zenon DEF StationUpdated, ReplaceAt
<1> HIDE DEF active
<1>7. /\ SameLog(s, t) /\ t.fleet = s.fleet /\ t.speed = s.speed
      /\ t.reserved = s.reserved /\ t.nextStation = s.nextStation
      /\ t.active = active
  BY <1>5, <1>6, ActiveEffect
<1>8. QED
  BY <1>2, <1>7, Zenon DEF active, changed, st, n, UpdatedIn

\* registry.remove: the later stations move up.
RemovedFrom(s, id, t) ==
    /\ SameLog(s, t) /\ t.fleet = s.fleet /\ t.speed = s.speed
    /\ t.reserved = s.reserved /\ t.nextStation = s.nextStation
    /\ Find(s, id) \in DOMAIN s.active
    /\ t.active = RemoveAt(s.active, Find(s, id))

LEMMA RemovedEffect ==
    ASSUME NEW s \in States, NEW id \in ActiveIds(s), NEW t, t = StationRemoved(s, id)
    PROVE  RemovedFrom(s, id, t)
<1> DEFINE n == Find(s, id)
           active == RemoveAt(s.active, n)
<1>1. s.active \in Seq(Stations)
  BY DEF States
<1>2. n \in DOMAIN s.active
  BY FindFacts
<1>3. active \in Seq(Stations)
  <2> HIDE DEF n
  <2>1. QED
    BY <1>1, <1>2, RemoveAtElements DEF Closed
<1>4. t = [s EXCEPT !.active = active]
  BY Zenon DEF StationRemoved
<1> HIDE DEF active
<1>5. /\ SameLog(s, t) /\ t.fleet = s.fleet /\ t.speed = s.speed
      /\ t.reserved = s.reserved /\ t.nextStation = s.nextStation
      /\ t.active = active
  BY <1>3, <1>4, ActiveEffect
<1>6. QED
  BY <1>2, <1>5 DEF active, RemovedFrom

\* A station that goes on, with the settings it had or with the next revision.
Continues(old, new) ==
    /\ new.id = old.id /\ new.ordinal = old.ordinal /\ new.created = old.created
    /\ new.ring = old.ring /\ new.last = old.last
    /\ \/ new.rev = old.rev /\ new.cfg = old.cfg
       \/ new.rev = old.rev + 1

\* A station whose identifier and stream nobody had and that has heard nothing.
Fresh(s, t, new) ==
    /\ new.id \in t.reserved \ s.reserved
    /\ new.ordinal = s.nextStation /\ s.nextStation < t.nextStation
    /\ new.created = s.elapsed /\ new.rev = 1 /\ new.ring = <<>> /\ new.last = 0

\* Where each active station comes from; a new one comes last.
Restationed(s, t, from) ==
    /\ s.reserved \subseteq t.reserved /\ s.nextStation <= t.nextStation
    /\ from \in [DOMAIN t.active -> 1 .. Len(s.active) + 1]
    /\ \A i, j \in DOMAIN t.active : i < j => from[i] < from[j]
    /\ \A i \in DOMAIN t.active :
          \/ from[i] \in DOMAIN s.active /\ Continues(s.active[from[i]], t.active[i])
          \/ from[i] = Len(s.active) + 1 /\ Fresh(s, t, t.active[i])

Survivors(s, t) == \A i \in DOMAIN t.fleet : i \in DOMAIN s.fleet /\ t.fleet[i] = s.fleet[i]

\* What a mutation that emits nothing makes of an engine.
Mutated(s, t) ==
    /\ SameLog(s, t)
    /\ Survivors(s, t)
    /\ Len(t.active) <= MaxStations \/ Len(t.active) <= Len(s.active)
    /\ \E from : Restationed(s, t, from)

LEMMA StationsGoOn ==
    ASSUME NEW s \in States, NEW t, SameLog(s, t), Survivors(s, t),
           t.reserved = s.reserved, t.nextStation = s.nextStation,
           DOMAIN t.active = DOMAIN s.active,
           \A i \in DOMAIN s.active : Continues(s.active[i], t.active[i])
    PROVE  Mutated(s, t)
<1> DEFINE from == [i \in DOMAIN t.active |-> i]
<1>1. /\ Len(s.active) \in Nat /\ DOMAIN s.active = 1 .. Len(s.active) /\ s.nextStation \in Nat
      /\ Len(t.active) = Len(s.active)
  BY DEF States, SameLog
<1>2. /\ from \in [DOMAIN t.active -> 1 .. Len(s.active) + 1]
      /\ \A i \in DOMAIN t.active : from[i] = i
  BY <1>1
<1> HIDE DEF from
<1>3. Restationed(s, t, from)
  BY <1>1, <1>2 DEF Restationed
<1>4. QED
  BY <1>1, <1>3 DEF Mutated

\* SetCount downwards and SetSpeed.
LEMMA RegistryStays ==
    ASSUME NEW s \in States, NEW t, SameLog(s, t), Survivors(s, t), SameRegistry(s, t)
    PROVE  Mutated(s, t)
BY StationsGoOn DEF SameRegistry, Continues

LEMMA ShrinkMutates ==
    ASSUME NEW s \in States, NEW n \in 0 .. Len(s.fleet), NEW t, t = Shrink(s, n)
    PROVE  Mutated(s, t)
BY ShrinkEffect, RegistryStays DEF Survivors

LEMMA SpeedMutates ==
    ASSUME NEW s \in States, NEW speed \in Nat, NEW t, t = [s EXCEPT !.speed = speed]
    PROVE  Mutated(s, t)
BY SpeedEffect, RegistryStays DEF Survivors

\* registry.add.
LEMMA AddedMutates ==
    ASSUME NEW s \in States, NEW id \in StationIds, NEW cfg \in Settings,
           CanAddStation(s, id), NEW t, t = StationAdded(s, id, cfg)
    PROVE  Mutated(s, t)
<1> DEFINE from == [i \in DOMAIN t.active |-> i]
           m == Len(s.active) + 1
<1>1. AddedTo(s, id, cfg, t)
  BY AddedEffect
<1>2. PICK st : /\ t.active = Append(s.active, st)
                /\ st = [id |-> id, cfg |-> cfg, rev |-> 1, created |-> s.elapsed,
                         ordinal |-> s.nextStation, draws |-> 0, last |-> 0, ring |-> <<>>]
  BY <1>1 DEF AddedTo
<1>3. /\ SameLog(s, t) /\ t.fleet = s.fleet
      /\ t.reserved = s.reserved \cup {id} /\ t.nextStation = s.nextStation + 1
  BY <1>1 DEF AddedTo
<1>4. s.active \in Seq(Stations) /\ Len(s.active) \in Nat /\ s.nextStation \in Nat /\ MaxStations \in Nat
  BY EngineLimits DEF States
<1>5. /\ Len(t.active) = m /\ DOMAIN t.active = 1 .. m /\ DOMAIN s.active = 1 .. Len(s.active)
      /\ \A i \in DOMAIN s.active : t.active[i] = s.active[i]
      /\ t.active[m] = st
  BY <1>2, <1>4, AppendProperties
<1>6. Fresh(s, t, st)
  BY <1>2, <1>3, <1>4 DEF Fresh, CanAddStation
<1>7. from \in [DOMAIN t.active -> 1 .. m] /\ \A i \in DOMAIN t.active : from[i] = i
  BY <1>5
<1> HIDE DEF from
<1>8. Restationed(s, t, from)
  BY <1>3, <1>4, <1>5, <1>6, <1>7 DEF Restationed, Continues
<1>9. Len(t.active) <= MaxStations
  BY <1>4, <1>5 DEF CanAddStation
<1>10. QED
  BY <1>3, <1>8, <1>9 DEF Mutated, Survivors

\* registry.update.
LEMMA UpdatedMutates ==
    ASSUME NEW s \in States, NEW id \in ActiveIds(s), NEW cfg \in Settings,
           NEW t, t = StationUpdated(s, id, cfg)
    PROVE  Mutated(s, t)
<1>1. UpdatedIn(s, id, cfg, t)
  BY UpdatedEffect
<1>2. PICK n \in DOMAIN s.active :
         t.active = [s.active EXCEPT ![n] = [s.active[n] EXCEPT !.cfg = cfg, !.rev = s.active[n].rev + 1]]
  BY <1>1, Zenon DEF UpdatedIn
<1>3. /\ SameLog(s, t) /\ t.fleet = s.fleet
      /\ t.reserved = s.reserved /\ t.nextStation = s.nextStation
  BY <1>1 DEF UpdatedIn
<1>4. s.active \in Seq(Stations)
  BY DEF States
<1>5. PICK st \in Stations : st = s.active[n]
  BY <1>2, <1>4
<1>6. /\ DOMAIN t.active = DOMAIN s.active
      /\ t.active[n] = [st EXCEPT !.cfg = cfg, !.rev = st.rev + 1]
      /\ \A i \in DOMAIN s.active \ {n} : t.active[i] = s.active[i]
  BY <1>2, <1>4, <1>5
<1>7. Continues(st, [st EXCEPT !.cfg = cfg, !.rev = st.rev + 1])
  BY DEF Continues, Stations
<1>8. \A i \in DOMAIN s.active : Continues(s.active[i], t.active[i])
  BY <1>5, <1>6, <1>7 DEF Continues
<1>9. QED
  BY <1>3, <1>6, <1>8, StationsGoOn DEF Survivors

\* registry.remove.
LEMMA RemovedMutates ==
    ASSUME NEW s \in States, NEW id \in ActiveIds(s), NEW t, t = StationRemoved(s, id)
    PROVE  Mutated(s, t)
<1>1. RemovedFrom(s, id, t)
  BY RemovedEffect
<1>2. PICK n \in DOMAIN s.active : t.active = RemoveAt(s.active, n)
  BY <1>1 DEF RemovedFrom
<1> DEFINE at(i) == IF i < n THEN i ELSE i + 1
           from == [i \in DOMAIN t.active |-> at(i)]
<1>3. /\ SameLog(s, t) /\ t.fleet = s.fleet
      /\ t.reserved = s.reserved /\ t.nextStation = s.nextStation
  BY <1>1 DEF RemovedFrom
<1>4. /\ s.active \in Seq(Stations) /\ DOMAIN s.active = 1 .. Len(s.active)
      /\ Len(s.active) \in Nat /\ s.nextStation \in Nat
  BY DEF States
<1>5. /\ t.active \in Seq(Stations)
      /\ Len(t.active) = Len(s.active) - 1
      /\ \A i \in 1 .. Len(t.active) : t.active[i] = s.active[at(i)]
  <2> HIDE DEF from
  <2>1. s.active \in Seq(Stations)
    BY DEF States
  <2>2. Closed(Stations, s.active, n, t.active)
    BY <1>2, <2>1, RemoveAtElements
  <2>3. QED
    BY <2>2 DEF Closed
<1>6. DOMAIN t.active = 1 .. Len(t.active) /\ Len(t.active) <= Len(s.active)
  BY <1>4, <1>5
<1>7. \A i \in DOMAIN t.active : at(i) \in 1 .. Len(s.active)
  BY <1>2, <1>4, <1>5, <1>6
<1>8. \A i, j \in DOMAIN t.active : i < j => at(i) < at(j)
  BY <1>2, <1>4, <1>5, <1>6
<1> HIDE DEF at
<1>9. /\ from \in [DOMAIN t.active -> 1 .. Len(s.active) + 1]
      /\ \A i \in DOMAIN t.active : from[i] = at(i)
  BY <1>4, <1>7
<1> HIDE DEF from
<1>10. Restationed(s, t, from)
  <2>1. \A i \in DOMAIN t.active :
           from[i] \in DOMAIN s.active /\ t.active[i] = s.active[from[i]]
    BY <1>4, <1>5, <1>6, <1>7, <1>9
  <2>2. \A i, j \in DOMAIN t.active : i < j => from[i] < from[j]
    BY <1>8, <1>9
  <2>3. s.reserved \subseteq t.reserved /\ s.nextStation <= t.nextStation
    BY <1>3, <1>4
  <2>4. QED
    BY <1>9, <2>1, <2>2, <2>3 DEF Restationed, Continues
<1>11. QED
  BY <1>3, <1>6, <1>10 DEF Mutated, Survivors

\* A mutation that emits nothing stays sound.
LEMMA MutatedIsSound ==
    ASSUME NEW s, Sound(s), NEW t, Mutated(s, t)
    PROVE  Sound(t)
<1>1. SameLog(s, t) /\ Survivors(s, t)
  BY DEF Mutated
<1>2. Allocated(t)
  BY <1>1 DEF Sound, Allocated, SameLog
<1>3. TransmissionsSound(t, t.elapsed)
  BY <1>1 DEF Sound, TransmissionsSound, SameLog
<1>4. Scheduled(t, t.elapsed)
  BY <1>1 DEF Sound, Scheduled, SameLog, Survivors
<1>5. QED
  BY <1>1, <1>2, <1>3, <1>4 DEF Sound, SameLog

\* runTo's end: nothing due is left behind.
LEMMA ArriveIsSound ==
    ASSUME NEW s \in States, NEW now, NEW rest, NEW t, Arrived(s, now, rest, t), Allocated(s),
           TransmissionsSound(s, now), Scheduled(s, now), Due(s, now) = {}
    PROVE  Sound(t)
<1>1. /\ t \in States /\ t.elapsed = now /\ now \in Nat
      /\ t.nextAddress = s.nextAddress /\ t.lastSequence = s.lastSequence
      /\ t.history = s.history /\ t.fleet = s.fleet
  BY DEF Arrived, States
<1>2. Allocated(t)
  BY <1>1 DEF Allocated
<1>3. TransmissionsSound(t, t.elapsed)
  BY <1>1 DEF TransmissionsSound
<1>4. ASSUME NEW i \in DOMAIN s.fleet, NEW k \in DOMAIN Families
      PROVE  s.fleet[i].due[k] > now
  <2>1. <<i, k>> \notin Due(s, now)
    OBVIOUS
  <2>2. ~(s.fleet[i].due[k] <= now)
    BY <2>1 DEF Due
  <2>3. s.fleet \in Seq(Aircraft)
    BY DEF States
  <2>4. s.fleet[i] \in Aircraft
    BY <2>3
  <2>5. s.fleet[i].due[k] \in Nat
    BY <2>4 DEF Aircraft
  <2>6. QED
    BY <1>1, <2>2, <2>5
<1>5. Scheduled(t, t.elapsed)
  BY <1>1, <1>4 DEF Scheduled
<1>6. QED
  BY <1>1, <1>2, <1>3, <1>5 DEF Sound

\* CommitRun commits the clone at the target.
LEMMA CommitRunArrives ==
    ASSUME TypeOK, CommitRun
    PROVE  \E u : Commit(u) /\ Arrived(staged, target.elapsed, target.carry, u)
<1> DEFINE now == target.elapsed
           rest == target.carry
<1>1. staged \in States /\ now \in Nat /\ rest \in 0 .. 99
  BY DEF TypeOK
<1>2. PICK u : u = [staged EXCEPT !.elapsed = now, !.carry = rest]
  OBVIOUS
<1>3. Commit(u)
  BY <1>2 DEF CommitRun
<1> HIDE DEF now, rest
<1>4. Arrived(staged, now, rest, u)
  BY <1>1, <1>2, ArriveEffect, Zenon
<1>5. QED
  BY <1>3, <1>4 DEF now, rest

\* The end of runTo.
LEMMA CommitRunKeepsLogInv ==
    ASSUME LogInv, CommitRun
    PROVE  LogInv'
<1>1. TypeOK /\ Cloned /\ mode = "run" /\ staged \in States /\ Horizon = target.elapsed
  BY DEF LogInv, CommitRun, Horizon, TypeOK
<1>2. PICK u : Commit(u) /\ Arrived(staged, target.elapsed, target.carry, u)
  BY <1>1, CommitRunArrives
<1>3. Due(staged, target.elapsed) = {}
  BY DEF CommitRun
<1>4. Sound(u)
  BY <1>1, <1>2, <1>3, ArriveIsSound DEF Cloned, ClonedLogInOrder
<1>5. QED
  BY <1>2, <1>4, CommitKeepsLogInv

\* Mutations that commit in one step.
Mutates == \E u : AtOnce(u) /\ Mutated(state, u)

\* Mutations that begin.
Begins ==
    \/ \E d \in Durations : BeginAdvance(d)
    \/ \E real \in RealDurations : BeginElapse(real)
    \/ \E n \in 1 .. MaxAircraft : BeginGrow(n)

LEMMA BeginsQuietly == Begins => mode = "idle" /\ state' = state /\ staged' = staged
BY DEF Begins, BeginAdvance, BeginElapse, BeginGrow, Run

\* What a step of the engine does.
LEMMA StepCases ==
    ASSUME state \in States, [Next]_vars
    PROVE  \/ UNCHANGED vars \/ Begins
           \/ Fire \/ Create \/ CommitRun \/ CommitGrow \/ Abort
           \/ Mutates
<1>1. ASSUME NEW n \in 0 .. MaxAircraft, SetCount(n) PROVE Mutates
  BY <1>1, ShrinkMutates DEF SetCount, Mutates
<1>2. ASSUME NEW speed \in Speeds, SetSpeed(speed) PROVE Mutates
  <2>1. speed \in Nat
    BY EngineInputs
  <2>2. QED
    BY <1>2, <2>1, SpeedMutates DEF SetSpeed, Mutates
<1>3. ASSUME NEW id \in StationIds, NEW cfg \in Configs, AddStation(id, cfg) PROVE Mutates
  <2>1. cfg \in Settings
    BY EngineInputs
  <2>2. QED
    BY <1>3, <2>1, AddedMutates DEF AddStation, Mutates
<1>4. ASSUME NEW id \in StationIds, NEW rev \in 1 .. MaxRevision, NEW cfg \in Configs,
             UpdateStation(id, rev, cfg)
      PROVE  Mutates
  <2>1. cfg \in Settings /\ id \in ActiveIds(state)
    BY <1>4, EngineInputs DEF UpdateStation, RevisionMatches
  <2>2. QED
    BY <1>4, <2>1, UpdatedMutates DEF UpdateStation, Mutates
<1>5. ASSUME NEW id \in StationIds, NEW rev \in 1 .. MaxRevision, RemoveStation(id, rev)
      PROVE  Mutates
  BY <1>5, RemovedMutates DEF RemoveStation, RevisionMatches, Mutates
<1>6. QED
  BY <1>1, <1>2, <1>3, <1>4, <1>5 DEF Next, Begins

\* Every step of the engine preserves the invariant.
LEMMA NextKeepsLogInv == LogInv /\ [Next]_vars => LogInv'
<1> SUFFICES ASSUME LogInv, [Next]_vars PROVE LogInv'
  OBVIOUS
<1>1. Sound(state) /\ state \in States /\ staged \in States
  BY CommittedIsSound DEF LogInv, TypeOK
<1>2. ASSUME NEW d \in Durations, BeginAdvance(d) PROVE LogInv'
  <2>1. d \in Nat
    BY EngineInputs
  <2> DEFINE clock == PlanAdvance(state, d)
  <2>2. clock \in [elapsed : Nat, carry : 0 .. 99] /\ clock.elapsed >= state.elapsed
    BY <1>1, <2>1, PlanFacts
  <2>3. Run(clock)
    BY <1>2 DEF BeginAdvance
  <2> HIDE DEF clock
  <2>4. QED
    BY <2>2, <2>3, RunKeepsLogInv
<1>3. ASSUME NEW real \in RealDurations, BeginElapse(real) PROVE LogInv'
  <2>1. real \in Nat
    BY EngineInputs
  <2> DEFINE clock == PlanElapse(state, real)
  <2>2. clock \in [elapsed : Nat, carry : 0 .. 99] /\ clock.elapsed >= state.elapsed
    BY <1>1, <2>1, PlanFacts
  <2>3. Run(clock)
    BY <1>3 DEF BeginElapse
  <2> HIDE DEF clock
  <2>4. QED
    BY <2>2, <2>3, RunKeepsLogInv
<1>4. ASSUME NEW n \in 1 .. MaxAircraft, BeginGrow(n) PROVE LogInv'
  <2>1. /\ mode = "idle" /\ mode' = "grow" /\ count' = n
        /\ state' = state /\ staged' = staged /\ target' = target
    BY <1>4 DEF BeginGrow
  <2>2. TypeOK /\ Committed /\ Cloned
    BY DEF LogInv
  <2>3. Horizon' = staged.elapsed /\ Horizon = staged.elapsed
    BY <2>1 DEF Horizon
  <2>4. n \in Nat
    BY EngineLimits
  <2>5. TypeOK'
    BY <2>1, <2>2, <2>4 DEF TypeOK
  <2>6. Committed'
    BY <2>1, <2>2 DEF Committed, Allocated, LogInOrder, TransmissionsSound, Scheduled
  <2>7. Cloned'
    BY <2>1, <2>2, <2>3
       DEF Cloned, Allocated, ClonedLogInOrder, TransmissionsSound, Scheduled, Monotone
  <2>8. QED
    BY <2>5, <2>6, <2>7 DEF LogInv
<1>5. ASSUME CommitGrow PROVE LogInv'
  <2>1. mode = "grow" /\ Commit(staged)
    BY <1>5 DEF CommitGrow
  <2>2. Horizon = staged.elapsed
    BY <2>1 DEF Horizon
  <2>3. Sound(staged)
    BY <1>1, <2>2 DEF LogInv, Cloned, ClonedLogInOrder, Sound
  <2>4. QED
    BY <2>1, <2>3, CommitKeepsLogInv
<1>6. ASSUME Abort PROVE LogInv'
  BY <1>1, <1>6, CommitKeepsLogInv DEF Abort
<1>7. CASE Mutates
  <2>1. PICK u : AtOnce(u) /\ Mutated(state, u)
    BY <1>7 DEF Mutates
  <2>2. Sound(u)
    BY <1>1, <2>1, MutatedIsSound
  <2>3. QED
    BY <2>1, <2>2, CommitKeepsLogInv DEF AtOnce
<1>8. CASE UNCHANGED vars
  <2>1. /\ state' = state /\ staged' = staged /\ mode' = mode /\ target' = target
        /\ count' = count
    BY <1>8 DEF vars
  <2>2. TypeOK /\ Committed /\ Cloned
    BY DEF LogInv
  <2>3. Horizon' = Horizon
    BY <2>1 DEF Horizon
  <2>4. TypeOK'
    BY <2>1, <2>2 DEF TypeOK
  <2>5. Committed'
    BY <2>1, <2>2 DEF Committed, Allocated, LogInOrder, TransmissionsSound, Scheduled
  <2>6. Cloned'
    BY <2>1, <2>2, <2>3
       DEF Cloned, Allocated, ClonedLogInOrder, TransmissionsSound, Scheduled, Monotone
  <2>7. QED
    BY <2>4, <2>5, <2>6 DEF LogInv
<1>9. QED
  BY <1>1, <1>2, <1>3, <1>4, <1>5, <1>6, <1>7, <1>8,
     FireKeepsLogInv, CreateKeepsLogInv, CommitRunKeepsLogInv, StepCases DEF Begins

-------------------------------------------------------------------------------
(***************************************************************************)
(* Receptions.                                                             *)
(***************************************************************************)

\* The records of a ring are receptions.
LEMMA RingTypes ==
    ASSUME NEW ring \in Seq(Heard), NEW i \in DOMAIN ring
    PROVE  /\ ring[i].seq \in Nat
           /\ ring[i].frame \in Frames
           /\ ring[i].frame.seq \in Nat
           /\ ring[i].frame.at \in Nat
           /\ ring[i].rev \in Nat
           /\ ring[i].created \in Nat
<1>1. ring[i] \in Heard
  OBVIOUS
<1>2. ring[i].frame \in Frames
  BY <1>1 DEF Heard
<1>3. QED
  BY <1>1, <1>2 DEF Heard, Frames

\* deliver: the station that hears the next transmission and does not lose it
\* appends it as its next reception.
LEMMA ReceptionKeeps ==
    ASSUME NEW st \in Stations, NEW frame \in Frames, NEW sent \in Nat, Listened(st, sent),
           frame.seq = sent + 1, frame.at >= st.created, Hears(st, frame),
           NEW r \in Stations, r.last = st.last + 1, r.rev = st.rev, r.cfg = st.cfg,
           r.created = st.created,
           r.ring = Retain(st.ring, Reception(st, frame), ReceptionHistoryLimit)
    PROVE  /\ Listened(r, sent + 1)
           /\ \A i \in DOMAIN r.ring :
                 \/ r.ring[i].frame = frame
                 \/ \E j \in DOMAIN st.ring : r.ring[i].frame = st.ring[j].frame
<1> DEFINE old == st.ring
           new == r.ring
           x   == Reception(st, frame)
           cut == Len(old) + 1 - Len(new)
<1> HIDE DEF old, new, x
<1>0. old = st.ring /\ new = r.ring
  BY DEF old, new
<1>1. /\ st.last \in Nat /\ st.rev \in Nat /\ st.created \in Nat
      /\ old \in Seq(Heard) /\ new \in Seq(Heard)
  BY <1>0 DEF Stations
<1>2. /\ x \in Heard
      /\ x.seq = st.last + 1 /\ x.frame = frame /\ x.rev = st.rev /\ x.cfg = st.cfg
      /\ x.created = st.created
  BY <1>1 DEF x, Reception, Heard, Stations
<1>3. ReceptionHistoryLimit \in Nat \ {0}
  BY EngineLimits
<1>4. Len(old) = Least(st.last, ReceptionHistoryLimit)
  BY <1>0 DEF Listened
<1>5. Len(old) \in Nat /\ Len(old) <= ReceptionHistoryLimit
  BY <1>1, <1>3, <1>4 DEF Least
<1>6. new = Retain(old, x, ReceptionHistoryLimit)
  BY DEF old, new, x
<1>7. /\ Len(new) = Least(Len(old) + 1, ReceptionHistoryLimit)
      /\ Len(new) \in 1 .. ReceptionHistoryLimit
      /\ new[Len(new)] = x
      /\ \A i \in 1 .. Len(new) - 1 : i + cut \in DOMAIN old /\ new[i] = old[i + cut]
  BY <1>1, <1>2, <1>3, <1>5, <1>6, RetainElements
<1>8. Len(new) = Least(st.last + 1, ReceptionHistoryLimit)
  BY <1>1, <1>3, <1>4, <1>7 DEF Least
<1>9. frame.seq \in Nat /\ frame.at \in Nat
  BY DEF Frames
<1>10. \A i \in DOMAIN old :
          /\ old[i].seq = st.last - Len(old) + i
          /\ old[i].created = st.created
          /\ old[i].frame.at >= st.created
          /\ old[i].frame.seq <= sent
          /\ old[i].rev <= st.rev
          /\ old[i].rev = st.rev => old[i].cfg = st.cfg
          /\ old[i].cfg.enabled
          /\ Distance(old[i].frame.ord, old[i].frame.at) <= old[i].cfg.reach
  BY <1>0, Zenon DEF Listened
<1>11. \A i, j \in DOMAIN old :
          i < j => /\ old[i].frame.seq < old[j].frame.seq
                   /\ old[i].rev <= old[j].rev
                   /\ old[i].rev = old[j].rev => old[i].cfg = old[j].cfg
  BY <1>0, Zenon DEF Listened
<1>12. \A i \in DOMAIN old : old[i].frame.seq \in Nat /\ old[i].rev \in Nat /\ old[i].seq \in Nat
  BY <1>1, RingTypes
<1>13. ASSUME NEW i \in DOMAIN new
       PROVE  /\ new[i].seq = r.last - Len(new) + i
              /\ new[i].created = st.created
              /\ new[i].frame.at >= st.created
              /\ new[i].frame.seq <= sent + 1
              /\ new[i].rev <= st.rev
              /\ new[i].rev = st.rev => new[i].cfg = st.cfg
              /\ new[i].cfg.enabled
              /\ Distance(new[i].frame.ord, new[i].frame.at) <= new[i].cfg.reach
              /\ new[i].frame = frame \/ \E j \in DOMAIN old : new[i].frame = old[j].frame
  <2>1. i \in 1 .. Len(new)
    BY <1>1
  <2>2. CASE i = Len(new)
    <3>1. new[i] = x
      BY <1>7, <2>2
    <3>2. st.cfg.enabled /\ Distance(frame.ord, frame.at) <= st.cfg.reach
      BY DEF Hears
    <3>3. new[i].seq = r.last - Len(new) + i
      BY <1>1, <1>2, <1>3, <1>7, <2>2, <3>1
    <3>4. new[i].frame.seq <= sent + 1 /\ new[i].rev <= st.rev
      BY <1>1, <1>2, <1>9, <3>1
    <3>5. QED
      BY <1>2, <3>1, <3>2, <3>3, <3>4
  <2>3. CASE i # Len(new)
    <3>1. i \in 1 .. Len(new) - 1
      BY <1>7, <2>1, <2>3
    <3> DEFINE j == i + cut
    <3>2. j \in DOMAIN old /\ new[i] = old[j]
      BY <1>7, <3>1
    <3>3. new[i].seq = r.last - Len(new) + i
      <4>1. old[j].seq = st.last - Len(old) + j
        BY <1>10, <3>2
      <4>2. Len(new) \in Int /\ i \in Int
        BY <1>3, <1>7, <2>1
      <4>3. st.last - Len(old) + j = r.last - Len(new) + i
        <5>1. \A a, b, c, d, e \in Int : e = a + 1 => a - b + (d + (b + 1 - c)) = e - c + d
          OBVIOUS
        <5>2. st.last \in Int /\ Len(old) \in Int /\ r.last \in Int
          BY <1>1, <1>5
        <5>3. QED
          BY <4>2, <5>1, <5>2
      <4> HIDE DEF j
      <4>4. QED
        BY <3>2, <4>1, <4>3, Zenon
    <3> HIDE DEF j
    <3>4. new[i].frame.seq <= sent + 1
      BY <1>10, <1>12, <3>2
    <3>5. QED
      BY <1>10, <3>2, <3>3, <3>4
  <2>4. QED
    BY <2>2, <2>3
<1>14. ASSUME NEW i \in DOMAIN new, NEW j \in DOMAIN new, i < j
       PROVE  /\ new[i].frame.seq < new[j].frame.seq
              /\ new[i].rev <= new[j].rev
              /\ new[i].rev = new[j].rev => new[i].cfg = new[j].cfg
  <2>1. i \in 1 .. Len(new) /\ j \in 1 .. Len(new)
    BY <1>1
  <2>2. i \in 1 .. Len(new) - 1
    BY <1>7, <1>14, <2>1
  <2> DEFINE a == i + cut
  <2>3. a \in DOMAIN old /\ new[i] = old[a]
    BY <1>7, <2>2
  <2>4. CASE j = Len(new)
    <3>1. new[j] = x
      BY <1>7, <2>4
    <3> HIDE DEF a
    <3>2. /\ old[a].frame.seq <= sent
          /\ old[a].rev <= st.rev
          /\ old[a].rev = st.rev => old[a].cfg = st.cfg
          /\ old[a].frame.seq \in Nat
      BY <1>10, <1>12, <2>3
    <3>3. QED
      BY <1>2, <2>3, <3>1, <3>2
  <2>5. CASE j # Len(new)
    <3> DEFINE b == j + cut
    <3>1. j \in 1 .. Len(new) - 1
      BY <1>7, <2>1, <2>5
    <3>2. b \in DOMAIN old /\ new[j] = old[b]
      BY <1>7, <3>1
    <3>3. a < b
      BY <1>5, <1>7, <1>14, <2>2, <3>1
    <3> HIDE DEF a, b
    <3>4. QED
      BY <1>11, <2>3, <3>2, <3>3
  <2>6. QED
    BY <2>4, <2>5
<1>15. Len(r.ring) = Least(r.last, ReceptionHistoryLimit)
  BY <1>0, <1>8
<1>16. \A i \in DOMAIN r.ring : r.ring[i].seq = r.last - Len(r.ring) + i
  BY <1>13 DEF new
<1>17. QED
  BY <1>0, <1>13, <1>14, <1>15, <1>16 DEF Listened

\* deliver: a station that hears a transmission or does not.
LEMMA ReceiveKeeps ==
    ASSUME NEW st \in Stations, NEW frame \in Frames, NEW sent \in Nat, Listened(st, sent),
           frame.seq = sent + 1, frame.at >= st.created, NEW r, r = Receive(st, frame)
    PROVE  /\ r \in Stations
           /\ Listened(r, sent + 1)
           /\ r.id = st.id /\ r.ordinal = st.ordinal /\ r.created = st.created
           /\ \A i \in DOMAIN r.ring :
                 \/ r.ring[i].frame = frame
                 \/ \E j \in DOMAIN st.ring : r.ring[i].frame = st.ring[j].frame
<1> DEFINE drawn == [st EXCEPT !.draws = @ + 1]
<1>1. r \in Stations
  BY ReceiveType
<1>2. ASSUME r.ring = st.ring, r.last = st.last, r.rev = st.rev, r.cfg = st.cfg,
             r.created = st.created
      PROVE  Listened(r, sent + 1)
  <2>1. \A i \in DOMAIN st.ring : st.ring[i].frame.seq \in Nat
    BY RingTypes DEF Stations
  <2>2. \A i \in DOMAIN st.ring : st.ring[i].frame.seq <= sent + 1
    BY <2>1 DEF Listened
  <2>3. QED
    BY <1>2, <2>2 DEF Listened
<1>3. CASE ~Hears(st, frame)
  <2>1. r = st
    BY <1>3 DEF Receive
  <2>2. QED
    BY <1>1, <1>2, <2>1
<1>4. CASE Hears(st, frame) /\ Loses(st)
  <2>1. r = drawn
    BY <1>4 DEF Receive
  <2>2. /\ r.ring = st.ring /\ r.last = st.last /\ r.rev = st.rev /\ r.cfg = st.cfg
        /\ r.created = st.created /\ r.id = st.id /\ r.ordinal = st.ordinal
    BY <2>1 DEF Stations
  <2>3. QED
    BY <1>1, <1>2, <2>2
<1>5. CASE Hears(st, frame) /\ ~Loses(st)
  <2> DEFINE ring == Retain(st.ring, Reception(st, frame), ReceptionHistoryLimit)
             last == st.last + 1
  <2>1. r = [drawn EXCEPT !.last = last, !.ring = ring]
    BY <1>5 DEF Receive, Stations
  <2> HIDE DEF ring, last
  <2>2. /\ r.ring = ring /\ r.last = last /\ r.rev = st.rev /\ r.cfg = st.cfg
        /\ r.created = st.created /\ r.id = st.id /\ r.ordinal = st.ordinal
    BY <2>1 DEF Stations
  <2>3. QED
    BY <1>1, <1>5, <2>2, ReceptionKeeps DEF ring, last
<1>6. QED
  BY <1>3, <1>4, <1>5

\* What the retained copies of transmissions are.
LEMMA CopyOrigin ==
    ASSUME NEW s, NEW f
    PROVE  f \in Copies(s) <=>
              \/ \E n \in DOMAIN s.active : \E i \in DOMAIN s.active[n].ring :
                    f = s.active[n].ring[i].frame
              \/ \E i \in DOMAIN s.history : f = s.history[i]
<1>1. f \in Copies(s) <=>
         \/ \E n \in DOMAIN s.active : f \in CopiesOf(s.active[n])
         \/ \E i \in DOMAIN s.history : f = s.history[i]
  BY DEF Copies
<1>2. \A n : f \in CopiesOf(s.active[n]) <=>
          \E i \in DOMAIN s.active[n].ring : f = s.active[n].ring[i].frame
  BY DEF CopiesOf
<1>3. QED
  BY <1>1, <1>2

\* record: nothing that is retained has a number yet to be given.
LEMMA CopiesAreNumbered ==
    ASSUME NEW s \in States, NEW horizon, TransmissionsSound(s, horizon), Kept(s),
           NEW f \in Copies(s)
    PROVE  f \in Frames /\ f.seq \in Nat /\ f.seq <= s.lastSequence
<1>1. s.history \in Seq(Frames) /\ s.active \in Seq(Stations) /\ s.lastSequence \in Nat
  BY DEF States
<1>2. ASSUME NEW n \in DOMAIN s.active, NEW i \in DOMAIN s.active[n].ring,
             f = s.active[n].ring[i].frame
      PROVE  f \in Frames /\ f.seq <= s.lastSequence
  <2>1. s.active[n].ring \in Seq(Heard)
    <3>1. s.active[n] \in Stations
      BY <1>1
    <3>2. QED
      BY <3>1 DEF Stations
  <2>2. f \in Frames
    BY <1>2, <2>1, RingTypes
  <2>3. Listened(s.active[n], s.lastSequence)
    BY DEF Kept
  <2>4. QED
    BY <1>2, <2>2, <2>3 DEF Listened
<1>3. ASSUME NEW i \in DOMAIN s.history, f = s.history[i]
      PROVE  f \in Frames /\ f.seq <= s.lastSequence
  <2>1. f.seq = s.lastSequence - Len(s.history) + i
    BY <1>3 DEF TransmissionsSound
  <2>2. i \in 1 .. Len(s.history) /\ Len(s.history) \in Nat
    BY <1>1
  <2>3. f.seq <= s.lastSequence
    BY <1>1, <2>1, <2>2
  <2>4. QED
    BY <1>1, <1>3, <2>3
<1>4. f \in Frames /\ f.seq <= s.lastSequence
  BY <1>2, <1>3, CopyOrigin
<1>5. QED
  BY <1>4 DEF Frames

\* A state that keeps what the log, the stations and the registry hold, later or
\* with another fleet.
LEMMA QuietKeeps ==
    ASSUME NEW s \in States, Kept(s), NEW u \in States,
           u.active = s.active, u.lastSequence = s.lastSequence, u.history = s.history,
           u.reserved = s.reserved, u.nextStation = s.nextStation, u.elapsed >= s.elapsed,
           Addressed(u)
    PROVE  Kept(u)
<1>1. \A i \in DOMAIN u.active : Listened(u.active[i], u.lastSequence)
  BY DEF Kept
<1>2. Registered(u)
  <2>1. \A i \in DOMAIN s.active : s.active[i].created \in Nat
    <3>1. s.active \in Seq(Stations)
      BY DEF States
    <3>2. \A i \in DOMAIN s.active : s.active[i] \in Stations
      BY <3>1
    <3>3. QED
      BY <3>2 DEF Stations
  <2>2. s.elapsed \in Nat /\ u.elapsed \in Nat
    BY DEF States
  <2>3. QED
    BY <2>1, <2>2 DEF Kept, Registered
<1>3. Copies(u) = Copies(s)
  BY DEF Copies
<1>4. CopiesAgree(u)
  BY <1>3 DEF Kept, CopiesAgree
<1>5. QED
  BY <1>1, <1>2, <1>4 DEF Kept

\* record and deliver: the next transmission is new to every station.
LEMMA RecordKeeps ==
    ASSUME NEW s \in States, NEW ord \in Nat, NEW kind \in Kinds, NEW odd \in BOOLEAN,
           NEW at \in Nat, at >= s.elapsed, NEW horizon, TransmissionsSound(s, horizon), Kept(s),
           NEW t, t = Record(s, ord, kind, odd, at)
    PROVE  Kept(t)
<1> DEFINE frame == Transmission(s, ord, kind, odd, at)
<1>1. /\ t \in States /\ frame \in Frames
      /\ t.lastSequence = s.lastSequence + 1
      /\ t.history = Retain(s.history, frame, HistoryLimit)
      /\ t.fleet = s.fleet /\ t.elapsed = s.elapsed /\ t.nextAddress = s.nextAddress
      /\ t.reserved = s.reserved /\ t.nextStation = s.nextStation
  BY RecordEffect
<1>2. /\ DOMAIN t.active = DOMAIN s.active
      /\ \A i \in DOMAIN s.active : t.active[i] = Receive(s.active[i], frame)
  BY RecordDelivers
<1>3. frame.seq = s.lastSequence + 1 /\ frame.at = at
  BY DEF Transmission
<1> HIDE DEF frame
<1>4. /\ s.lastSequence \in Nat /\ s.elapsed \in Nat
      /\ s.history \in Seq(Frames) /\ s.active \in Seq(Stations)
  BY DEF States
<1>5. ASSUME NEW i \in DOMAIN s.active
      PROVE  /\ Listened(t.active[i], t.lastSequence)
             /\ t.active[i].id = s.active[i].id
             /\ t.active[i].ordinal = s.active[i].ordinal
             /\ t.active[i].created = s.active[i].created
             /\ \A k \in DOMAIN t.active[i].ring :
                   \/ t.active[i].ring[k].frame = frame
                   \/ \E j \in DOMAIN s.active[i].ring :
                         t.active[i].ring[k].frame = s.active[i].ring[j].frame
  <2> DEFINE st == s.active[i]
  <2>1. st \in Stations /\ st.created \in Nat
    <3>1. st \in Stations
      BY <1>4
    <3>2. QED
      BY <3>1 DEF Stations
  <2>2. Listened(st, s.lastSequence) /\ st.created <= s.elapsed
    BY DEF Kept, Registered
  <2>3. frame.at >= st.created
    BY <1>3, <1>4, <2>1, <2>2
  <2> DEFINE r == t.active[i]
  <2>4. r = Receive(st, frame)
    BY <1>2
  <2>5. /\ frame \in Frames /\ frame.seq = s.lastSequence + 1
        /\ s.lastSequence \in Nat
    BY <1>1, <1>3, <1>4
  <2> HIDE DEF st, r
  <2>6. /\ Listened(r, s.lastSequence + 1)
        /\ r.id = st.id /\ r.ordinal = st.ordinal /\ r.created = st.created
        /\ \A k \in DOMAIN r.ring :
              \/ r.ring[k].frame = frame
              \/ \E j \in DOMAIN st.ring : r.ring[k].frame = st.ring[j].frame
    BY <2>1, <2>2, <2>3, <2>4, <2>5, ReceiveKeeps
  <2>7. QED
    BY <1>1, <2>6 DEF st, r
<1>6. Registered(t)
  BY <1>1, <1>2, <1>5 DEF Kept, Registered
<1>7. Addressed(t)
  BY <1>1 DEF Kept, Addressed
<1>8. ASSUME NEW f \in Copies(t)
      PROVE  f = frame \/ f \in Copies(s)
  <2>1. ASSUME NEW n \in DOMAIN t.active, NEW k \in DOMAIN t.active[n].ring,
               f = t.active[n].ring[k].frame, f # frame
        PROVE  f \in Copies(s)
    <3>1. n \in DOMAIN s.active
      BY <1>2
    <3>2. PICK j \in DOMAIN s.active[n].ring : f = s.active[n].ring[j].frame
      BY <1>5, <2>1, <3>1
    <3>3. QED
      BY <3>1, <3>2, CopyOrigin
  <2>2. ASSUME NEW i \in DOMAIN t.history, f = t.history[i], f # frame
        PROVE  f \in Copies(s)
    <3> DEFINE new == t.history
               cut == Len(s.history) + 1 - Len(new)
    <3>1. HistoryLimit \in Nat \ {0}
      BY EngineLimits
    <3>2. Len(s.history) <= HistoryLimit
      BY <1>4, <3>1 DEF TransmissionsSound, Least
    <3>3. /\ Len(new) \in 1 .. HistoryLimit
          /\ new[Len(new)] = frame
          /\ \A k \in 1 .. Len(new) - 1 : k + cut \in DOMAIN s.history /\ new[k] = s.history[k + cut]
      <4>1. new = Retain(s.history, frame, HistoryLimit)
        BY <1>1
      <4> HIDE DEF new
      <4>2. Len(new) \in 1 .. HistoryLimit /\ new[Len(new)] = frame
        BY <1>1, <1>4, <3>1, <3>2, <4>1, RetainElements
      <4>3. \A k \in 1 .. Len(new) - 1 : k + cut \in DOMAIN s.history
        BY <1>1, <1>4, <3>1, <3>2, <4>1, RetainElements
      <4>4. \A k \in 1 .. Len(new) - 1 : new[k] = s.history[k + cut]
        BY <1>1, <1>4, <3>1, <3>2, <4>1, RetainElements
      <4>5. QED
        BY <4>2, <4>3, <4>4
    <3>4. new \in Seq(Frames)
      BY <1>1 DEF States
    <3>5. i \in 1 .. Len(new)
      BY <3>4
    <3>6. i \in 1 .. Len(new) - 1
      BY <2>2, <3>1, <3>3, <3>5
    <3>7. \E k \in DOMAIN s.history : f = s.history[k]
      BY <2>2, <3>3, <3>6
    <3>8. QED
      BY <3>7, CopyOrigin
  <2>3. QED
    BY <2>1, <2>2, CopyOrigin
<1>9. CopiesAgree(t)
  <2> SUFFICES ASSUME NEW f \in Copies(t), NEW g \in Copies(t), f.seq = g.seq
               PROVE  f = g
    BY DEF CopiesAgree
  <2>1. \A c \in Copies(s) : c.seq \in Nat /\ c.seq <= s.lastSequence
    BY CopiesAreNumbered
  <2>2. \A c \in Copies(s) : c.seq # frame.seq
    BY <1>3, <1>4, <2>1
  <2>3. \A c, d \in Copies(s) : c.seq = d.seq => c = d
    BY DEF Kept, CopiesAgree
  <2>4. (f = frame \/ f \in Copies(s)) /\ (g = frame \/ g \in Copies(s))
    BY <1>8
  <2>5. QED
    BY <2>2, <2>3, <2>4
<1>10. QED
  BY <1>2, <1>5, <1>6, <1>7, <1>9 DEF Kept

\* runTo: one emission.
LEMMA EmitKept ==
    ASSUME NEW s \in States, NEW limit \in Nat, NEW e \in Due(s, limit),
           CanReschedule(Reschedule(s.fleet[e[1]], e[2])),
           TransmissionsSound(s, limit), Scheduled(s, limit), Kept(s), NEW t, t = Emit(s, e)
    PROVE  Kept(t)
<1> DEFINE n     == e[1]
           k     == e[2]
           craft == s.fleet[n]
           at    == craft.due[k]
           next  == Reschedule(craft, k)
<1>1. n \in DOMAIN s.fleet /\ k \in DOMAIN Families /\ craft \in Aircraft /\ at \in Nat
  BY DueFacts
<1>2. /\ craft.due[k] <= MaxDuration /\ craft.due[k] > s.elapsed
      /\ craft.draws[k] \in 1 .. craft.due[k]
  BY <1>1 DEF Scheduled
<1>3. craft.draws[k] \in 0 .. MaxDuration
  BY <1>1, <1>2, EngineLimits
<1>4. s.elapsed \in Nat /\ s.fleet \in Seq(Aircraft) /\ at >= s.elapsed
  BY <1>1, <1>2 DEF States
<1>5. craft.ord \in Nat
  BY <1>1, EngineLimits DEF Aircraft
<1>6. next.ord = craft.ord
  BY <1>1, <1>3, RescheduleEffect
<1>7. PICK kind \in Kinds, odd \in BOOLEAN :
         LET sent == Record(s, craft.ord, kind, odd, at) IN
         /\ t \in States
         /\ t.elapsed = s.elapsed
         /\ t.nextAddress = s.nextAddress
         /\ t.lastSequence = sent.lastSequence
         /\ t.history = sent.history
         /\ t.active = sent.active
         /\ t.reserved = sent.reserved
         /\ t.nextStation = sent.nextStation
         /\ t.fleet = [s.fleet EXCEPT ![n] = next]
  BY <1>3, EmitEffect
<1> DEFINE sent == Record(s, craft.ord, kind, odd, at)
<1>8. /\ sent \in States
      /\ sent.elapsed = s.elapsed
  <2> HIDE DEF craft, at
  <2>1. QED
    BY <1>1, <1>5, RecordKeepsRest
<1>9. Kept(sent)
  <2> HIDE DEF craft, at
  <2>1. ASSUME NEW ord \in Nat, NEW time \in Nat, time >= s.elapsed
        PROVE  Kept(Record(s, ord, kind, odd, time))
    <3> HIDE DEF craft, at, next, sent
    <3>1. QED
      BY <2>1, RecordKeeps, Zenon
  <2>2. QED
    BY <1>1, <1>4, <1>5, <2>1
<1>10. Addressed(t)
  <2>1. t.fleet = [s.fleet EXCEPT ![n] = next]
    BY <1>7
  <2>2. DOMAIN t.fleet = DOMAIN s.fleet
    BY <2>1
  <2>3. \A i \in DOMAIN s.fleet : t.fleet[i].ord = s.fleet[i].ord
    <3> HIDE DEF next
    <3>1. QED
      BY <1>6, <2>1
  <2>4. QED
    BY <1>7, <2>2, <2>3 DEF Kept, Addressed
<1>11. QED
  <2> HIDE DEF sent
  <2>1. /\ t \in States /\ t.elapsed = s.elapsed
        /\ t.lastSequence = sent.lastSequence /\ t.history = sent.history
        /\ t.active = sent.active /\ t.reserved = sent.reserved
        /\ t.nextStation = sent.nextStation
    BY <1>7 DEF sent
  <2>2. t.elapsed >= sent.elapsed
    BY <1>4, <1>8, <2>1
  <2>3. QED
    BY <1>8, <1>9, <1>10, <2>1, <2>2, QuietKeeps

\* addAircraft: one creation report is new to every station.
LEMMA ReportKept ==
    ASSUME NEW s \in States, NEW ord \in Nat, NEW k \in DOMAIN Families,
           TransmissionsSound(s, s.elapsed), Kept(s)
    PROVE  Kept(Record(s, ord, Families[k], FALSE, s.elapsed))
<1>1. s.elapsed \in Nat /\ s.elapsed >= s.elapsed /\ Families[k] \in Kinds
  BY DEF States, Kinds
<1>2. QED
  BY <1>1, RecordKeeps

\* addAircraft: the new aircraft takes the next address.
LEMMA AddAircraftKept ==
    ASSUME NEW s \in States, s.nextAddress \in 1 .. MaxAddress,
           TransmissionsSound(s, s.elapsed), Kept(s), NEW t, t = AddAircraft(s)
    PROVE  Kept(t)
<1> DEFINE ord == s.nextAddress
           at  == s.elapsed
           a   == Record(s, ord, Families[1], FALSE, at)
           b   == Record(a, ord, Families[2], FALSE, a.elapsed)
           c   == Record(b, ord, Families[3], FALSE, b.elapsed)
           craft == NewAircraft(ord, at)
<1>1. /\ ord \in 1 .. MaxAddress /\ ord \in Nat /\ at \in Nat /\ s.fleet \in Seq(Aircraft)
      /\ 1 \in DOMAIN Families /\ 2 \in DOMAIN Families /\ 3 \in DOMAIN Families
  BY ThreeFamilies, EngineLimits DEF States
<1>2. /\ a \in States
      /\ a.elapsed = at
      /\ a.fleet = s.fleet
      /\ a.nextAddress = ord
      /\ TransmissionsSound(a, a.elapsed)
      /\ Kept(a)
  BY <1>1, CreationReport, ReportKept
<1>3. /\ b \in States
      /\ b.elapsed = at
      /\ b.fleet = s.fleet
      /\ b.nextAddress = ord
      /\ TransmissionsSound(b, b.elapsed)
      /\ Kept(b)
  <2> HIDE DEF a
  <2>1. QED
    BY <1>1, <1>2, CreationReport, ReportKept
<1>4. /\ c \in States
      /\ c.elapsed = at
      /\ c.fleet = s.fleet
      /\ c.nextAddress = ord
      /\ Kept(c)
  <2> HIDE DEF b
  <2>1. QED
    BY <1>1, <1>3, CreationReport, ReportKept
<1>5. craft \in Aircraft /\ craft.ord = ord
  BY <1>1, NewAircraftEffect
<1> DEFINE fleet == Append(s.fleet, craft)
           next  == ord + 1
<1>6. t = [c EXCEPT !.nextAddress = next, !.fleet = fleet]
  <2>1. c = Record(Record(a, ord, Families[2], FALSE, at), ord, Families[3], FALSE, at)
    BY <1>2, <1>3, Zenon
  <2>2. t = [c EXCEPT !.nextAddress = c.nextAddress + 1, !.fleet = Append(c.fleet, craft)]
    BY <2>1, Zenon DEF AddAircraft
  <2>3. QED
    BY <1>4, <2>2
<1>7. /\ fleet \in Seq(Aircraft)
      /\ Len(fleet) = Len(s.fleet) + 1
      /\ fleet[Len(s.fleet) + 1] = craft
      /\ \A i \in 1 .. Len(s.fleet) : fleet[i] = s.fleet[i]
  <2> HIDE DEF craft
  <2>1. QED
    BY <1>1, <1>5, AppendProperties
<1> HIDE DEF c, fleet, next
<1>8. /\ t \in States
      /\ t.active = c.active /\ t.lastSequence = c.lastSequence /\ t.history = c.history
      /\ t.reserved = c.reserved /\ t.nextStation = c.nextStation /\ t.elapsed = c.elapsed
      /\ t.nextAddress = next /\ t.fleet = fleet
  <2>1. next \in Nat
    BY <1>1 DEF next
  <2>2. QED
    BY <1>4, <1>6, <1>7, <2>1 DEF States
<1>9. Addressed(t)
  <2>1. /\ \A i \in 1 .. Len(s.fleet) : s.fleet[i].ord < ord
        /\ \A i, j \in 1 .. Len(s.fleet) : i < j => s.fleet[i].ord < s.fleet[j].ord
    BY <1>1 DEF Kept, Addressed
  <2>2. DOMAIN t.fleet = 1 .. Len(s.fleet) + 1 /\ Len(s.fleet) \in Nat
    BY <1>1, <1>7, <1>8
  <2>3. \A i \in 1 .. Len(s.fleet) : fleet[i].ord < ord /\ fleet[i].ord \in Nat
    <3>1. \A i \in 1 .. Len(s.fleet) : s.fleet[i] \in Aircraft
      BY <1>1
    <3>2. \A i \in 1 .. Len(s.fleet) : s.fleet[i].ord \in Nat
      BY <3>1, EngineLimits DEF Aircraft
    <3>3. QED
      BY <1>7, <2>1, <3>2
  <2>4. fleet[Len(s.fleet) + 1].ord = ord
    BY <1>5, <1>7
  <2>5. ASSUME NEW i \in DOMAIN t.fleet PROVE t.fleet[i].ord < t.nextAddress
    <3> HIDE DEF ord
    <3>1. next = ord + 1
      BY DEF next
    <3>2. CASE i = Len(s.fleet) + 1
      <4>1. t.fleet[i].ord = ord
        BY <1>8, <2>4, <3>2
      <4>2. QED
        BY <1>1, <1>8, <3>1, <4>1
    <3>3. CASE i # Len(s.fleet) + 1
      <4>1. i \in 1 .. Len(s.fleet)
        BY <2>2, <3>3
      <4>2. t.fleet[i].ord < ord /\ t.fleet[i].ord \in Nat
        BY <1>8, <2>3, <4>1
      <4>3. QED
        BY <1>1, <1>8, <3>1, <4>2
    <3>4. QED
      BY <3>2, <3>3
  <2>6. ASSUME NEW i \in DOMAIN t.fleet, NEW j \in DOMAIN t.fleet, i < j
        PROVE  t.fleet[i].ord < t.fleet[j].ord
    <3>1. i \in 1 .. Len(s.fleet)
      BY <2>2, <2>6
    <3>2. CASE j = Len(s.fleet) + 1
      BY <1>8, <2>3, <2>4, <3>1, <3>2
    <3>3. CASE j # Len(s.fleet) + 1
      <4>1. j \in 1 .. Len(s.fleet)
        BY <2>2, <3>3
      <4>2. QED
        BY <1>7, <1>8, <2>1, <2>6, <3>1, <4>1
    <3>4. QED
      BY <3>2, <3>3
  <2>7. QED
    BY <2>5, <2>6 DEF Addressed
<1>10. QED
  <2>1. t.elapsed >= c.elapsed
    BY <1>1, <1>4, <1>8
  <2>2. QED
    BY <1>4, <1>8, <1>9, <2>1, QuietKeeps

\* runTo's end: the clock catches up with what was emitted.
LEMMA ArriveKept ==
    ASSUME NEW s \in States, Kept(s), NEW now, NEW rest, now >= s.elapsed,
           NEW t, Arrived(s, now, rest, t)
    PROVE  Kept(t)
<1>1. Addressed(t)
  BY DEF Kept, Addressed, Arrived
<1>2. QED
  BY <1>1, QuietKeeps DEF Arrived, SameRegistry

\* registry.update: the next revision starts with nothing received under it.
LEMMA ContinuesListening ==
    ASSUME NEW st \in Stations, NEW sent, Listened(st, sent), NEW new, Continues(st, new)
    PROVE  Listened(new, sent)
<1>1. st.rev \in Nat /\ st.ring \in Seq(Heard)
  BY DEF Stations
<1>2. \A i \in DOMAIN st.ring : st.ring[i].rev \in Nat
  BY <1>1, RingTypes
<1>3. \A i \in DOMAIN st.ring :
         st.ring[i].rev <= new.rev /\ (st.ring[i].rev = new.rev => st.ring[i].cfg = new.cfg)
  <2>1. \A i \in DOMAIN st.ring :
           st.ring[i].rev <= st.rev /\ (st.ring[i].rev = st.rev => st.ring[i].cfg = st.cfg)
    BY DEF Listened
  <2>2. QED
    BY <1>1, <1>2, <2>1 DEF Continues
<1>4. new.ring = st.ring /\ new.last = st.last /\ new.created = st.created
  BY DEF Continues
<1>5. QED
  BY <1>3, <1>4 DEF Listened

\* A mutation that emits nothing keeps what stations received and who is who.
LEMMA MutatedKept ==
    ASSUME NEW s \in States, Kept(s), NEW t, Mutated(s, t)
    PROVE  Kept(t)
<1>1. SameLog(s, t) /\ Survivors(s, t)
  BY DEF Mutated
<1>2. PICK from : Restationed(s, t, from)
  BY DEF Mutated
<1>3. /\ t.elapsed = s.elapsed /\ t.lastSequence = s.lastSequence /\ t.history = s.history
      /\ s.reserved \subseteq t.reserved /\ s.nextStation <= t.nextStation
  BY <1>1, <1>2 DEF SameLog, Restationed
<1>4. /\ s.nextStation \in Nat /\ t.nextStation \in Nat /\ s.elapsed \in Nat
      /\ Len(s.active) \in Nat /\ DOMAIN s.active = 1 .. Len(s.active)
      /\ s.active \in Seq(Stations)
  BY <1>1 DEF SameLog, States
<1>5. \A i \in DOMAIN s.active :
         /\ s.active[i] \in Stations /\ s.active[i].ordinal \in Nat /\ s.active[i].created \in Nat
         /\ s.active[i].id \in s.reserved
         /\ s.active[i].ordinal < s.nextStation
         /\ s.active[i].created <= s.elapsed
         /\ Listened(s.active[i], s.lastSequence)
  <2>1. \A i \in DOMAIN s.active : s.active[i] \in Stations
    BY <1>4
  <2>2. QED
    BY <2>1 DEF Stations, Kept, Registered
<1>6. ASSUME NEW i \in DOMAIN t.active
      PROVE  \/ from[i] \in DOMAIN s.active /\ Continues(s.active[from[i]], t.active[i])
             \/ from[i] = Len(s.active) + 1 /\ Fresh(s, t, t.active[i])
  BY <1>2 DEF Restationed
<1>7. ASSUME NEW i \in DOMAIN t.active PROVE Listened(t.active[i], t.lastSequence)
  <2>1. CASE Fresh(s, t, t.active[i])
    <3>1. Len(<<>>) = 0 /\ DOMAIN <<>> = {}
      OBVIOUS
    <3>2. Least(0, ReceptionHistoryLimit) = 0
      BY EngineLimits DEF Least
    <3>3. QED
      BY <2>1, <3>1, <3>2 DEF Fresh, Listened
  <2>2. QED
    BY <1>3, <1>5, <1>6, <2>1, ContinuesListening
<1>8. ASSUME NEW i \in DOMAIN t.active
      PROVE  /\ t.active[i].id \in t.reserved
             /\ t.active[i].ordinal < t.nextStation
             /\ t.active[i].created <= t.elapsed
  <2>1. CASE Fresh(s, t, t.active[i])
    BY <1>3, <1>4, <2>1 DEF Fresh
  <2>2. CASE from[i] \in DOMAIN s.active /\ Continues(s.active[from[i]], t.active[i])
    BY <1>3, <1>4, <1>5, <2>2 DEF Continues
  <2>3. QED
    BY <1>6, <2>1, <2>2
<1>9. ASSUME NEW i \in DOMAIN t.active, NEW j \in DOMAIN t.active, i < j
      PROVE  t.active[i].id # t.active[j].id /\ t.active[i].ordinal < t.active[j].ordinal
  <2>1. PICK a : a = from[i]
    OBVIOUS
  <2>2. PICK b : b = from[j]
    OBVIOUS
  <2>3. a < b /\ a \in 1 .. Len(s.active) + 1 /\ b \in 1 .. Len(s.active) + 1
    BY <1>2, <1>9, <2>1, <2>2 DEF Restationed
  <2>4. a \in DOMAIN s.active /\ a # Len(s.active) + 1
    BY <1>4, <2>3
  <2>5. Continues(s.active[a], t.active[i])
    BY <1>6, <2>1, <2>4
  <2>6. CASE Fresh(s, t, t.active[j])
    BY <1>5, <2>4, <2>5, <2>6 DEF Fresh, Continues
  <2>7. CASE b \in DOMAIN s.active /\ Continues(s.active[b], t.active[j])
    <3>1. s.active[a].id # s.active[b].id /\ s.active[a].ordinal < s.active[b].ordinal
      BY <2>3, <2>4, <2>7 DEF Kept, Registered
    <3>2. QED
      BY <2>5, <2>7, <3>1 DEF Continues
  <2>8. QED
    BY <1>6, <2>2, <2>6, <2>7
<1>10. Registered(t)
  BY <1>8, <1>9 DEF Registered
<1>11. Addressed(t)
  BY <1>1 DEF Kept, Addressed, SameLog, Survivors
<1>12. ASSUME NEW f \in Copies(t) PROVE f \in Copies(s)
  <2>1. ASSUME NEW n \in DOMAIN t.active, NEW i \in DOMAIN t.active[n].ring,
               f = t.active[n].ring[i].frame
        PROVE  f \in Copies(s)
    <3>1. DOMAIN <<>> = {}
      OBVIOUS
    <3>2. PICK m : m = from[n]
      OBVIOUS
    <3>3. m \in DOMAIN s.active /\ t.active[n].ring = s.active[m].ring
      BY <1>6, <3>1, <3>2 DEF Continues, Fresh
    <3>4. QED
      BY <2>1, <3>3, CopyOrigin
  <2>2. ASSUME NEW i \in DOMAIN t.history, f = t.history[i] PROVE f \in Copies(s)
    BY <1>3, <2>2, CopyOrigin
  <2>3. \/ \E n \in DOMAIN t.active : \E i \in DOMAIN t.active[n].ring :
              f = t.active[n].ring[i].frame
        \/ \E i \in DOMAIN t.history : f = t.history[i]
    BY CopyOrigin
  <2>4. QED
    BY <2>1, <2>2, <2>3
<1>13. CopiesAgree(t)
  BY <1>12 DEF Kept, CopiesAgree
<1>14. QED
  BY <1>7, <1>10, <1>11, <1>13 DEF Kept

\* New: nobody has heard anything and nobody is there.
LEMMA InitKept == Init => Kept(state) /\ Kept(staged)
<1> SUFFICES ASSUME Init PROVE Kept(state) /\ Kept(staged)
  OBVIOUS
<1>1. /\ state.active = <<>> /\ state.history = <<>> /\ state.fleet = <<>>
      /\ staged = state
  BY DEF Init, Empty
<1>2. DOMAIN <<>> = {}
  OBVIOUS
<1>3. Copies(state) = {}
  BY <1>1, <1>2, CopyOrigin
<1>4. CopiesAgree(state)
  BY <1>3 DEF CopiesAgree
<1>5. QED
  BY <1>1, <1>2, <1>4 DEF Kept, Registered, Addressed

\* runTo's loop and addAircraft's loop: the clone keeps it.
LEMMA CloneKept ==
    ASSUME LogInv, Kept(staged), Fire \/ Create
    PROVE  Kept(staged)' /\ state' = state
<1>1. TypeOK /\ Cloned /\ staged \in States
  BY DEF LogInv, TypeOK
<1>2. TransmissionsSound(staged, Horizon) /\ Scheduled(staged, Horizon)
  BY <1>1 DEF Cloned, ClonedLogInOrder
<1>3. CASE Fire
  <2>1. Horizon = target.elapsed /\ target.elapsed \in Nat /\ state' = state
    BY <1>1, <1>3 DEF Fire, Horizon, TypeOK
  <2>2. PICK e \in Due(staged, target.elapsed) :
           /\ CanReschedule(Reschedule(staged.fleet[e[1]], e[2]))
           /\ staged' = Emit(staged, e)
    BY <1>3 DEF Fire
  <2> DEFINE u == staged'
  <2>3. u = Emit(staged, e)
    BY <2>2
  <2> HIDE DEF u
  <2>4. Kept(u)
    BY <1>1, <1>2, <2>1, <2>2, <2>3, EmitKept
  <2>5. QED
    BY <2>1, <2>4 DEF u
<1>4. CASE Create
  <2>1. Horizon = staged.elapsed /\ state' = state
    BY <1>4 DEF Create, Horizon
  <2>2. staged.nextAddress \in 1 .. MaxAddress
    <3>1. staged.nextAddress \in Nat
      BY <1>1 DEF States
    <3>2. QED
      BY <1>1, <1>4, <3>1, EngineLimits DEF Cloned, Allocated, Create
  <2> DEFINE u == AddAircraft(staged)
  <2>3. u = AddAircraft(staged)
    OBVIOUS
  <2>4. staged' = u
    BY <1>4 DEF Create
  <2> HIDE DEF u
  <2>5. Kept(u)
    BY <1>1, <1>2, <2>1, <2>2, <2>3, AddAircraftKept
  <2>6. QED
    BY <2>1, <2>4, <2>5
<1>5. QED
  BY <1>3, <1>4

\* What is committed becomes the clone too.
LEMMA CommitKept ==
    ASSUME NEW u, Kept(u), Commit(u)
    PROVE  Kept(state)' /\ Kept(staged)'
<1>1. state' = u /\ staged' = u
  BY DEF Commit
<1>2. QED
  BY <1>1

\* Every step of the engine keeps what stations received and who is who.
LEMMA NextKeepsKept ==
    IInv /\ [Next]_vars => Kept(state)' /\ Kept(staged)'
<1> SUFFICES ASSUME IInv, [Next]_vars PROVE Kept(state)' /\ Kept(staged)'
  OBVIOUS
<1>1. /\ LogInv /\ TypeOK /\ Kept(state) /\ Kept(staged)
      /\ state \in States /\ staged \in States
  BY DEF IInv, LogInv, TypeOK
<1>2. CASE UNCHANGED vars \/ Begins
  BY <1>1, <1>2, BeginsQuietly DEF vars
<1>3. CASE Fire \/ Create
  BY <1>1, <1>3, CloneKept
<1>4. CASE CommitRun
  <2>1. PICK u : Commit(u) /\ Arrived(staged, target.elapsed, target.carry, u)
    BY <1>1, <1>4, CommitRunArrives
  <2>2. target.elapsed \in Nat /\ staged.elapsed \in Nat /\ staged.elapsed <= target.elapsed
    BY <1>1, <1>4 DEF CommitRun, LogInv, TypeOK, States, Cloned, Horizon
  <2>3. target.elapsed >= staged.elapsed
    BY <2>2
  <2>4. Kept(u)
    BY <1>1, <2>1, <2>3, ArriveKept
  <2>5. QED
    BY <2>1, <2>4, CommitKept
<1>5. CASE CommitGrow \/ Abort
  BY <1>1, <1>5, CommitKept DEF CommitGrow, Abort
<1>6. CASE Mutates
  BY <1>1, <1>6, MutatedKept, CommitKept DEF Mutates, AtOnce
<1>7. QED
  BY <1>1, <1>2, <1>3, <1>4, <1>5, <1>6, StepCases

-------------------------------------------------------------------------------
(***************************************************************************)
(* Induction.  The library's induction theorem takes a predicate, which    *)
(* the provers cannot be given; a set of numbers they can.                 *)
(***************************************************************************)

\* Every non-empty set of natural numbers has a least element.
LEMMA LeastNumber ==
    ASSUME NEW S, S \subseteq Nat, S # {}
    PROVE  \E n \in S : \A m \in S : n <= m
<1>1. PICK n \in S : \A m \in S : ~(<<m, n>> \in OpToRel(<, Nat))
  BY NatLessThanWellFounded, WFMin, Zenon
<1>2. \A m \in S : m \in Nat /\ n \in Nat /\ ~(m < n)
  BY <1>1, Zenon DEF OpToRel
<1>3. \A m, k \in Nat : ~(m < k) => k <= m
  OBVIOUS
<1>4. QED
  BY <1>1, <1>2, <1>3, Zenon

\* A set of numbers that holds 0 and the successor of each of its elements
\* holds every number.
LEMMA EveryNumber ==
    ASSUME NEW S, 0 \in S, \A n \in Nat : n \in S => n + 1 \in S
    PROVE  Nat \subseteq S
<1> DEFINE Missing == {n \in Nat : n \notin S}
<1>1. SUFFICES ASSUME Missing # {}
               PROVE  FALSE
  OBVIOUS
<1>2. Missing \subseteq Nat
  OBVIOUS
<1>3. PICK n \in Missing : \A m \in Missing : n <= m
  BY <1>1, <1>2, LeastNumber
<1>4. n # 0 /\ n - 1 \in Nat
  BY <1>3
<1>5. n - 1 \in S
  BY <1>3, <1>4
<1>6. (n - 1) + 1 \in S
  BY <1>4, <1>5
<1>7. QED
  BY <1>3, <1>6

-------------------------------------------------------------------------------
(***************************************************************************)
(* The loops of runTo and addAircraft.  A recursive function is a choice,  *)
(* so that one exists is what has to be proved: its beginnings exist, and  *)
(* agree with each other.                                                  *)
(***************************************************************************)

\* One iteration of runTo, or none when nothing is due.
Iterate(t, limit) == IF Due(t, limit) = {} THEN t ELSE Emit(t, NextEvent(t, limit))

\* g is the course of runTo's loop up to iteration n.
RunsTo(g, s, limit, n) ==
    \A i \in 0 .. n : g[i] = IF i = 0 THEN s ELSE Iterate(g[i - 1], limit)

LEMMA RunsExist ==
    ASSUME NEW s, NEW limit
    PROVE  \A n \in Nat : \E g : RunsTo(g, s, limit, n)
<1> DEFINE S == {n \in Nat : \E g : RunsTo(g, s, limit, n)}
<1>1. 0 \in S
  <2>1. RunsTo([i \in 0 .. 0 |-> s], s, limit, 0)
    BY DEF RunsTo
  <2>2. QED
    BY <2>1
<1>2. ASSUME NEW n \in Nat, n \in S
      PROVE  n + 1 \in S
  <2>1. PICK g : RunsTo(g, s, limit, n)
    BY <1>2
  <2> DEFINE h == [i \in 0 .. n + 1 |-> IF i <= n THEN g[i] ELSE Iterate(g[n], limit)]
  <2>2. RunsTo(h, s, limit, n + 1)
    BY <2>1 DEF RunsTo
  <2>3. QED
    BY <2>2
<1> HIDE DEF S
<1>3. Nat \subseteq S
  BY <1>1, <1>2, EveryNumber
<1>4. QED
  BY <1>3 DEF S

LEMMA RunsAgree ==
    ASSUME NEW s, NEW limit, NEW n \in Nat, NEW m \in Nat, n <= m,
           NEW g, NEW h, RunsTo(g, s, limit, n), RunsTo(h, s, limit, m)
    PROVE  g[n] = h[n]
<1> DEFINE S == {i \in Nat : i <= n => g[i] = h[i]}
<1>1. 0 \in S
  BY DEF RunsTo
<1>2. ASSUME NEW i \in Nat, i \in S
      PROVE  i + 1 \in S
  BY <1>2 DEF RunsTo
<1> HIDE DEF S
<1>3. Nat \subseteq S
  BY <1>1, <1>2, EveryNumber
<1>4. QED
  BY <1>3 DEF S

\* f is the whole course of runTo's loop.
Runs(f, s, limit) == f = [n \in Nat |-> IF n = 0 THEN s ELSE Iterate(f[n - 1], limit)]

LEMMA EmissionsExist ==
    ASSUME NEW s, NEW limit
    PROVE  \E f : Runs(f, s, limit)
<1> DEFINE G(n) == CHOOSE g : RunsTo(g, s, limit, n)
           f == [n \in Nat |-> G(n)[n]]
<1>1. \A n \in Nat : RunsTo(G(n), s, limit, n)
  BY RunsExist, Zenon
<1> HIDE DEF G
<1>2. \A n \in Nat \ {0} : G(n)[n - 1] = G(n - 1)[n - 1]
  BY <1>1, RunsAgree
<1>3. G(0)[0] = s
  BY <1>1 DEF RunsTo
<1>4. \A n \in Nat \ {0} : G(n)[n] = Iterate(G(n)[n - 1], limit)
  BY <1>1 DEF RunsTo
<1>5. Runs(f, s, limit)
  BY <1>2, <1>3, <1>4 DEF Runs
<1> HIDE DEF f
<1>6. QED
  BY <1>5, Zenon

\* runTo: the loop starts from the clone and iterates.
LEMMA EmissionsIterate ==
    ASSUME NEW s, NEW limit
    PROVE  /\ Emissions(s, limit)[0] = s
           /\ \A n \in Nat : Emissions(s, limit)[n + 1] = Iterate(Emissions(s, limit)[n], limit)
<1> DEFINE e == Emissions(s, limit)
<1>1. PICK f : Runs(f, s, limit)
  BY EmissionsExist, Zenon
<1>2. Runs(e, s, limit)
  BY <1>1, Zenon DEF Emissions, Iterate, Runs
<1> HIDE DEF e
<1>3. e[0] = s /\ \A n \in Nat : e[n + 1] = Iterate(e[n], limit)
  BY <1>2 DEF Runs
<1>4. QED
  BY <1>3 DEF e

\* g is the course of addAircraft's loop up to aircraft n.
AddsTo(g, s, n) == \A i \in 0 .. n : g[i] = IF i = 0 THEN s ELSE AddAircraft(g[i - 1])

LEMMA AddsExist ==
    ASSUME NEW s
    PROVE  \A n \in Nat : \E g : AddsTo(g, s, n)
<1> DEFINE S == {n \in Nat : \E g : AddsTo(g, s, n)}
<1>1. 0 \in S
  <2>1. AddsTo([i \in 0 .. 0 |-> s], s, 0)
    BY DEF AddsTo
  <2>2. QED
    BY <2>1
<1>2. ASSUME NEW n \in Nat, n \in S
      PROVE  n + 1 \in S
  <2>1. PICK g : AddsTo(g, s, n)
    BY <1>2
  <2> DEFINE h == [i \in 0 .. n + 1 |-> IF i <= n THEN g[i] ELSE AddAircraft(g[n])]
  <2>2. AddsTo(h, s, n + 1)
    BY <2>1 DEF AddsTo
  <2>3. QED
    BY <2>2
<1> HIDE DEF S
<1>3. Nat \subseteq S
  BY <1>1, <1>2, EveryNumber
<1>4. QED
  BY <1>3 DEF S

LEMMA AddsAgree ==
    ASSUME NEW s, NEW n \in Nat, NEW m \in Nat, n <= m,
           NEW g, NEW h, AddsTo(g, s, n), AddsTo(h, s, m)
    PROVE  g[n] = h[n]
<1> DEFINE S == {i \in Nat : i <= n => g[i] = h[i]}
<1>1. 0 \in S
  BY DEF AddsTo
<1>2. ASSUME NEW i \in Nat, i \in S
      PROVE  i + 1 \in S
  BY <1>2 DEF AddsTo
<1> HIDE DEF S
<1>3. Nat \subseteq S
  BY <1>1, <1>2, EveryNumber
<1>4. QED
  BY <1>3 DEF S

\* f is the whole course of addAircraft's loop.
Adds(f, s) == f = [n \in Nat |-> IF n = 0 THEN s ELSE AddAircraft(f[n - 1])]

LEMMA AdditionsExist ==
    ASSUME NEW s
    PROVE  \E f : Adds(f, s)
<1> DEFINE G(n) == CHOOSE g : AddsTo(g, s, n)
           f == [n \in Nat |-> G(n)[n]]
<1>1. \A n \in Nat : AddsTo(G(n), s, n)
  BY AddsExist, Zenon
<1> HIDE DEF G
<1>2. \A n \in Nat \ {0} : G(n)[n - 1] = G(n - 1)[n - 1]
  BY <1>1, AddsAgree
<1>3. G(0)[0] = s
  BY <1>1 DEF AddsTo
<1>4. \A n \in Nat \ {0} : G(n)[n] = AddAircraft(G(n)[n - 1])
  BY <1>1 DEF AddsTo
<1>5. Adds(f, s)
  BY <1>2, <1>3, <1>4 DEF Adds
<1> HIDE DEF f
<1>6. QED
  BY <1>5, Zenon

\* addAircraft: the loop starts from the clone and adds one aircraft at a time.
LEMMA AdditionsIterate ==
    ASSUME NEW s
    PROVE  /\ Additions(s)[0] = s
           /\ \A n \in Nat : Additions(s)[n + 1] = AddAircraft(Additions(s)[n])
<1> DEFINE e == Additions(s)
<1>1. PICK f : Adds(f, s)
  BY AdditionsExist, Zenon
<1>2. Adds(e, s)
  BY <1>1, Zenon DEF Additions, Adds
<1> HIDE DEF e
<1>3. e[0] = s /\ \A n \in Nat : e[n + 1] = AddAircraft(e[n])
  BY <1>2 DEF Adds
<1>4. QED
  BY <1>3 DEF e

-------------------------------------------------------------------------------
(***************************************************************************)
(* What the mutation under way has done so far is the beginning of the whole*)
(* mutation: one iteration more, and the last one.                         *)
(***************************************************************************)

\* nextEvent: deadline, creation and family order leave one event to be next.
LEMMA OneNextEvent ==
    ASSUME NEW s \in States, NEW limit \in Nat, NEW e \in Due(s, limit), IsNext(s, limit, e)
    PROVE  NextEvent(s, limit) = e
<1>1. ASSUME NEW f \in Due(s, limit), IsNext(s, limit, f), f # e
      PROVE  FALSE
  <2>1. Precedes(s, e, f) /\ Precedes(s, f, e)
    BY <1>1 DEF IsNext
  <2>2. s.fleet[e[1]].due[e[2]] \in Nat /\ s.fleet[f[1]].due[f[2]] \in Nat
    BY DueFacts
  <2>3. e[1] \in Nat /\ f[1] \in Nat /\ e[2] \in Nat /\ f[2] \in Nat
    <3>1. s.fleet \in Seq(Aircraft)
      BY DEF States
    <3>2. DOMAIN s.fleet = 1 .. Len(s.fleet) /\ Len(s.fleet) \in Nat
      BY <3>1
    <3>3. /\ e[1] \in DOMAIN s.fleet /\ e[2] \in DOMAIN Families
          /\ f[1] \in DOMAIN s.fleet /\ f[2] \in DOMAIN Families
      BY DueFacts
    <3>4. QED
      BY <3>2, <3>3, ThreeFamilies
  <2>4. QED
    BY <2>1, <2>2, <2>3 DEF Precedes
<1>2. NextEvent(s, limit) \in Due(s, limit) /\ IsNext(s, limit, NextEvent(s, limit))
  BY Zenon DEF NextEvent
<1>3. QED
  BY <1>1, <1>2

\* What a report changes and what it leaves alone, the log and the rings apart.
Reported(s, t) ==
    /\ t \in States
    /\ t.lastSequence = s.lastSequence + 1
    /\ t.fleet = s.fleet
    /\ t.elapsed = s.elapsed
    /\ t.carry = s.carry
    /\ t.speed = s.speed
    /\ t.nextAddress = s.nextAddress
    /\ t.reserved = s.reserved
    /\ t.nextStation = s.nextStation

\* record: it reports.
LEMMA RecordReports ==
    ASSUME NEW s \in States, NEW ord \in Nat, NEW kind \in Kinds, NEW odd \in BOOLEAN,
           NEW at \in Nat
    PROVE  Reported(s, Record(s, ord, kind, odd, at))
<1> DEFINE t == Record(s, ord, kind, odd, at)
           n == s.lastSequence + 1
           h == Retain(s.history, Transmission(s, ord, kind, odd, at), HistoryLimit)
           a == [i \in DOMAIN s.active |->
                    Receive(s.active[i], Transmission(s, ord, kind, odd, at))]
<1>1. t = [s EXCEPT !.lastSequence = n, !.history = h, !.active = a]
  BY DEF Record
<1>2. t = Record(s, ord, kind, odd, at)
  OBVIOUS
<1> HIDE DEF t
<1>3. /\ t \in States
      /\ t.lastSequence = s.lastSequence + 1
      /\ t.fleet = s.fleet
      /\ t.elapsed = s.elapsed
      /\ t.nextAddress = s.nextAddress
      /\ t.reserved = s.reserved
      /\ t.nextStation = s.nextStation
  BY <1>2, RecordEffect
<1> HIDE DEF n, h, a
<1>4. t.carry = s.carry /\ t.speed = s.speed
  BY <1>1 DEF States
<1>5. Reported(s, t)
  BY <1>3, <1>4 DEF Reported
<1>6. QED
  BY <1>5 DEF t

\* What one iteration of runTo records, and what it leaves alone.
Fired(s, e, t) ==
    LET craft == s.fleet[e[1]]
        kind  == Families[e[2]]
        odd   == kind = "position" /\ craft.odd
        sent  == Record(s, craft.ord, kind, odd, craft.due[e[2]])
        fleet == [s.fleet EXCEPT ![e[1]] = Reschedule(craft, e[2])]
    IN  /\ craft \in Aircraft /\ craft.ord \in Nat /\ craft.due[e[2]] \in Nat
        /\ kind \in Kinds /\ odd \in BOOLEAN
        /\ craft.draws[e[2]] \in 0 .. MaxDuration
        /\ sent \in States
        /\ t = [sent EXCEPT !.fleet = fleet]
        /\ t \in States
        /\ t.fleet = fleet
        /\ t.lastSequence = s.lastSequence + 1
        /\ t.elapsed = s.elapsed
        /\ t.carry = s.carry
        /\ t.speed = s.speed
        /\ t.nextAddress = s.nextAddress
        /\ t.reserved = s.reserved
        /\ t.nextStation = s.nextStation
        /\ t.history = sent.history
        /\ t.active = sent.active

\* runTo: one iteration.
LEMMA EmitFires ==
    ASSUME NEW s \in States, NEW limit \in Nat, NEW e \in Due(s, limit),
           s.fleet[e[1]].draws[e[2]] \in 0 .. MaxDuration, NEW t, t = Emit(s, e)
    PROVE  Fired(s, e, t)
<1> DEFINE craft == s.fleet[e[1]]
           kind  == Families[e[2]]
           odd   == kind = "position" /\ craft.odd
           sent  == Record(s, craft.ord, kind, odd, craft.due[e[2]])
           fleet == [s.fleet EXCEPT ![e[1]] = Reschedule(craft, e[2])]
<1>1. /\ e[1] \in DOMAIN s.fleet
      /\ e[2] \in DOMAIN Families
      /\ craft \in Aircraft
      /\ craft.due[e[2]] \in Nat
  BY DueFacts
<1>2. kind \in Kinds
  BY <1>1 DEF Kinds
<1>3. craft.ord \in Nat /\ craft.odd \in BOOLEAN
  BY <1>1, EngineLimits DEF Aircraft
<1>4. odd \in BOOLEAN
  OBVIOUS
<1>5. craft.draws[e[2]] \in 0 .. MaxDuration
  OBVIOUS
<1>6. /\ sent \in States
      /\ sent.lastSequence = s.lastSequence + 1
      /\ sent.fleet = s.fleet
      /\ sent.elapsed = s.elapsed
      /\ sent.carry = s.carry
      /\ sent.speed = s.speed
      /\ sent.nextAddress = s.nextAddress
      /\ sent.reserved = s.reserved
      /\ sent.nextStation = s.nextStation
  <2> HIDE DEF craft, kind, odd
  <2>1. Reported(s, sent)
    BY <1>1, <1>2, <1>3, <1>4, RecordReports
  <2>2. QED
    BY <2>1 DEF Reported
<1>7. Reschedule(craft, e[2]) \in Aircraft
  BY <1>1, <1>5, RescheduleEffect
<1>8. s.fleet \in Seq(Aircraft)
  BY DEF States
<1>9. fleet \in Seq(Aircraft)
  BY <1>1, <1>7, <1>8
<1>10. t = [sent EXCEPT !.fleet = [sent.fleet EXCEPT ![e[1]] = Reschedule(craft, e[2])]]
  BY Zenon DEF Emit
<1>11. t = [sent EXCEPT !.fleet = fleet]
  BY <1>6, <1>10, Zenon
<1>12. /\ t \in States
       /\ t.fleet = fleet
       /\ t.lastSequence = sent.lastSequence
       /\ t.elapsed = sent.elapsed
       /\ t.carry = sent.carry
       /\ t.speed = sent.speed
       /\ t.nextAddress = sent.nextAddress
       /\ t.reserved = sent.reserved
       /\ t.nextStation = sent.nextStation
       /\ t.history = sent.history
       /\ t.active = sent.active
  <2> HIDE DEF sent, fleet
  <2>1. QED
    BY <1>6, <1>9, <1>11 DEF States
<1> HIDE DEF craft, sent, fleet
<1>13. QED
  BY <1>1, <1>2, <1>3, <1>4, <1>5, <1>6, <1>11, <1>12, Zenon DEF craft, sent, fleet, Fired

\* runTo: one transmission per iteration.
LEMMA EmitCounts ==
    ASSUME NEW s \in States, NEW limit \in Nat, NEW e \in Due(s, limit), Scheduled(s, limit),
           NEW t, t = Emit(s, e)
    PROVE  t.lastSequence = s.lastSequence + 1
<1>1. e[1] \in DOMAIN s.fleet /\ e[2] \in DOMAIN Families /\ s.fleet[e[1]].due[e[2]] \in Nat
  BY DueFacts
<1>2. s.fleet[e[1]].draws[e[2]] \in 0 .. MaxDuration
  BY <1>1, EngineLimits DEF Scheduled
<1>3. Fired(s, e, t)
  BY <1>2, EmitFires
<1>4. QED
  BY <1>3, Zenon DEF Fired

\* addAircraft for one aircraft: three reports, one address, and one aircraft at
\* the end of the fleet.
Created(s, t) ==
    LET ord == s.nextAddress
        at  == s.elapsed
        a   == Record(s, ord, Families[1], FALSE, at)
        b   == Record(a, ord, Families[2], FALSE, at)
        c   == Record(b, ord, Families[3], FALSE, at)
    IN  /\ a \in States /\ b \in States /\ c \in States
        /\ ord \in Nat /\ at \in Nat
        /\ NewAircraft(ord, at) \in Aircraft
        /\ t = [c EXCEPT !.nextAddress = ord + 1,
                         !.fleet = Append(s.fleet, NewAircraft(ord, at))]
        /\ t \in States
        /\ t.nextAddress = ord + 1
        /\ t.fleet = Append(s.fleet, NewAircraft(ord, at))
        /\ Len(t.fleet) = Len(s.fleet) + 1
        /\ t.lastSequence = s.lastSequence + 3
        /\ t.elapsed = at
        /\ t.carry = s.carry
        /\ t.speed = s.speed
        /\ t.reserved = s.reserved
        /\ t.nextStation = s.nextStation
        /\ t.history = c.history
        /\ t.active = c.active

LEMMA AddAircraftCreates ==
    ASSUME NEW s \in States, s.nextAddress \in 1 .. MaxAddress, NEW t, t = AddAircraft(s)
    PROVE  Created(s, t)
<1> DEFINE ord == s.nextAddress
           at  == s.elapsed
           craft == NewAircraft(ord, at)
           a   == Record(s, ord, Families[1], FALSE, at)
           b   == Record(a, ord, Families[2], FALSE, at)
           c   == Record(b, ord, Families[3], FALSE, at)
           next  == ord + 1
           fleet == Append(s.fleet, craft)
<1>1. /\ ord \in 1 .. MaxAddress /\ ord \in Nat /\ at \in Nat /\ s.fleet \in Seq(Aircraft)
      /\ s.lastSequence \in Nat /\ next \in Nat /\ FALSE \in BOOLEAN
      /\ Families[1] \in Kinds /\ Families[2] \in Kinds /\ Families[3] \in Kinds
  BY ThreeFamilies, EngineLimits DEF States, Kinds
<1>2. craft \in Aircraft
  BY <1>1, NewAircraftEffect
<1>3. fleet \in Seq(Aircraft) /\ Len(fleet) = Len(s.fleet) + 1
  BY <1>1, <1>2, AppendProperties
<1> HIDE DEF ord, at, craft, next, fleet
<1>4. Reported(s, a)
  BY <1>1, RecordReports
<1> HIDE DEF a
<1>5. Reported(a, b)
  <2>1. a \in States
    BY <1>4 DEF Reported
  <2>2. QED
    BY <1>1, <2>1, RecordReports
<1> HIDE DEF b
<1>6. Reported(b, c)
  <2>1. b \in States
    BY <1>5 DEF Reported
  <2>2. QED
    BY <1>1, <2>1, RecordReports
<1>7. a \in States /\ b \in States /\ c \in States
  BY <1>4, <1>5, <1>6 DEF Reported
<1>8. t = [c EXCEPT !.nextAddress = next, !.fleet = fleet]
  <2>1. t = [c EXCEPT !.nextAddress = c.nextAddress + 1, !.fleet = Append(c.fleet, craft)]
    BY Zenon DEF AddAircraft, ord, at, craft, a, b
  <2>2. c.nextAddress + 1 = next /\ Append(c.fleet, craft) = fleet
    <3> HIDE DEF c
    <3>1. QED
      BY <1>4, <1>5, <1>6 DEF next, fleet, ord, Reported
  <2> HIDE DEF c
  <2>3. QED
    BY <2>1, <2>2
<1> HIDE DEF c
<1>9. /\ t \in States /\ t.nextAddress = next /\ t.fleet = fleet
      /\ t.lastSequence = c.lastSequence /\ t.elapsed = c.elapsed /\ t.carry = c.carry
      /\ t.speed = c.speed /\ t.reserved = c.reserved /\ t.nextStation = c.nextStation
      /\ t.history = c.history /\ t.active = c.active
  BY <1>1, <1>3, <1>7, <1>8 DEF States
<1>10. t.lastSequence = s.lastSequence + 3
  BY <1>1, <1>4, <1>5, <1>6, <1>9 DEF Reported
<1>11. /\ Len(t.fleet) = Len(s.fleet) + 1
       /\ t.elapsed = at
       /\ t.carry = s.carry
       /\ t.speed = s.speed
       /\ t.reserved = s.reserved
       /\ t.nextStation = s.nextStation
  BY <1>3, <1>4, <1>5, <1>6, <1>9 DEF at, Reported
<1>12. QED
  BY <1>1, <1>2, <1>7, <1>8, <1>9, <1>10, <1>11, Zenon
     DEF ord, at, craft, a, b, c, next, fleet, Created

\* runTo: once nothing is due, iterating changes nothing.
LEMMA NothingLeft ==
    ASSUME NEW s, NEW limit, NEW n \in Nat, Due(Emissions(s, limit)[n], limit) = {},
           NEW m \in Nat, n <= m
    PROVE  Emissions(s, limit)[m] = Emissions(s, limit)[n]
<1> DEFINE e == Emissions(s, limit)
           S == {i \in Nat : e[n + i] = e[n]}
<1>1. 0 \in S
  OBVIOUS
<1>2. ASSUME NEW i \in Nat, i \in S
      PROVE  i + 1 \in S
  <2>1. e[(n + i) + 1] = Iterate(e[n + i], limit)
    BY EmissionsIterate
  <2>2. e[n + i] = e[n]
    BY <1>2
  <2>3. Iterate(e[n], limit) = e[n]
    BY DEF Iterate
  <2> HIDE DEF e
  <2>4. (n + i) + 1 = n + (i + 1)
    OBVIOUS
  <2>5. QED
    BY <2>1, <2>2, <2>3, <2>4
<1> HIDE DEF S
<1>3. Nat \subseteq S
  BY <1>1, <1>2, EveryNumber
<1> HIDE DEF e
<1>4. m - n \in S
  BY <1>3
<1>5. e[n + (m - n)] = e[n]
  BY <1>4 DEF S
<1>6. n + (m - n) = m
  OBVIOUS
<1>7. QED
  BY <1>5, <1>6 DEF e

-------------------------------------------------------------------------------
\* Whatever commits leaves nothing under way.
LEMMA CommitEnds ==
    ASSUME NEW u, Commit(u)
    PROVE  Underway'
BY DEF Commit, Underway

\* A run starts with nothing emitted.
LEMMA RunBegins ==
    ASSUME IInv, NEW clock, Run(clock),
           \/ \E d \in Durations : CanAdvance(state, d) /\ clock = PlanAdvance(state, d)
           \/ \E real \in RealDurations : CanElapse(state, real) /\ clock = PlanElapse(state, real)
    PROVE  Underway'
<1>1. /\ mode = "idle" /\ mode' = "run" /\ target' = clock
      /\ state' = state /\ staged' = staged
  BY DEF Run
<1>2. staged = state
  BY <1>1 DEF IInv, Underway
<1>3. state.lastSequence \in Nat
  BY DEF IInv, LogInv, TypeOK, States
<1>4. Emitted' = 0
  BY <1>1, <1>2, <1>3 DEF Emitted
<1>5. staged' = Emissions(state', target'.elapsed)[Emitted']
  BY <1>1, <1>2, <1>4, EmissionsIterate
<1>6. Emitted' \in 0 .. MaxBatchFrames
  BY <1>4, EngineLimits
<1>7. Running'
  BY <1>1, <1>5, <1>6 DEF Running
<1>8. QED
  BY <1>1, <1>7 DEF Underway

\* runTo's loop takes the next iteration.
LEMMA FireKeepsUnderway ==
    ASSUME IInv, Fire
    PROVE  Underway'
<1>1. TypeOK /\ Cloned /\ Running /\ mode = "run"
  BY DEF IInv, LogInv, Fire, Underway
<1>2. /\ staged \in States /\ state \in States /\ target.elapsed \in Nat
      /\ Scheduled(staged, target.elapsed)
  BY <1>1 DEF TypeOK, Cloned, Horizon
<1>3. PICK e \in Due(staged, target.elapsed) :
         IsNext(staged, target.elapsed, e) /\ staged' = Emit(staged, e)
  BY DEF Fire
<1>4. Emitted < MaxBatchFrames /\ state' = state /\ mode' = "run" /\ target' = target
  BY <1>1 DEF Fire
<1>5. staged'.lastSequence = staged.lastSequence + 1
  <2> DEFINE u == staged'
  <2>1. u = Emit(staged, e)
    BY <1>3
  <2> HIDE DEF u
  <2>2. u.lastSequence = staged.lastSequence + 1
    BY <1>2, <2>1, EmitCounts
  <2>3. QED
    BY <2>2 DEF u
<1>6. staged.lastSequence \in Nat /\ state.lastSequence \in Nat
  BY <1>2 DEF States
<1>7. Emitted \in Nat /\ Emitted' = Emitted + 1 /\ Emitted' \in 0 .. MaxBatchFrames
  <2>1. Emitted \in 0 .. MaxBatchFrames
    BY <1>1 DEF Running
  <2>2. Emitted' = Emitted + 1
    BY <1>4, <1>5, <1>6 DEF Emitted
  <2>3. QED
    BY <1>4, <2>1, <2>2, EngineLimits
<1>8. NextEvent(staged, target.elapsed) = e
  BY <1>2, <1>3, OneNextEvent
<1>9. Iterate(staged, target.elapsed) = staged'
  BY <1>3, <1>8 DEF Iterate
<1>10. staged = Emissions(state, target.elapsed)[Emitted]
  BY <1>1 DEF Running
<1>11. Emissions(state, target.elapsed)[Emitted + 1] = staged'
  BY <1>7, <1>9, <1>10, EmissionsIterate
<1>12. Running'
  <2>1. staged' = Emissions(state', target'.elapsed)[Emitted']
    BY <1>4, <1>7, <1>11
  <2>2. \/ \E d \in Durations : CanAdvance(state', d) /\ target' = PlanAdvance(state', d)
        \/ \E real \in RealDurations :
              CanElapse(state', real) /\ target' = PlanElapse(state', real)
    BY <1>1, <1>4 DEF Running
  <2>3. QED
    BY <1>7, <2>1, <2>2 DEF Running
<1>13. QED
  BY <1>4, <1>12 DEF Underway

\* addAircraft's loop takes the next iteration.
LEMMA CreateKeepsUnderway ==
    ASSUME IInv, Create
    PROVE  Underway'
<1>1. TypeOK /\ Cloned /\ Growing /\ mode = "grow"
  BY DEF IInv, LogInv, Create, Underway
<1>2. staged \in States /\ state \in States /\ staged.nextAddress \in 1 .. MaxAddress
  <2>1. staged \in States /\ state \in States
    BY <1>1 DEF TypeOK
  <2>2. staged.nextAddress \in Nat
    BY <2>1 DEF States
  <2>3. QED
    BY <1>1, <2>1, <2>2, EngineLimits DEF Create, Cloned, Allocated
<1>3. /\ staged' = AddAircraft(staged) /\ state' = state /\ mode' = "grow" /\ count' = count
      /\ Len(staged.fleet) < count /\ Emitted + 3 <= MaxBatchFrames
  BY <1>1 DEF Create
<1>4. /\ staged'.nextAddress = staged.nextAddress + 1
      /\ Len(staged'.fleet) = Len(staged.fleet) + 1
      /\ staged'.lastSequence = staged.lastSequence + 3
  <2> DEFINE u == staged'
  <2>1. u = AddAircraft(staged)
    BY <1>3
  <2> HIDE DEF u
  <2>2. /\ u.nextAddress = staged.nextAddress + 1
        /\ Len(u.fleet) = Len(staged.fleet) + 1
        /\ u.lastSequence = staged.lastSequence + 3
    BY <1>2, <2>1, AddAircraftCreates, Zenon DEF Created
  <2>3. QED
    BY <2>2 DEF u
<1>5. /\ staged.lastSequence \in Nat /\ state.lastSequence \in Nat
      /\ Len(staged.fleet) \in Nat /\ Len(state.fleet) \in Nat
      /\ staged.nextAddress \in Nat /\ state.nextAddress \in Nat /\ count \in Nat
  <2>1. staged.fleet \in Seq(Aircraft) /\ state.fleet \in Seq(Aircraft)
    BY <1>2 DEF States
  <2>2. QED
    BY <1>1, <1>2, <2>1 DEF States, TypeOK
<1>6. /\ count \in Len(state.fleet) + 1 .. MaxAircraft
      /\ Made \in 0 .. count - Len(state.fleet)
      /\ staged.nextAddress = state.nextAddress + Made
      /\ Emitted = 3 * Made
      /\ staged = Additions(state)[Made]
  BY <1>1 DEF Growing
<1>7. Made' = Made + 1 /\ Made \in Nat /\ Made = Len(staged.fleet) - Len(state.fleet)
  BY <1>3, <1>4, <1>5, <1>6 DEF Made
<1>8. Emitted' = Emitted + 3
  BY <1>3, <1>4, <1>5 DEF Emitted
<1>9. Additions(state)[Made + 1] = staged'
  BY <1>3, <1>6, <1>7, AdditionsIterate
<1>10. /\ Made' \in 0 .. count - Len(state.fleet)
       /\ staged'.nextAddress = state.nextAddress + Made'
       /\ Emitted' = 3 * Made'
       /\ Emitted' <= MaxBatchFrames
  <2> DEFINE m == Made
             x == Emitted
  <2>1. m \in Nat /\ x = 3 * m /\ x + 3 <= MaxBatchFrames
    BY <1>3, <1>6, <1>7
  <2>2. m = Len(staged.fleet) - Len(state.fleet)
    BY <1>7
  <2> HIDE DEF m, x
  <2>3. Made' = m + 1 /\ Emitted' = x + 3
    BY <1>7, <1>8 DEF m, x
  <2>4. m + 1 \in 0 .. count - Len(state.fleet)
    BY <1>3, <1>5, <2>1, <2>2
  <2>5. 3 * (m + 1) = x + 3
    BY <2>1
  <2>6. staged'.nextAddress = state.nextAddress + (m + 1)
    BY <1>4, <1>5, <1>6, <2>1 DEF m
  <2>7. QED
    BY <2>1, <2>3, <2>4, <2>5, <2>6
<1>11. Growing'
  BY <1>3, <1>6, <1>7, <1>9, <1>10 DEF Growing
<1>12. QED
  BY <1>3, <1>11 DEF Underway

\* SetCount starts with no aircraft added.
LEMMA GrowBegins ==
    ASSUME IInv, NEW n \in 1 .. MaxAircraft, BeginGrow(n)
    PROVE  Underway'
<1>1. /\ mode = "idle" /\ mode' = "grow" /\ count' = n /\ n > Len(state.fleet)
      /\ state' = state /\ staged' = staged
  BY DEF BeginGrow
<1>2. staged = state
  BY <1>1 DEF IInv, Underway
<1>3. /\ state.lastSequence \in Nat /\ state.fleet \in Seq(Aircraft) /\ state.nextAddress \in Nat
  BY DEF IInv, LogInv, TypeOK, States
<1>4. Len(state.fleet) \in Nat /\ MaxAircraft \in Nat /\ MaxBatchFrames \in Nat
  BY <1>3, EngineLimits
<1>5. Emitted' = 0 /\ Made' = 0
  BY <1>1, <1>2, <1>3, <1>4 DEF Emitted, Made
<1>6. staged' = Additions(state')[Made']
  BY <1>1, <1>2, <1>5, AdditionsIterate
<1>7. Growing'
  BY <1>1, <1>2, <1>3, <1>4, <1>5, <1>6 DEF Growing
<1>8. QED
  BY <1>1, <1>7 DEF Underway

\* Every step of the engine keeps the mutation under way on its course.
LEMMA NextKeepsUnderway == IInv /\ [Next]_vars => Underway'
<1> SUFFICES ASSUME IInv, [Next]_vars PROVE Underway'
  OBVIOUS
<1>1. CASE Begins
  BY <1>1, RunBegins, GrowBegins DEF Begins, BeginAdvance, BeginElapse
<1>2. CASE CommitRun \/ CommitGrow \/ Abort \/ Mutates
  BY <1>2, CommitEnds DEF CommitRun, CommitGrow, Abort, Mutates, AtOnce
<1>3. CASE UNCHANGED vars
  <2>1. Underway
    BY DEF IInv
  <2>2. QED
    BY <1>3, <2>1 DEF vars, Underway, Running, Growing, Made, Emitted
<1>4. QED
  BY <1>1, <1>2, <1>3, FireKeepsUnderway, CreateKeepsUnderway, StepCases DEF IInv, LogInv, TypeOK

-------------------------------------------------------------------------------
(***************************************************************************)
(* Each commit is a step of EngineAtomic.  Its operators are the engine's own,*)
(* reached through an instance; they are matched one after the other.      *)
(***************************************************************************)

\* EngineAtomic's operators are the engine's own.
LEMMA SameRecords ==
    ASSUME NEW s, NEW ord, NEW kind, NEW odd, NEW at
    PROVE  Atomic!Record(s, ord, kind, odd, at) = Record(s, ord, kind, odd, at)
<1>1. ASSUME NEW st, NEW frame
      PROVE  Atomic!Receive(st, frame) = Receive(st, frame)
  BY Zenon DEF Atomic!Receive, Atomic!Hears, Atomic!Loses, Atomic!Reception, Atomic!Retain,
               Receive, Hears, Loses, Reception, Retain
<1>2. Atomic!Transmission(s, ord, kind, odd, at) = Transmission(s, ord, kind, odd, at)
  BY Zenon DEF Atomic!Transmission, Transmission
<1> DEFINE frame == Transmission(s, ord, kind, odd, at)
<1>3. [i \in DOMAIN s.active |-> Atomic!Receive(s.active[i], frame)]
        = [i \in DOMAIN s.active |-> Receive(s.active[i], frame)]
  BY <1>1, Zenon
<1>4. Atomic!Retain(s.history, frame, HistoryLimit) = Retain(s.history, frame, HistoryLimit)
  BY Zenon DEF Atomic!Retain, Retain
<1> HIDE DEF frame
<1>5. QED
  BY <1>2, <1>3, <1>4, Zenon DEF Atomic!Record, Record, frame

LEMMA SameEvents ==
    ASSUME NEW s, NEW limit
    PROVE  /\ Atomic!Due(s, limit) = Due(s, limit)
           /\ Atomic!NextEvent(s, limit) = NextEvent(s, limit)
<1>1. Atomic!Due(s, limit) = Due(s, limit)
  BY Zenon DEF Atomic!Due, Due, Atomic!Families, Families
<1>2. Atomic!NextEvent(s, limit) = NextEvent(s, limit)
  BY Zenon DEF Atomic!NextEvent, NextEvent, Atomic!IsNext, IsNext, Atomic!Precedes, Precedes,
               Atomic!Due, Due, Atomic!Families, Families
<1>3. QED
  BY <1>1, <1>2

LEMMA SameEmits ==
    ASSUME NEW s, NEW e
    PROVE  Atomic!Emit(s, e) = Emit(s, e)
<1>1. ASSUME NEW craft, NEW k
      PROVE  Atomic!Reschedule(craft, k) = Reschedule(craft, k)
  BY Zenon DEF Atomic!Reschedule, Reschedule, Atomic!Families, Families
<1>2. Atomic!Families = Families
  BY Zenon DEF Atomic!Families, Families
<1>3. QED
  BY <1>1, <1>2, SameRecords, Zenon DEF Atomic!Emit, Emit

LEMMA SameCreations ==
    ASSUME NEW s
    PROVE  Atomic!AddAircraft(s) = AddAircraft(s)
<1>1. ASSUME NEW ord, NEW at
      PROVE  Atomic!NewAircraft(ord, at) = NewAircraft(ord, at)
  BY Zenon DEF Atomic!NewAircraft, NewAircraft, Atomic!Families, Families
<1>2. Atomic!Families = Families
  BY Zenon DEF Atomic!Families, Families
<1>3. QED
  BY <1>1, <1>2, SameRecords, Zenon DEF Atomic!AddAircraft, AddAircraft

LEMMA SameEmissions ==
    ASSUME NEW s, NEW limit
    PROVE  \A n \in Nat : Atomic!Emissions(s, limit)[n] = Emissions(s, limit)[n]
<1> DEFINE e == Emissions(s, limit)
           a == Atomic!Emissions(s, limit)
           S == {n \in Nat : a[n] = e[n]}
<1>1. ASSUME NEW t
      PROVE  (IF Atomic!Due(t, limit) = {} THEN t ELSE Atomic!Emit(t, Atomic!NextEvent(t, limit)))
                = Iterate(t, limit)
  BY SameEvents, SameEmits, Zenon DEF Iterate
<1>2. PICK f : Runs(f, s, limit)
  BY EmissionsExist, Zenon
<1>3. f = [n \in Nat |->
             IF n = 0 THEN s
             ELSE IF Atomic!Due(f[n - 1], limit) = {} THEN f[n - 1]
                  ELSE Atomic!Emit(f[n - 1], Atomic!NextEvent(f[n - 1], limit))]
  BY <1>1, <1>2, Zenon DEF Runs
<1>4. a = [n \in Nat |->
             IF n = 0 THEN s
             ELSE IF Atomic!Due(a[n - 1], limit) = {} THEN a[n - 1]
                  ELSE Atomic!Emit(a[n - 1], Atomic!NextEvent(a[n - 1], limit))]
  BY <1>3, Zenon DEF Atomic!Emissions
<1> HIDE DEF a
<1>5. Runs(a, s, limit)
  BY <1>1, <1>4, Zenon DEF Runs
<1>6. a[0] = s /\ \A n \in Nat : a[n + 1] = Iterate(a[n], limit)
  BY <1>5 DEF Runs
<1>7. e[0] = s /\ \A n \in Nat : e[n + 1] = Iterate(e[n], limit)
  BY EmissionsIterate
<1> HIDE DEF e
<1>8. 0 \in S /\ \A n \in Nat : n \in S => n + 1 \in S
  BY <1>6, <1>7
<1> HIDE DEF S
<1>9. Nat \subseteq S
  BY <1>8, EveryNumber
<1>10. QED
  BY <1>9 DEF S, a, e

LEMMA SameAdditions ==
    ASSUME NEW s
    PROVE  \A n \in Nat : Atomic!Additions(s)[n] = Additions(s)[n]
<1> DEFINE e == Additions(s)
           a == Atomic!Additions(s)
           S == {n \in Nat : a[n] = e[n]}
<1>1. PICK f : Adds(f, s)
  BY AdditionsExist, Zenon
<1>2. f = [n \in Nat |-> IF n = 0 THEN s ELSE Atomic!AddAircraft(f[n - 1])]
  BY <1>1, SameCreations, Zenon DEF Adds
<1>3. a = [n \in Nat |-> IF n = 0 THEN s ELSE Atomic!AddAircraft(a[n - 1])]
  BY <1>2, Zenon DEF Atomic!Additions
<1> HIDE DEF a
<1>4. Adds(a, s)
  BY <1>3, SameCreations, Zenon DEF Adds
<1>5. a[0] = s /\ \A n \in Nat : a[n + 1] = AddAircraft(a[n])
  BY <1>4 DEF Adds
<1>6. e[0] = s /\ \A n \in Nat : e[n + 1] = AddAircraft(e[n])
  BY AdditionsIterate
<1> HIDE DEF e
<1>7. 0 \in S /\ \A n \in Nat : n \in S => n + 1 \in S
  BY <1>5, <1>6
<1> HIDE DEF S
<1>8. Nat \subseteq S
  BY <1>7, EveryNumber
<1>9. QED
  BY <1>8 DEF S, a, e

LEMMA SameRuns ==
    ASSUME NEW s, NEW clock
    PROVE  Atomic!RunTo(s, clock) = RunTo(s, clock)
<1>1. Atomic!Emissions(s, clock.elapsed)[MaxBatchFrames + 1]
         = Emissions(s, clock.elapsed)[MaxBatchFrames + 1]
  BY SameEmissions, EngineLimits
<1>2. QED
  BY <1>1, Zenon DEF Atomic!RunTo, Atomic!Drain, RunTo, Drain

LEMMA SameResizes ==
    ASSUME NEW s, NEW n \in Nat, Len(s.fleet) \in Nat
    PROVE  Atomic!Resize(s, n) = Resize(s, n)
<1>1. CASE n > Len(s.fleet)
  <2>1. n - Len(s.fleet) \in Nat
    BY <1>1
  <2>2. Atomic!Additions(s)[n - Len(s.fleet)] = Additions(s)[n - Len(s.fleet)]
    BY <2>1, SameAdditions
  <2>3. QED
    BY <1>1, <2>2, Zenon DEF Atomic!Resize, Atomic!Grow, Resize, Grow
<1>2. CASE ~(n > Len(s.fleet))
  BY <1>2, Zenon DEF Atomic!Resize, Atomic!Shrink, Resize, Shrink
<1>3. QED
  BY <1>1, <1>2

LEMMA SameLimits ==
    ASSUME NEW s, NEW t, NEW d
    PROVE  /\ Atomic!Emittable(s, t) <=> Emittable(s, t)
           /\ Atomic!CanAdvance(s, d) <=> CanAdvance(s, d)
           /\ Atomic!PlanAdvance(s, d) = PlanAdvance(s, d)
           /\ Atomic!CanElapse(s, d) <=> CanElapse(s, d)
           /\ Atomic!PlanElapse(s, d) = PlanElapse(s, d)
<1>1. Atomic!Emittable(s, t) <=> Emittable(s, t)
  BY Zenon DEF Atomic!Emittable, Atomic!CanReschedule, Emittable, CanReschedule,
               Atomic!Families, Families
<1>2. Atomic!CanAdvance(s, d) <=> CanAdvance(s, d)
  BY Zenon DEF Atomic!CanAdvance, CanAdvance
<1>3. Atomic!PlanAdvance(s, d) = PlanAdvance(s, d)
  BY Zenon DEF Atomic!PlanAdvance, PlanAdvance, Atomic!Clock, Clock
<1>4. Atomic!CanElapse(s, d) <=> CanElapse(s, d)
  BY Zenon DEF Atomic!CanElapse, CanElapse, Atomic!CanAdvance, CanAdvance, Atomic!Earned, Earned
<1>5. Atomic!PlanElapse(s, d) = PlanElapse(s, d)
  BY Zenon DEF Atomic!PlanElapse, PlanElapse, Atomic!Clock, Clock, Atomic!Earned, Earned
<1>6. QED
  BY <1>1, <1>2, <1>3, <1>4, <1>5

LEMMA SameStations ==
    ASSUME NEW s, NEW id, NEW rev, NEW cfg
    PROVE  /\ Atomic!CanAddStation(s, id) <=> CanAddStation(s, id)
           /\ Atomic!StationAdded(s, id, cfg) = StationAdded(s, id, cfg)
           /\ Atomic!RevisionMatches(s, id, rev) <=> RevisionMatches(s, id, rev)
           /\ Atomic!StationUpdated(s, id, cfg) = StationUpdated(s, id, cfg)
           /\ Atomic!StationRemoved(s, id) = StationRemoved(s, id)
<1>1. Atomic!CanAddStation(s, id) <=> CanAddStation(s, id)
  BY Zenon DEF Atomic!CanAddStation, CanAddStation
<1>2. Atomic!StationAdded(s, id, cfg) = StationAdded(s, id, cfg)
  BY Zenon DEF Atomic!StationAdded, StationAdded
<1>3. Atomic!RevisionMatches(s, id, rev) <=> RevisionMatches(s, id, rev)
  BY Zenon DEF Atomic!RevisionMatches, RevisionMatches, Atomic!ActiveIds, ActiveIds,
               Atomic!Find, Find
<1>4. Atomic!StationUpdated(s, id, cfg) = StationUpdated(s, id, cfg)
  BY Zenon DEF Atomic!StationUpdated, StationUpdated, Atomic!Find, Find,
               Atomic!ReplaceAt, ReplaceAt
<1>5. Atomic!StationRemoved(s, id) = StationRemoved(s, id)
  BY Zenon DEF Atomic!StationRemoved, StationRemoved, Atomic!Find, Find,
               Atomic!RemoveAt, RemoveAt
<1>6. QED
  BY <1>1, <1>2, <1>3, <1>4, <1>5

-------------------------------------------------------------------------------
\* runTo commits what the uninterrupted mutation computes.
LEMMA CommitRunIsAtomic ==
    ASSUME IInv, CommitRun
    PROVE  Atomic!Next
<1> DEFINE now  == target.elapsed
           rest == target.carry
           u    == [staged EXCEPT !.elapsed = now, !.carry = rest]
<1>1. /\ TypeOK /\ Cloned /\ Running /\ mode = "run"
      /\ Due(staged, now) = {} /\ state' = u
  BY DEF IInv, LogInv, CommitRun, Underway, Commit
<1>2. /\ staged \in States /\ state \in States /\ now \in Nat /\ rest \in 0 .. 99
      /\ Scheduled(staged, now)
  BY <1>1 DEF TypeOK, Cloned, Horizon
<1>3. /\ Emitted \in 0 .. MaxBatchFrames
      /\ staged = Emissions(state, now)[Emitted]
  BY <1>1 DEF Running
<1>4. Drain(state, now) = staged
  <2>1. Emitted \in Nat /\ MaxBatchFrames + 1 \in Nat /\ Emitted <= MaxBatchFrames + 1
    BY <1>3, EngineLimits
  <2>2. Due(Emissions(state, now)[Emitted], now) = {}
    BY <1>1, <1>3
  <2>3. Emissions(state, now)[MaxBatchFrames + 1] = Emissions(state, now)[Emitted]
    BY <2>1, <2>2, NothingLeft
  <2>4. QED
    BY <1>3, <2>3 DEF Drain
<1>5. RunTo(state, target) = u
  BY <1>4, Zenon DEF RunTo
<1>6. Emittable(state, u)
  <2>1. u.lastSequence = staged.lastSequence /\ u.fleet = staged.fleet
    <3> HIDE DEF now, rest
    <3>1. QED
      BY <1>2 DEF States
  <2>2. u.lastSequence - state.lastSequence <= MaxBatchFrames
    BY <1>3, <2>1, EngineLimits DEF Emitted
  <2>3. \A i \in DOMAIN u.fleet : CanReschedule(u.fleet[i])
    BY <1>2, <2>1 DEF Scheduled, CanReschedule
  <2>4. QED
    BY <2>2, <2>3 DEF Emittable
<1> HIDE DEF u
<1>7. CASE \E d \in Durations : CanAdvance(state, d) /\ target = PlanAdvance(state, d)
  <2>1. PICK d \in Durations : CanAdvance(state, d) /\ target = PlanAdvance(state, d)
    BY <1>7
  <2>2. Atomic!Advance(d)
    BY <1>1, <1>5, <1>6, <2>1, SameRuns, SameLimits, Zenon DEF Atomic!Advance
  <2>3. QED
    BY <2>2, Zenon DEF Atomic!Next
<1>8. CASE \E real \in RealDurations : CanElapse(state, real) /\ target = PlanElapse(state, real)
  <2>1. PICK real \in RealDurations : CanElapse(state, real) /\ target = PlanElapse(state, real)
    BY <1>8
  <2>2. Atomic!Elapse(real)
    BY <1>1, <1>5, <1>6, <2>1, SameRuns, SameLimits, Zenon DEF Atomic!Elapse
  <2>3. QED
    BY <2>2, Zenon DEF Atomic!Next
<1>9. QED
  BY <1>1, <1>7, <1>8 DEF Running

\* addAircraft commits what the uninterrupted mutation computes.
LEMMA CommitGrowIsAtomic ==
    ASSUME IInv, CommitGrow
    PROVE  Atomic!Next
<1>1. /\ TypeOK /\ Cloned /\ Growing /\ mode = "grow"
      /\ Len(staged.fleet) = count /\ state' = staged
  BY DEF IInv, LogInv, CommitGrow, Underway, Commit
<1>2. staged \in States /\ state \in States /\ Scheduled(staged, staged.elapsed)
  BY <1>1 DEF TypeOK, Cloned, Horizon
<1>3. /\ Len(staged.fleet) \in Nat /\ Len(state.fleet) \in Nat
      /\ staged.nextAddress \in Nat /\ state.nextAddress \in Nat
      /\ staged.lastSequence \in Nat /\ state.lastSequence \in Nat
  <2>1. staged.fleet \in Seq(Aircraft) /\ state.fleet \in Seq(Aircraft)
    BY <1>2 DEF States
  <2>2. QED
    BY <1>2, <2>1 DEF States
<1>4. /\ count \in Len(state.fleet) + 1 .. MaxAircraft
      /\ Made = count - Len(state.fleet)
      /\ staged.nextAddress = state.nextAddress + Made
      /\ Emitted <= MaxBatchFrames
      /\ staged = Additions(state)[Made]
  BY <1>1 DEF Growing, Made
<1>5. count \in 0 .. MaxAircraft /\ count > Len(state.fleet) /\ MaxAircraft \in Nat
  BY <1>3, <1>4, EngineLimits
<1>6. Resize(state, count) = staged
  BY <1>4, <1>5, Zenon DEF Resize, Grow
<1>7. Emittable(state, staged)
  <2>1. \A i \in DOMAIN staged.fleet : CanReschedule(staged.fleet[i])
    BY <1>2 DEF Scheduled, CanReschedule
  <2>2. QED
    BY <1>4, <2>1 DEF Emittable, Emitted
<1>8. state.nextAddress + (count - Len(state.fleet)) <= MaxAddress + 1
  <2>1. staged.nextAddress <= MaxAddress + 1
    BY <1>1, EngineLimits DEF Cloned, Allocated
  <2>2. QED
    BY <1>4, <2>1
<1>9. Atomic!SetCount(count)
  <2>1. Atomic!Resize(state, count) = staged
    BY <1>3, <1>5, <1>6, SameResizes
  <2>2. Atomic!Emittable(state, staged)
    BY <1>7, SameLimits
  <2>3. QED
    BY <1>1, <1>5, <1>8, <2>1, <2>2 DEF Atomic!SetCount
<1>10. QED
  BY <1>5, <1>9, Zenon DEF Atomic!Next

\* SetCount downwards.
LEMMA ShrinkIsAtomic ==
    ASSUME IInv, NEW n \in 0 .. MaxAircraft, SetCount(n)
    PROVE  Atomic!Next
<1>1. /\ state \in States /\ Scheduled(state, state.elapsed) /\ Allocated(state)
      /\ n \in 0 .. Len(state.fleet) /\ state' = Shrink(state, n)
  BY DEF IInv, LogInv, TypeOK, Committed, SetCount, AtOnce, Commit
<1>2. /\ state.fleet \in Seq(Aircraft) /\ Len(state.fleet) \in Nat /\ state.lastSequence \in Nat
      /\ state.nextAddress \in Nat /\ state.nextAddress <= MaxAddress + 1
  BY <1>1, EngineLimits DEF States, Allocated
<1>3. Resize(state, n) = Shrink(state, n)
  <2>1. ~(n > Len(state.fleet))
    BY <1>1, <1>2
  <2>2. QED
    BY <2>1 DEF Resize
<1> DEFINE u == Shrink(state, n)
<1>4. /\ u.lastSequence = state.lastSequence
      /\ u.fleet = SubSeq(state.fleet, 1, n)
  BY <1>1 DEF Shrink, States
<1>5. \A i \in DOMAIN u.fleet : i \in DOMAIN state.fleet /\ u.fleet[i] = state.fleet[i]
  BY <1>1, <1>2, <1>4
<1>6. Emittable(state, u)
  <2>1. u.lastSequence - state.lastSequence <= MaxBatchFrames
    BY <1>2, <1>4, EngineLimits
  <2>2. \A i \in DOMAIN u.fleet : CanReschedule(u.fleet[i])
    BY <1>1, <1>5 DEF Scheduled, CanReschedule
  <2>3. QED
    BY <2>1, <2>2 DEF Emittable
<1>7. state.nextAddress + (n - Len(state.fleet)) <= MaxAddress + 1
  BY <1>1, <1>2, EngineLimits
<1> HIDE DEF u
<1>8. state' = Resize(state, n) /\ Emittable(state, Resize(state, n))
  BY <1>1, <1>3, <1>6 DEF u
<1>9. Atomic!SetCount(n)
  <2>1. Atomic!Resize(state, n) = Resize(state, n)
    BY <1>1, <1>2, SameResizes
  <2>2. Atomic!Emittable(state, Resize(state, n))
    BY <1>8, SameLimits
  <2>3. QED
    BY <1>7, <1>8, <2>1, <2>2 DEF Atomic!SetCount
<1>10. QED
  BY <1>9, Zenon DEF Atomic!Next

\* Every step of the engine is a whole mutation, or none.
LEMMA StepsAreAtomic == IInv /\ [Next]_vars => [Atomic!Next]_state
<1> SUFFICES ASSUME IInv, [Next]_vars PROVE Atomic!Next \/ UNCHANGED state
  OBVIOUS
<1>1. ASSUME NEW d \in Durations, BeginAdvance(d) PROVE UNCHANGED state
  BY <1>1 DEF BeginAdvance, Run
<1>2. ASSUME NEW real \in RealDurations, BeginElapse(real) PROVE UNCHANGED state
  BY <1>2 DEF BeginElapse, Run
<1>3. ASSUME NEW n \in 1 .. MaxAircraft, BeginGrow(n) PROVE UNCHANGED state
  BY <1>3 DEF BeginGrow
<1>4. CASE Fire \/ Create
  BY <1>4 DEF Fire, Create
<1>5. CASE Abort
  BY <1>5 DEF Abort, Commit
<1>6. ASSUME NEW speed \in Speeds, SetSpeed(speed) PROVE Atomic!Next
  <2>1. Atomic!SetSpeed(speed)
    BY <1>6 DEF SetSpeed, AtOnce, Commit, Atomic!SetSpeed
  <2>2. QED
    BY <2>1, Zenon DEF Atomic!Next
<1>7. ASSUME NEW id \in StationIds, NEW cfg \in Configs, AddStation(id, cfg) PROVE Atomic!Next
  <2>1. CanAddStation(state, id) /\ state' = StationAdded(state, id, cfg)
    BY <1>7 DEF AddStation, AtOnce, Commit
  <2>2. Atomic!AddStation(id, cfg)
    BY <2>1, SameStations, Zenon DEF Atomic!AddStation
  <2>3. QED
    BY <2>2, Zenon DEF Atomic!Next
<1>8. ASSUME NEW id \in StationIds, NEW rev \in 1 .. MaxRevision, NEW cfg \in Configs,
             UpdateStation(id, rev, cfg)
      PROVE  Atomic!Next
  <2>1. /\ rev < MaxRevision /\ RevisionMatches(state, id, rev)
        /\ state' = StationUpdated(state, id, cfg)
    BY <1>8 DEF UpdateStation, AtOnce, Commit
  <2>2. Atomic!UpdateStation(id, rev, cfg)
    BY <2>1, SameStations, Zenon DEF Atomic!UpdateStation
  <2>3. QED
    BY <2>2, Zenon DEF Atomic!Next
<1>9. ASSUME NEW id \in StationIds, NEW rev \in 1 .. MaxRevision, RemoveStation(id, rev)
      PROVE  Atomic!Next
  <2>1. RevisionMatches(state, id, rev) /\ state' = StationRemoved(state, id)
    BY <1>9 DEF RemoveStation, AtOnce, Commit
  <2>2. Atomic!RemoveStation(id, rev)
    BY <2>1, SameStations, Zenon DEF Atomic!RemoveStation
  <2>3. QED
    BY <2>2, Zenon DEF Atomic!Next
<1>10. CASE UNCHANGED vars
  BY <1>10 DEF vars
<1>11. QED
  BY <1>1, <1>2, <1>3, <1>4, <1>5, <1>6, <1>7, <1>8, <1>9, <1>10,
     CommitRunIsAtomic, CommitGrowIsAtomic, ShrinkIsAtomic DEF Next

-------------------------------------------------------------------------------
(***************************************************************************)
(* The two halves of a position pair.                                      *)
(***************************************************************************)

\* A log after record: what it held, the oldest perhaps evicted, and the report.
LogMoved(log, f, t) ==
    /\ t \in Seq(Frames)
    /\ Len(t) \in Nat \ {0}
    /\ t[Len(t)] = f
    /\ \E shift \in Nat :
          /\ Len(t) - 1 + shift = Len(log)
          /\ \A i \in 1 .. Len(t) - 1 : i + shift \in DOMAIN log /\ t[i] = log[i + shift]

LEMMA LogMoves ==
    ASSUME NEW log \in Seq(Frames), Len(log) <= HistoryLimit, NEW f \in Frames,
           NEW t, t = Retain(log, f, HistoryLimit)
    PROVE  LogMoved(log, f, t)
<1> DEFINE shift == Len(log) + 1 - Len(t)
<1>1. HistoryLimit \in Nat \ {0} /\ Len(log) \in Nat
  BY EngineLimits
<1>2. t \in Seq(Frames)
  BY <1>1, RetainType
<1>3. Len(t) = Least(Len(log) + 1, HistoryLimit)
  BY <1>1, RetainElements
<1>4. Len(t) \in 1 .. HistoryLimit /\ t[Len(t)] = f
  BY <1>1, RetainElements
<1>5. \A i \in 1 .. Len(t) - 1 : i + shift \in DOMAIN log
  BY <1>1, RetainElements
<1>6. \A i \in 1 .. Len(t) - 1 : t[i] = log[i + shift]
  BY <1>1, RetainElements
<1>7. shift \in Nat /\ Len(t) - 1 + shift = Len(log) /\ Len(t) \in Nat \ {0}
  <2>1. \A m, n \in Nat : \A h \in Nat \ {0} :
           m <= h /\ n = Least(m + 1, h) =>
              m + 1 - n \in Nat /\ n - 1 + (m + 1 - n) = m /\ n # 0
    BY DEF Least
  <2>2. Len(t) \in Nat
    BY <1>4
  <2>3. QED
    BY <1>1, <1>3, <2>1, <2>2
<1> HIDE DEF shift
<1>8. QED
  BY <1>2, <1>4, <1>5, <1>6, <1>7 DEF LogMoved

\* record: a report of the half that was announced keeps the log paired.
LEMMA LogStaysPaired ==
    ASSUME NEW log \in Seq(Frames), Len(log) <= HistoryLimit, NEW f \in Frames,
           NEW t, t = Retain(log, f, HistoryLimit), Paired(log),
           f.kind = "position" => Announced(log, f.ord, f.odd)
    PROVE  Paired(t)
<1>0. LogMoved(log, f, t)
  BY LogMoves
<1>1. /\ t \in Seq(Frames)
      /\ Len(t) \in Nat \ {0}
      /\ t[Len(t)] = f
  BY <1>0 DEF LogMoved
<1>2. PICK shift \in Nat :
         /\ Len(t) - 1 + shift = Len(log)
         /\ \A i \in 1 .. Len(t) - 1 : i + shift \in DOMAIN log /\ t[i] = log[i + shift]
  BY <1>0 DEF LogMoved
<1>3. Len(log) \in Nat /\ DOMAIN log = 1 .. Len(log) /\ DOMAIN t = 1 .. Len(t)
  OBVIOUS
<1>4. SUFFICES ASSUME NEW i \in DOMAIN t, NEW j \in DOMAIN t, i < j, t[j].kind = "position",
                      Positional(t, i, t[j].ord),
                      \A k \in DOMAIN t : i < k /\ k < j => ~Positional(t, k, t[j].ord)
               PROVE  t[i].odd # t[j].odd
  BY DEF Paired
<1>5. i \in 1 .. Len(t) - 1 /\ t[i] = log[i + shift] /\ i + shift \in DOMAIN log
  BY <1>1, <1>2, <1>3, <1>4
<1>6. ASSUME NEW k \in DOMAIN log, i + shift < k
      PROVE  /\ k - shift \in 1 .. Len(t) - 1
             /\ t[k - shift] = log[k]
             /\ i < k - shift
  <2>1. k - shift \in 1 .. Len(t) - 1 /\ i < k - shift /\ (k - shift) + shift = k
    BY <1>1, <1>2, <1>3, <1>5, <1>6
  <2>2. QED
    BY <1>2, <2>1
<1>7. CASE j < Len(t)
  <2>1. t[j] = log[j + shift] /\ j + shift \in DOMAIN log /\ i + shift < j + shift
    BY <1>1, <1>2, <1>3, <1>4, <1>7
  <2>2. ASSUME NEW k \in DOMAIN log, i + shift < k, k < j + shift
        PROVE  ~Positional(log, k, log[j + shift].ord)
    <3>1. k - shift \in DOMAIN t /\ t[k - shift] = log[k] /\ i < k - shift /\ k - shift < j
      BY <1>1, <1>3, <1>6, <2>2
    <3>2. ~Positional(t, k - shift, t[j].ord)
      BY <1>4, <3>1
    <3>3. QED
      BY <2>1, <3>1, <3>2 DEF Positional
  <2>3. Positional(log, i + shift, log[j + shift].ord)
    BY <1>4, <1>5, <2>1 DEF Positional
  <2>4. log[i + shift].odd # log[j + shift].odd
    BY <1>4, <1>5, <2>1, <2>2, <2>3, Zenon DEF Paired
  <2>5. QED
    BY <1>5, <2>1, <2>4
<1>8. CASE j = Len(t)
  <2>1. t[j] = f
    BY <1>1, <1>8
  <2>2. Announced(log, f.ord, f.odd)
    BY <1>4, <2>1
  <2>3. ASSUME NEW k \in DOMAIN log, i + shift < k
        PROVE  ~Positional(log, k, f.ord)
    <3>1. k - shift \in DOMAIN t /\ t[k - shift] = log[k] /\ i < k - shift /\ k - shift < j
      BY <1>1, <1>3, <1>6, <1>8, <2>3
    <3>2. ~Positional(t, k - shift, t[j].ord)
      BY <1>4, <3>1
    <3>3. QED
      BY <2>1, <3>1, <3>2 DEF Positional
  <2>4. Positional(log, i + shift, f.ord)
    BY <1>4, <1>5, <2>1 DEF Positional
  <2>5. log[i + shift].odd # f.odd
    BY <1>5, <2>2, <2>3, <2>4, Zenon DEF Announced
  <2>6. QED
    BY <1>5, <2>1, <2>5
<1>9. QED
  BY <1>1, <1>3, <1>4, <1>7, <1>8

\* record: what an aircraft announces next is not what it sent last.
LEMMA LogAnnounces ==
    ASSUME NEW log \in Seq(Frames), Len(log) <= HistoryLimit, NEW f \in Frames,
           NEW t, t = Retain(log, f, HistoryLimit), NEW ord, NEW odd,
           IF f.kind = "position" /\ f.ord = ord THEN f.odd # odd ELSE Announced(log, ord, odd)
    PROVE  Announced(t, ord, odd)
<1>0. LogMoved(log, f, t)
  BY LogMoves
<1>1. /\ t \in Seq(Frames)
      /\ Len(t) \in Nat \ {0}
      /\ t[Len(t)] = f
  BY <1>0 DEF LogMoved
<1>2. PICK shift \in Nat :
         /\ Len(t) - 1 + shift = Len(log)
         /\ \A i \in 1 .. Len(t) - 1 : i + shift \in DOMAIN log /\ t[i] = log[i + shift]
  BY <1>0 DEF LogMoved
<1>3. Len(log) \in Nat /\ DOMAIN log = 1 .. Len(log) /\ DOMAIN t = 1 .. Len(t)
  OBVIOUS
<1>4. SUFFICES ASSUME NEW i \in DOMAIN t, Positional(t, i, ord),
                      \A k \in DOMAIN t : i < k => ~Positional(t, k, ord)
               PROVE  t[i].odd # odd
  BY DEF Announced
<1>5. CASE i = Len(t)
  BY <1>1, <1>4, <1>5 DEF Positional
<1>6. CASE i < Len(t)
  <2>1. Len(t) \in DOMAIN t
    BY <1>1, <1>3
  <2>2. ~Positional(t, Len(t), ord)
    BY <1>4, <1>6, <2>1
  <2>3. ~(f.kind = "position" /\ f.ord = ord)
    BY <1>1, <2>2 DEF Positional
  <2>4. Announced(log, ord, odd)
    BY <2>3
  <2>5. t[i] = log[i + shift] /\ i + shift \in DOMAIN log
    BY <1>1, <1>2, <1>3, <1>6
  <2>6. ASSUME NEW k \in DOMAIN log, i + shift < k
        PROVE  ~Positional(log, k, ord)
    <3>1. k - shift \in 1 .. Len(t) - 1 /\ i < k - shift /\ (k - shift) + shift = k
      BY <1>1, <1>2, <1>3, <2>6
    <3>2. t[k - shift] = log[(k - shift) + shift]
      BY <1>2, <3>1
    <3>5. t[k - shift] = log[k] /\ k - shift \in DOMAIN t
      BY <1>1, <1>3, <3>1, <3>2
    <3>3. ~Positional(t, k - shift, ord)
      BY <1>4, <3>1, <3>5
    <3>4. QED
      BY <3>3, <3>5 DEF Positional
  <2>7. Positional(log, i + shift, ord)
    BY <1>4, <2>5 DEF Positional
  <2>8. log[i + shift].odd # odd
    BY <2>4, <2>5, <2>6, <2>7, Zenon DEF Announced
  <2>9. QED
    BY <2>5, <2>8
<1>7. QED
  BY <1>1, <1>3, <1>5, <1>6

\* record: nobody else's address appears in the log.
LEMMA LogStaysBelow ==
    ASSUME NEW log \in Seq(Frames), Len(log) <= HistoryLimit, NEW f \in Frames,
           NEW t, t = Retain(log, f, HistoryLimit), NEW bound,
           f.ord < bound, \A i \in DOMAIN log : log[i].ord < bound
    PROVE  \A i \in DOMAIN t : t[i].ord < bound
<1>0. LogMoved(log, f, t)
  BY LogMoves
<1>1. /\ t \in Seq(Frames)
      /\ Len(t) \in Nat \ {0}
      /\ t[Len(t)] = f
  BY <1>0 DEF LogMoved
<1>2. PICK shift \in Nat :
         /\ Len(t) - 1 + shift = Len(log)
         /\ \A i \in 1 .. Len(t) - 1 : i + shift \in DOMAIN log /\ t[i] = log[i + shift]
  BY <1>0 DEF LogMoved
<1>3. ASSUME NEW i \in DOMAIN t
      PROVE  i = Len(t) \/ i \in 1 .. Len(t) - 1
  BY <1>1
<1>4. QED
  BY <1>1, <1>2, <1>3

\* What a report leaves of what alternates.
StillAlternating(s, ord, kind, odd, t) ==
    /\ Paired(t.history)
    /\ \A o, p : (IF kind = "position" /\ ord = o THEN odd # p
                  ELSE Announced(s.history, o, p))
                 => Announced(t.history, o, p)
    /\ \A bound : ord < bound /\ (\A i \in DOMAIN s.history : s.history[i].ord < bound)
                  => \A i \in DOMAIN t.history : t.history[i].ord < bound

\* record: how a report leaves the log alternating.
LEMMA RecordAlternates ==
    ASSUME NEW s \in States, NEW ord \in Nat, NEW kind \in Kinds, NEW odd \in BOOLEAN,
           NEW at \in Nat, NEW horizon, TransmissionsSound(s, horizon), Paired(s.history),
           kind = "position" => Announced(s.history, ord, odd),
           NEW t, t = Record(s, ord, kind, odd, at)
    PROVE  StillAlternating(s, ord, kind, odd, t)
<1> DEFINE f == Transmission(s, ord, kind, odd, at)
<1>1. f.kind = kind /\ f.ord = ord /\ f.odd = odd
  BY DEF Transmission
<1>2. f \in Frames /\ t.history = Retain(s.history, f, HistoryLimit)
  BY RecordEffect
<1>3. s.history \in Seq(Frames) /\ s.lastSequence \in Nat
  BY DEF States
<1>4. Len(s.history) <= HistoryLimit
  BY <1>3, EngineLimits DEF TransmissionsSound, Least
<1> HIDE DEF f
<1>5. Paired(t.history)
  BY <1>1, <1>2, <1>3, <1>4, LogStaysPaired
<1>6. ASSUME NEW o, NEW p,
             IF kind = "position" /\ ord = o THEN odd # p ELSE Announced(s.history, o, p)
      PROVE  Announced(t.history, o, p)
  <2>1. IF f.kind = "position" /\ f.ord = o THEN f.odd # p ELSE Announced(s.history, o, p)
    BY <1>1, <1>6
  <2>2. QED
    BY <1>2, <1>3, <1>4, <2>1, LogAnnounces
<1>7. ASSUME NEW bound, ord < bound, \A i \in DOMAIN s.history : s.history[i].ord < bound
      PROVE  \A i \in DOMAIN t.history : t.history[i].ord < bound
  <2>1. f.ord < bound
    BY <1>1, <1>7
  <2>2. QED
    BY <1>2, <1>3, <1>4, <1>7, <2>1, LogStaysBelow
<1>8. QED
  BY <1>5, <1>6, <1>7 DEF StillAlternating

\* The log names aircraft by number.
LEMMA LoggedAddresses ==
    ASSUME NEW s \in States
    PROVE  \A i \in DOMAIN s.history : s.history[i].ord \in Nat
<1>1. s.history \in Seq(Frames)
  BY DEF States
<1>2. \A i \in DOMAIN s.history : s.history[i] \in Frames
  BY <1>1
<1>3. QED
  BY <1>2 DEF Frames

\* runTo: one emission sends the half that was announced, and announces the other.
LEMMA EmitAlternates ==
    ASSUME NEW s \in States, NEW limit \in Nat, NEW e \in Due(s, limit), NEW t, Fired(s, e, t),
           TransmissionsSound(s, limit), Addressed(s), Alternating(s)
    PROVE  Alternating(t)
<1> DEFINE n     == e[1]
           craft == s.fleet[n]
           kind  == Families[e[2]]
           odd   == kind = "position" /\ craft.odd
           next  == Reschedule(craft, e[2])
           sent  == Record(s, craft.ord, kind, odd, craft.due[e[2]])
<1>1. n \in DOMAIN s.fleet /\ s.fleet \in Seq(Aircraft)
  BY DueFacts DEF States
<1>2. /\ craft \in Aircraft /\ craft.ord \in Nat /\ craft.due[e[2]] \in Nat
      /\ kind \in Kinds /\ odd \in BOOLEAN
      /\ t.fleet = [s.fleet EXCEPT ![n] = next]
      /\ t.history = sent.history /\ t.nextAddress = s.nextAddress
  BY Zenon DEF Fired
<1>3. /\ next.ord = craft.ord
      /\ kind = "position" => next.odd = ~craft.odd
      /\ kind # "position" => next.odd = craft.odd
  BY <1>2 DEF Reschedule, Aircraft
<1>4. craft.odd \in BOOLEAN
  BY <1>2 DEF Aircraft
<1>5. kind = "position" => odd = craft.odd
  BY <1>4
<1>6. /\ Paired(s.history)
      /\ Announced(s.history, craft.ord, craft.odd)
      /\ \A i \in DOMAIN s.history : s.history[i].ord < s.nextAddress
      /\ craft.ord < s.nextAddress
  BY <1>1 DEF Alternating, Addressed
<1>7. kind = "position" => Announced(s.history, craft.ord, odd)
  BY <1>5, <1>6
<1> HIDE DEF odd, kind, next, craft, n
<1>0. StillAlternating(s, craft.ord, kind, odd, sent)
  BY <1>2, <1>6, <1>7, RecordAlternates
<1> HIDE DEF sent
<1>8. Paired(sent.history)
  BY <1>0 DEF StillAlternating
<1>9. \A i \in DOMAIN sent.history : sent.history[i].ord < s.nextAddress
  BY <1>0, <1>6 DEF StillAlternating
<1>10. ASSUME NEW o, NEW p,
              IF kind = "position" /\ craft.ord = o THEN odd # p ELSE Announced(s.history, o, p)
       PROVE  Announced(sent.history, o, p)
  BY <1>0, <1>10 DEF StillAlternating
<1>11. Announced(sent.history, craft.ord, next.odd)
  <2>1. CASE kind = "position"
    <3>1. odd # next.odd
      BY <1>3, <1>4, <1>5, <2>1
    <3>2. QED
      BY <1>10, <2>1, <3>1
  <2>2. CASE kind # "position"
    BY <1>3, <1>6, <1>10, <2>2
  <2>3. QED
    BY <2>1, <2>2
<1>12. ASSUME NEW i \in DOMAIN s.fleet, i # n
       PROVE  Announced(sent.history, s.fleet[i].ord, s.fleet[i].odd)
  <2>1. s.fleet[i].ord # craft.ord
    <3>1. i \in Nat /\ n \in Nat /\ s.fleet[i] \in Aircraft
      BY <1>1
    <3>2. s.fleet[i].ord \in Nat
      BY <3>1 DEF Aircraft
    <3>3. i < n \/ n < i
      BY <1>12, <3>1
    <3>4. s.fleet[i].ord < craft.ord \/ craft.ord < s.fleet[i].ord
      BY <1>1, <3>3 DEF Addressed, craft
    <3>5. QED
      BY <1>2, <3>2, <3>4
  <2>2. Announced(s.history, s.fleet[i].ord, s.fleet[i].odd)
    BY DEF Alternating
  <2>3. QED
    BY <1>10, <2>1, <2>2
<1>13. \A i \in DOMAIN t.fleet : Announced(t.history, t.fleet[i].ord, t.fleet[i].odd)
  <2>1. /\ DOMAIN t.fleet = DOMAIN s.fleet
        /\ t.fleet[n] = next
        /\ \A i \in DOMAIN s.fleet \ {n} : t.fleet[i] = s.fleet[i]
    BY <1>1, <1>2
  <2>2. QED
    BY <1>2, <1>3, <1>11, <1>12, <2>1
<1>14. QED
  BY <1>2, <1>8, <1>9, <1>13 DEF Alternating

\* newAircraft: creation sends the even half, the odd one comes next.
LEMMA AddAircraftAlternates ==
    ASSUME NEW s \in States, NEW t, Created(s, t), TransmissionsSound(s, s.elapsed),
           Addressed(s), Alternating(s)
    PROVE  Alternating(t)
<1> DEFINE ord == s.nextAddress
           at  == s.elapsed
           a   == Record(s, ord, Families[1], FALSE, at)
           b   == Record(a, ord, Families[2], FALSE, at)
           c   == Record(b, ord, Families[3], FALSE, at)
           new == NewAircraft(ord, at)
<1>1. /\ a \in States /\ b \in States /\ c \in States
      /\ ord \in Nat /\ at \in Nat
      /\ t.nextAddress = ord + 1
      /\ t.fleet = Append(s.fleet, new)
      /\ t.history = c.history
  BY DEF Created
<1>2. 1 \in DOMAIN Families /\ 2 \in DOMAIN Families /\ 3 \in DOMAIN Families
  BY ThreeFamilies
<1>3. /\ Families[1] \in Kinds /\ Families[2] \in Kinds /\ Families[3] \in Kinds
      /\ Families[1] # "position" /\ Families[2] = "position" /\ Families[3] # "position"
  BY <1>2 DEF Kinds, Families
<1>4. FALSE \in BOOLEAN
  OBVIOUS
<1>5. a.elapsed = at /\ TransmissionsSound(a, a.elapsed)
  BY <1>1, <1>2, CreationReport
<1> HIDE DEF ord, at
<1>6. b.elapsed = at /\ TransmissionsSound(b, b.elapsed)
  <2> HIDE DEF a
  <2>1. LET u == Record(a, ord, Families[2], FALSE, a.elapsed) IN
        u.elapsed = a.elapsed /\ TransmissionsSound(u, u.elapsed)
    BY <1>1, <1>2, <1>5, CreationReport
  <2>2. QED
    BY <1>5, <2>1
<1>7. /\ Paired(s.history)
      /\ \A i \in DOMAIN s.history : s.history[i].ord < ord
      /\ \A i \in DOMAIN s.history : s.history[i].ord < ord + 1
      /\ ord < ord + 1
  <2>1. \A i \in DOMAIN s.history : s.history[i].ord \in Nat
    BY LoggedAddresses
  <2>2. QED
    BY <1>1, <2>1 DEF Alternating, ord
<1>8. \A p : Announced(s.history, ord, p)
  <2>1. \A i \in DOMAIN s.history : s.history[i].ord \in Nat
    BY LoggedAddresses
  <2>2. \A i \in DOMAIN s.history : s.history[i].ord # ord
    BY <1>1, <1>7, <2>1
  <2>3. QED
    BY <2>2 DEF Announced, Positional
<1>16. StillAlternating(s, ord, Families[1], FALSE, a)
  BY <1>1, <1>3, <1>4, <1>7, <1>8, RecordAlternates DEF ord, at
<1> HIDE DEF a
<1>9. /\ Paired(a.history)
      /\ \A i \in DOMAIN a.history : a.history[i].ord < ord + 1
      /\ \A o, p : Announced(s.history, o, p) => Announced(a.history, o, p)
  BY <1>3, <1>7, <1>16 DEF StillAlternating
<1>10. \A p : Announced(a.history, ord, p)
  BY <1>8, <1>9
<1>17. StillAlternating(a, ord, Families[2], FALSE, b)
  BY <1>1, <1>3, <1>4, <1>5, <1>9, <1>10, RecordAlternates
<1> HIDE DEF b
<1>11. /\ Paired(b.history)
       /\ \A i \in DOMAIN b.history : b.history[i].ord < ord + 1
       /\ \A o, p : (IF ord = o THEN FALSE # p ELSE Announced(a.history, o, p))
                    => Announced(b.history, o, p)
  BY <1>3, <1>7, <1>9, <1>17 DEF StillAlternating
<1>18. StillAlternating(b, ord, Families[3], FALSE, c)
  BY <1>1, <1>3, <1>4, <1>6, <1>11, RecordAlternates
<1> HIDE DEF c
<1>12. /\ Paired(c.history)
       /\ \A i \in DOMAIN c.history : c.history[i].ord < ord + 1
       /\ \A o, p : Announced(b.history, o, p) => Announced(c.history, o, p)
  BY <1>3, <1>7, <1>11, <1>18 DEF StillAlternating
<1>13. Announced(c.history, new.ord, new.odd)
  <2>1. new.ord = ord /\ new.odd = TRUE
    BY DEF NewAircraft
  <2>2. QED
    BY <1>11, <1>12, <2>1
<1>14. ASSUME NEW i \in DOMAIN s.fleet
       PROVE  Announced(c.history, s.fleet[i].ord, s.fleet[i].odd)
  <2>1. s.fleet[i].ord < ord /\ s.fleet[i] \in Aircraft
    BY DEF Addressed, ord, States
  <2>2. s.fleet[i].ord # ord
    BY <1>1, <2>1, EngineLimits DEF Aircraft
  <2>3. Announced(s.history, s.fleet[i].ord, s.fleet[i].odd)
    BY DEF Alternating
  <2>4. QED
    BY <1>9, <1>11, <1>12, <2>2, <2>3
<1> HIDE DEF new
<1>15. \A i \in DOMAIN t.fleet : Announced(t.history, t.fleet[i].ord, t.fleet[i].odd)
  <2>1. s.fleet \in Seq(Aircraft) /\ Len(s.fleet) \in Nat
    BY DEF States
  <2>2. ASSUME NEW i \in DOMAIN t.fleet
        PROVE  \/ i \in DOMAIN s.fleet /\ t.fleet[i] = s.fleet[i]
               \/ t.fleet[i] = new
    BY <1>1, <2>1
  <2>3. QED
    BY <1>1, <1>13, <1>14, <2>2
<1>19. QED
  BY <1>1, <1>12, <1>15 DEF Alternating

\* A mutation that reports nothing and keeps a part of the fleet keeps what
\* alternates.
LEMMA QuietAlternates ==
    ASSUME NEW s, Alternating(s), NEW t, t.history = s.history, t.nextAddress = s.nextAddress,
           \A i \in DOMAIN t.fleet : i \in DOMAIN s.fleet /\ t.fleet[i] = s.fleet[i]
    PROVE  Alternating(t)
BY DEF Alternating

\* What is committed becomes the clone too.
LEMMA CommitAlternates ==
    ASSUME NEW u, Alternating(u), Commit(u)
    PROVE  Alternating(state)' /\ Alternating(staged)'
<1>1. state' = u /\ staged' = u
  BY DEF Commit
<1>2. QED
  BY <1>1

\* runTo's loop and addAircraft's loop: the clone keeps it.
LEMMA CloneAlternates ==
    ASSUME IInv, Fire \/ Create
    PROVE  Alternating(staged)' /\ state' = state
<1>1. TypeOK /\ Cloned /\ staged \in States /\ Addressed(staged) /\ Alternating(staged)
  BY DEF IInv, LogInv, TypeOK, Kept
<1>2. TransmissionsSound(staged, Horizon) /\ Scheduled(staged, Horizon)
  BY <1>1 DEF Cloned, ClonedLogInOrder
<1>3. CASE Fire
  <2>1. Horizon = target.elapsed /\ target.elapsed \in Nat /\ state' = state
    BY <1>1, <1>3 DEF Fire, Horizon, TypeOK
  <2>2. PICK e \in Due(staged, target.elapsed) : staged' = Emit(staged, e)
    BY <1>3 DEF Fire
  <2> DEFINE u == staged'
  <2>3. u = Emit(staged, e)
    BY <2>2
  <2> HIDE DEF u
  <2>4. /\ e[1] \in DOMAIN staged.fleet
        /\ e[2] \in DOMAIN Families
        /\ staged.fleet[e[1]].due[e[2]] \in Nat
    BY <1>1, <2>1, DueFacts
  <2>5. staged.fleet[e[1]].draws[e[2]] \in 0 .. MaxDuration
    BY <1>2, <2>4, EngineLimits DEF Scheduled
  <2>6. Fired(staged, e, u)
    BY <1>1, <2>1, <2>3, <2>5, EmitFires
  <2>7. Alternating(u)
    BY <1>1, <1>2, <2>1, <2>6, EmitAlternates
  <2>8. QED
    BY <2>1, <2>7 DEF u
<1>4. CASE Create
  <2>1. Horizon = staged.elapsed /\ state' = state
    BY <1>4 DEF Create, Horizon
  <2>2. staged.nextAddress \in 1 .. MaxAddress
    <3>1. staged.nextAddress \in Nat
      BY <1>1 DEF States
    <3>2. QED
      BY <1>1, <1>4, <3>1, EngineLimits DEF Cloned, Allocated, Create
  <2> DEFINE u == AddAircraft(staged)
  <2>3. u = AddAircraft(staged)
    OBVIOUS
  <2>4. staged' = u
    BY <1>4 DEF Create
  <2> HIDE DEF u
  <2>5. Created(staged, u)
    BY <1>1, <2>2, <2>3, AddAircraftCreates
  <2>6. Alternating(u)
    BY <1>1, <1>2, <2>1, <2>5, AddAircraftAlternates
  <2>7. QED
    BY <2>1, <2>4, <2>6
<1>5. QED
  BY <1>3, <1>4

\* A mutation that emits nothing.
LEMMA MutatedAlternates ==
    ASSUME NEW s, Alternating(s), NEW t, Mutated(s, t)
    PROVE  Alternating(t)
BY QuietAlternates DEF Mutated, SameLog, Survivors

\* Every step of the engine keeps what alternates.
LEMMA NextAlternates ==
    IInv /\ [Next]_vars => Alternating(state)' /\ Alternating(staged)'
<1> SUFFICES ASSUME IInv, [Next]_vars PROVE Alternating(state)' /\ Alternating(staged)'
  OBVIOUS
<1>1. /\ TypeOK /\ state \in States /\ staged \in States
      /\ Alternating(state) /\ Alternating(staged)
  BY DEF IInv, LogInv, TypeOK
<1>2. CASE UNCHANGED vars \/ Begins
  BY <1>1, <1>2, BeginsQuietly DEF vars
<1>3. CASE Fire \/ Create
  BY <1>1, <1>3, CloneAlternates
<1>4. CASE CommitRun
  <2>1. PICK u : Commit(u) /\ Arrived(staged, target.elapsed, target.carry, u)
    BY <1>1, <1>4, CommitRunArrives
  <2>2. Alternating(u)
    BY <1>1, <2>1, QuietAlternates DEF Arrived
  <2>3. QED
    BY <2>1, <2>2, CommitAlternates
<1>5. CASE CommitGrow \/ Abort
  BY <1>1, <1>5, CommitAlternates DEF CommitGrow, Abort
<1>6. CASE Mutates
  BY <1>1, <1>6, MutatedAlternates, CommitAlternates DEF Mutates, AtOnce
<1>7. QED
  BY <1>1, <1>2, <1>3, <1>4, <1>5, <1>6, StepCases

\* New: nothing was reported.
LEMMA InitAlternates == Init => Alternating(state) /\ Alternating(staged)
<1> SUFFICES ASSUME Init PROVE Alternating(state) /\ Alternating(staged)
  OBVIOUS
<1>1. state.history = <<>> /\ state.fleet = <<>> /\ staged = state
  BY DEF Init, Empty
<1>2. DOMAIN <<>> = {}
  OBVIOUS
<1>3. QED
  BY <1>1, <1>2 DEF Alternating, Paired

\* What alternates alternates as the two halves of a CPR pair should.
LEMMA AlternatingIsParity ==
    ASSUME NEW s \in States, Alternating(s)
    PROVE  ParityAlternates(s)
<1> DEFINE log == s.history
<1>1. ASSUME NEW ord, NEW i
      PROVE  i \in Positions(s, ord) <=> i \in DOMAIN log /\ Positional(log, i, ord)
  BY Zenon DEF Positions, Positional
<1>2. DOMAIN log \subseteq Nat
  BY DEF States
<1>3. Paired(log) /\ \A n \in DOMAIN s.fleet : Announced(log, s.fleet[n].ord, s.fleet[n].odd)
  BY DEF Alternating
<1>4. ASSUME NEW i \in DOMAIN log, NEW j \in DOMAIN log, i < j,
             log[i].kind = "position", log[j].kind = "position", log[i].ord = log[j].ord,
             \A k \in Positions(s, log[i].ord) : ~(i < k /\ k < j)
      PROVE  log[i].odd # log[j].odd
  <2>1. \A k \in DOMAIN log : i < k /\ k < j => ~Positional(log, k, log[j].ord)
    BY <1>1, <1>4
  <2>2. Positional(log, i, log[j].ord)
    BY <1>4 DEF Positional
  <2>3. QED
    BY <1>3, <1>4, <2>1, <2>2, Zenon DEF Paired
<1>5. ASSUME NEW n \in DOMAIN s.fleet, NEW i \in Positions(s, s.fleet[n].ord),
             \A k \in Positions(s, s.fleet[n].ord) : k <= i
      PROVE  log[i].odd # s.fleet[n].odd
  <2>1. i \in DOMAIN log /\ Positional(log, i, s.fleet[n].ord)
    BY <1>1
  <2>2. ASSUME NEW k \in DOMAIN log, i < k
        PROVE  ~Positional(log, k, s.fleet[n].ord)
    <3>1. i \in Nat /\ k \in Nat
      BY <1>2, <2>1
    <3>2. ~(k <= i)
      BY <2>2, <3>1
    <3>3. QED
      BY <1>1, <1>5, <3>2
  <2>3. QED
    BY <1>3, <2>1, <2>2, Zenon DEF Announced
<1>6. QED
  BY <1>4, <1>5, Zenon DEF ParityAlternates

-------------------------------------------------------------------------------
(***************************************************************************)
(* Theorems.                                                               *)
(***************************************************************************)

\* The log and the schedules stay consistent in the clone and in the committed
\* state, whatever is interrupted.
THEOREM LogInvariance == Spec => []LogInv
<1>1. Init => LogInv
  BY InitLogInv
<1>2. LogInv /\ [Next]_vars => LogInv'
  BY NextKeepsLogInv
<1>3. QED
  BY <1>1, <1>2, PTL DEF Spec

\* So do what every station received and who is who.
THEOREM EngineInvariance == Spec => []IInv
<1>1. Init => IInv
  BY InitLogInv, InitKept, InitAlternates DEF IInv, Init, Underway
<1>2. IInv /\ [Next]_vars => IInv'
  BY NextKeepsLogInv, NextKeepsKept, NextAlternates, NextKeepsUnderway DEF IInv
<1>3. QED
  BY <1>1, <1>2, PTL DEF Spec

\* clone, runTo, addAircraft and the context checks: whatever is interrupted and
\* wherever, a reader finds the state before a mutation or what the whole mutation
\* computes, never what a part of it emitted.
THEOREM MutationsAreAtomic == Spec => MutatesAtomically
<1>1. Init => Atomic!Init
  BY Zenon DEF Init, Atomic!Init, Empty, Atomic!Empty
<1>2. IInv /\ [Next]_vars => [Atomic!Next]_state
  BY StepsAreAtomic
<1>3. QED
  BY <1>1, <1>2, EngineInvariance, PTL DEF Spec, MutatesAtomically, Atomic!Spec

\* record and runTo: readers always find the newest transmissions, numbered
\* without a hole and in chronological order, none in the future.
THEOREM LogAlwaysInOrder == Spec => []LogInOrder
<1>1. LogInv => LogInOrder
  BY DEF LogInv, Committed
<1>2. QED
  BY <1>1, LogInvariance, PTL

\* nextEvent and rescheduleAfter: no deadline is ever overdue or skipped.
THEOREM NeverOverdue == Spec => []NothingOverdue
<1>1. LogInv => NothingOverdue
  <2> SUFFICES ASSUME LogInv PROVE NothingOverdue
    OBVIOUS
  <2>1. Scheduled(state, state.elapsed)
    BY DEF LogInv, Committed
  <2>2. QED
    BY <2>1 DEF NothingOverdue, SchedulesSound, Scheduled
<1>2. QED
  BY <1>1, LogInvariance, PTL

\* deliver: every station always numbers what it received without a hole,
\* retains the newest, heard no transmission twice and none from before its
\* creation, and all retained copies of one transmission are the same.
THEOREM ReceptionsAlwaysSound == Spec => []Atomic!Receptions
<1>1. IInv => Atomic!Receptions
  <2> SUFFICES ASSUME IInv PROVE Atomic!Receptions
    OBVIOUS
  <2>1. CopiesAgree(state)
    BY DEF IInv, Kept
  <2>2. \A n \in DOMAIN state.active : Listened(state.active[n], state.lastSequence)
    BY DEF IInv, Kept
  <2>3. ReceptionsSound(state)
    BY <2>2, Zenon DEF ReceptionsSound, Listened
  <2>4. ReceptionsSound(state) => Atomic!ReceptionsSound(state)
    BY Zenon DEF ReceptionsSound, Atomic!ReceptionsSound, Least, Atomic!Least
  <2>5. CopiesAgree(state) => Atomic!CopiesAgree(state)
    BY Zenon DEF CopiesAgree, Copies, CopiesOf,
                 Atomic!CopiesAgree, Atomic!Copies, Atomic!CopiesOf
  <2>6. QED
    BY <2>1, <2>3, <2>4, <2>5 DEF Atomic!Receptions
<1>2. QED
  BY <1>1, EngineInvariance, PTL

\* deliver and update: a reception names settings that were in effect and that
\* made it possible, and the current revision always means the current settings.
THEOREM ProvenanceAlwaysSound == Spec => []Atomic!Provenance
<1>1. IInv => Atomic!Provenance
  <2> SUFFICES ASSUME IInv PROVE Atomic!Provenance
    OBVIOUS
  <2>1. \A n \in DOMAIN state.active : Listened(state.active[n], state.lastSequence)
    BY DEF IInv, Kept
  <2>2. ProvenanceSound(state)
    BY <2>1, Zenon DEF ProvenanceSound, Listened
  <2>3. EvidenceSound(state)
    BY <2>1, Zenon DEF EvidenceSound, Listened
  <2>4. ProvenanceSound(state) => Atomic!ProvenanceSound(state)
    BY Zenon DEF ProvenanceSound, Atomic!ProvenanceSound
  <2>5. EvidenceSound(state) => Atomic!EvidenceSound(state)
    BY Zenon DEF EvidenceSound, Atomic!EvidenceSound
  <2>6. QED
    BY <2>2, <2>3, <2>4, <2>5 DEF Atomic!Provenance
<1>2. QED
  BY <1>1, EngineInvariance, PTL

\* allocate and registry.add: no two stations and no two aircraft ever share an
\* identifier or a random stream.
THEOREM IdentitiesAlwaysSound == Spec => []Atomic!Identities
<1>1. IInv => Atomic!Identities
  <2> SUFFICES ASSUME IInv PROVE Atomic!Identities
    OBVIOUS
  <2>1. Registered(state) /\ Addressed(state)
    BY DEF IInv, Kept
  <2>2. ActiveIds(state) \subseteq state.reserved
    BY <2>1 DEF Registered, ActiveIds
  <2>3. IdentitiesSound(state)
    BY <2>1, <2>2, Zenon DEF Registered, Addressed, IdentitiesSound
  <2>4. IdentitiesSound(state) => Atomic!IdentitiesSound(state)
    BY Zenon DEF IdentitiesSound, ActiveIds, Atomic!IdentitiesSound, Atomic!ActiveIds
  <2>5. QED
    BY <2>3, <2>4 DEF Atomic!Identities
<1>2. QED
  BY <1>1, EngineInvariance, PTL

\* runTo and newAircraft: the position reports of an aircraft always alternate
\* between the two halves of a CPR pair, whatever was interrupted, evicted or
\* removed in between.
THEOREM ParityAlwaysAlternates == Spec => []Atomic!Parity
<1>1. IInv => Atomic!Parity
  <2> SUFFICES ASSUME IInv PROVE Atomic!Parity
    OBVIOUS
  <2>1. Alternating(state) /\ state \in States
    BY DEF IInv, LogInv, TypeOK
  <2>2. ParityAlternates(state)
    BY <2>1, AlternatingIsParity
  <2>3. ParityAlternates(state) => Atomic!ParityAlternates(state)
    BY Zenon DEF ParityAlternates, Positions, Atomic!ParityAlternates, Atomic!Positions
  <2>4. QED
    BY <2>2, <2>3 DEF Atomic!Parity
<1>2. QED
  BY <1>1, EngineInvariance, PTL

-------------------------------------------------------------------------------
(***************************************************************************)
(* The engines of EngineTwins run each mutation in one step: one iteration   *)
(* after the other, for every state a mutation can start from.             *)
(***************************************************************************)

\* Nothing is drawn more often than time allows.
Prepared(s) ==
    /\ s \in States
    /\ \A i \in DOMAIN s.fleet : \A k \in DOMAIN Families :
          s.fleet[i].draws[k] \in 1 .. s.fleet[i].due[k]

\* nextEvent: when something is due, one event is next.
LEMMA NextIsDue ==
    ASSUME NEW s \in States, NEW limit \in Nat, Due(s, limit) # {}
    PROVE  /\ NextEvent(s, limit) \in Due(s, limit)
           /\ IsNext(s, limit, NextEvent(s, limit))
<1> DEFINE At(e) == s.fleet[e[1]].due[e[2]]
           Ats == {At(e) : e \in Due(s, limit)}
<1>1. \A e \in Due(s, limit) : /\ At(e) \in Nat /\ e[1] \in Nat /\ e[2] \in Nat
                               /\ e = <<e[1], e[2]>>
  <2>1. ASSUME NEW e \in Due(s, limit)
        PROVE  At(e) \in Nat /\ e[1] \in DOMAIN s.fleet /\ e[2] \in DOMAIN Families
    BY DueFacts
  <2>2. DOMAIN s.fleet \subseteq Nat /\ DOMAIN Families \subseteq Nat
    BY ThreeFamilies DEF States
  <2>3. \A e \in Due(s, limit) : e = <<e[1], e[2]>>
    BY DEF Due
  <2>4. QED
    BY <2>1, <2>2, <2>3
<1>2. PICK at \in Ats : \A b \in Ats : at <= b
  <2>1. Ats \subseteq Nat /\ Ats # {}
    BY <1>1
  <2> HIDE DEF Ats
  <2>2. QED
    BY <2>1, LeastNumber
<1> DEFINE Firsts == {e[1] : e \in {f \in Due(s, limit) : At(f) = at}}
<1>3. PICK n \in Firsts : \A m \in Firsts : n <= m
  <2>1. Firsts \subseteq Nat /\ Firsts # {}
    BY <1>1
  <2> HIDE DEF Firsts
  <2>2. QED
    BY <2>1, LeastNumber
<1> DEFINE Seconds == {e[2] : e \in {f \in Due(s, limit) : At(f) = at /\ f[1] = n}}
<1>4. PICK k \in Seconds : \A j \in Seconds : k <= j
  <2>1. Seconds \subseteq Nat /\ Seconds # {}
    BY <1>1, <1>3
  <2> HIDE DEF Seconds
  <2>2. QED
    BY <2>1, LeastNumber
<1>5. PICK e \in Due(s, limit) : At(e) = at /\ e[1] = n /\ e[2] = k
  BY <1>4
<1>6. ASSUME NEW f \in Due(s, limit), f # e
      PROVE  Precedes(s, e, f)
  <2>1. At(f) \in Nat /\ f[1] \in Nat /\ f[2] \in Nat /\ at \in Nat /\ n \in Nat /\ k \in Nat
    BY <1>1, <1>5
  <2>2. at <= At(f)
    BY <1>2
  <2>3. At(f) = at => n <= f[1]
    BY <1>3
  <2>4. At(f) = at /\ f[1] = n => k <= f[2]
    BY <1>4
  <2>5. f[1] # n \/ f[2] # k
    BY <1>1, <1>5, <1>6
  <2> HIDE DEF Ats, Firsts, Seconds
  <2>6. at < At(f) \/ (at = At(f) /\ n < f[1]) \/ (at = At(f) /\ n = f[1] /\ k < f[2])
    BY <2>1, <2>2, <2>3, <2>4, <2>5
  <2>7. QED
    BY <1>5, <2>6 DEF Precedes
<1>7. IsNext(s, limit, e)
  BY <1>6 DEF IsNext
<1>8. NextEvent(s, limit) = e
  BY <1>7, OneNextEvent
<1>9. QED
  BY <1>7, <1>8

\* The same stations, by name and place.
StationsStay(s, t) ==
    /\ DOMAIN t.active = DOMAIN s.active
    /\ \A i \in DOMAIN s.active : t.active[i].id = s.active[i].id

\* runTo's loop only goes forward: it advances deadlines and numbers, and leaves
\* the clock, the registry, who is who and how many there are alone.
Onward(s, t) ==
    /\ t.elapsed = s.elapsed
    /\ t.carry = s.carry
    /\ t.speed = s.speed
    /\ t.nextAddress = s.nextAddress
    /\ t.reserved = s.reserved
    /\ t.nextStation = s.nextStation
    /\ t.lastSequence >= s.lastSequence
    /\ StationsStay(s, t)
    /\ DOMAIN t.fleet = DOMAIN s.fleet
    /\ \A i \in DOMAIN s.fleet :
          /\ t.fleet[i].ord = s.fleet[i].ord
          /\ \A k \in DOMAIN Families : t.fleet[i].due[k] >= s.fleet[i].due[k]

\* deliver: a station keeps its name.
LEMMA ReceiveKeepsName ==
    ASSUME NEW st \in Stations, NEW frame
    PROVE  Receive(st, frame).id = st.id
BY DEF Receive, Stations

\* record: so do all of them.
LEMMA RecordKeepsNames ==
    ASSUME NEW s \in States, NEW ord \in Nat, NEW kind \in Kinds, NEW odd \in BOOLEAN,
           NEW at \in Nat, NEW t, t = Record(s, ord, kind, odd, at)
    PROVE  StationsStay(s, t)
<1>1. /\ DOMAIN t.active = DOMAIN s.active
      /\ \A i \in DOMAIN s.active :
            t.active[i] = Receive(s.active[i], Transmission(s, ord, kind, odd, at))
  BY RecordDelivers
<1>2. \A i \in DOMAIN s.active : s.active[i] \in Stations
  BY DEF States
<1>3. QED
  BY <1>1, <1>2, ReceiveKeepsName DEF StationsStay

\* runTo: one iteration goes forward.
LEMMA EmitGoesOn ==
    ASSUME NEW s, Prepared(s), NEW limit \in Nat, limit <= MaxDuration,
           NEW e \in Due(s, limit), NEW t, t = Emit(s, e)
    PROVE  /\ Fired(s, e, t)
           /\ Prepared(t)
           /\ Onward(s, t)
<1> DEFINE craft == s.fleet[e[1]]
           next  == Reschedule(craft, e[2])
<1>1. s \in States /\ s.fleet \in Seq(Aircraft) /\ s.lastSequence \in Nat
  BY DEF Prepared, States
<1>2. /\ e[1] \in DOMAIN s.fleet
      /\ e[2] \in DOMAIN Families
      /\ craft \in Aircraft
      /\ craft.due[e[2]] \in Nat
      /\ craft.due[e[2]] <= limit
  BY <1>1, DueFacts
<1>3. craft.draws[e[2]] \in 1 .. craft.due[e[2]]
  BY <1>2 DEF Prepared
<1>4. craft.draws[e[2]] \in 0 .. MaxDuration
  BY <1>2, <1>3, EngineLimits
<1>5. Fired(s, e, t)
  BY <1>1, <1>4, EmitFires
<1>6. t \in States /\ t.fleet = [s.fleet EXCEPT ![e[1]] = next]
  BY <1>5, Zenon DEF Fired
<1>7. /\ next.ord = craft.ord
      /\ next.due[e[2]] = craft.due[e[2]] + Interval(craft.ord, e[2], craft.draws[e[2]])
      /\ next.draws[e[2]] = craft.draws[e[2]] + 1
      /\ \A j \in DOMAIN Families \ {e[2]} :
            next.due[j] = craft.due[j] /\ next.draws[j] = craft.draws[j]
  BY <1>2, <1>4, RescheduleEffect
<1>8. Interval(craft.ord, e[2], craft.draws[e[2]]) \in Nat \ {0}
  BY <1>2, <1>4, IntervalsArePositive DEF Aircraft
<1>9. \A k \in DOMAIN Families :
         /\ craft.due[k] \in Nat /\ craft.draws[k] \in 1 .. craft.due[k]
  BY <1>2 DEF Aircraft, Prepared
<1>10. \A k \in DOMAIN Families :
          next.due[k] >= craft.due[k] /\ next.draws[k] \in 1 .. next.due[k]
  <2> HIDE DEF next, craft
  <2>1. QED
    BY <1>2, <1>7, <1>8, <1>9
<1> HIDE DEF next
<1>11. /\ DOMAIN t.fleet = DOMAIN s.fleet
       /\ t.fleet[e[1]] = next
       /\ \A i \in DOMAIN s.fleet \ {e[1]} : t.fleet[i] = s.fleet[i]
  BY <1>1, <1>2, <1>6
<1>12. Prepared(t)
  BY <1>6, <1>10, <1>11 DEF Prepared
<1>13. \A i \in DOMAIN s.fleet :
          /\ t.fleet[i].ord = s.fleet[i].ord
          /\ \A k \in DOMAIN Families : t.fleet[i].due[k] >= s.fleet[i].due[k]
  <2>1. ASSUME NEW i \in DOMAIN s.fleet, i # e[1]
        PROVE  /\ t.fleet[i] = s.fleet[i]
               /\ \A k \in DOMAIN Families : s.fleet[i].due[k] \in Nat
    <3>1. t.fleet[i] = s.fleet[i]
      BY <1>11, <2>1
    <3>2. s.fleet[i] \in Aircraft
      BY <1>1
    <3>3. \A k \in DOMAIN Families : s.fleet[i].due[k] \in Nat
      BY <3>2 DEF Aircraft
    <3>4. QED
      BY <3>1, <3>3
  <2>2. QED
    BY <1>7, <1>10, <1>11, <2>1
<1>14. StationsStay(s, t)
  <2> DEFINE kind == Families[e[2]]
             odd  == kind = "position" /\ craft.odd
             sent == Record(s, craft.ord, kind, odd, craft.due[e[2]])
  <2>1. kind \in Kinds /\ odd \in BOOLEAN /\ craft.ord \in Nat /\ t.active = sent.active
    BY <1>5, Zenon DEF Fired
  <2> HIDE DEF kind, odd, craft
  <2>2. StationsStay(s, sent)
    BY <1>1, <1>2, <2>1, RecordKeepsNames
  <2>3. QED
    BY <2>1, <2>2 DEF StationsStay
<1>15. /\ t.elapsed = s.elapsed /\ t.carry = s.carry /\ t.speed = s.speed
       /\ t.nextAddress = s.nextAddress /\ t.reserved = s.reserved
       /\ t.nextStation = s.nextStation /\ t.lastSequence = s.lastSequence + 1
  BY <1>5, Zenon DEF Fired
<1>16. Onward(s, t)
  BY <1>1, <1>11, <1>13, <1>14, <1>15 DEF Onward
<1>17. QED
  BY <1>5, <1>12, <1>16

\* Going forward twice is going forward.
LEMMA OnwardAgain ==
    ASSUME NEW s \in States, NEW t \in States, NEW u \in States, Onward(s, t), Onward(t, u)
    PROVE  Onward(s, u)
<1>1. /\ s.lastSequence \in Nat /\ t.lastSequence \in Nat /\ u.lastSequence \in Nat
      /\ s.fleet \in Seq(Aircraft) /\ t.fleet \in Seq(Aircraft) /\ u.fleet \in Seq(Aircraft)
  BY DEF States
<1>2. u.lastSequence >= s.lastSequence
  BY <1>1 DEF Onward
<1>3. DOMAIN t.fleet = DOMAIN s.fleet /\ DOMAIN u.fleet = DOMAIN s.fleet
  BY DEF Onward
<1>4. ASSUME NEW i \in DOMAIN s.fleet, NEW k \in DOMAIN Families
      PROVE  u.fleet[i].due[k] >= s.fleet[i].due[k]
  <2>1. s.fleet[i] \in Aircraft /\ t.fleet[i] \in Aircraft /\ u.fleet[i] \in Aircraft
    BY <1>1, <1>3
  <2>2. s.fleet[i].due[k] \in Nat /\ t.fleet[i].due[k] \in Nat /\ u.fleet[i].due[k] \in Nat
    BY <2>1 DEF Aircraft
  <2>3. t.fleet[i].due[k] >= s.fleet[i].due[k] /\ u.fleet[i].due[k] >= t.fleet[i].due[k]
    BY <1>3 DEF Onward
  <2>4. QED
    BY <2>2, <2>3
<1>5. QED
  BY <1>2, <1>4 DEF Onward, StationsStay

\* Standing still is going forward.
LEMMA OnwardAtRest ==
    ASSUME NEW s \in States
    PROVE  Onward(s, s)
<1>1. s.lastSequence \in Nat /\ s.fleet \in Seq(Aircraft)
  BY DEF States
<1>2. \A i \in DOMAIN s.fleet : s.fleet[i] \in Aircraft
  BY <1>1
<1>3. \A i \in DOMAIN s.fleet : \A k \in DOMAIN Families : s.fleet[i].due[k] \in Nat
  BY <1>2 DEF Aircraft
<1>4. QED
  BY <1>1, <1>3 DEF Onward, StationsStay

\* runTo: the whole loop goes forward.
LEMMA EmissionsGoOn ==
    ASSUME NEW s, Prepared(s), NEW limit \in Nat, limit <= MaxDuration
    PROVE  \A n \in Nat : Prepared(Emissions(s, limit)[n]) /\ Onward(s, Emissions(s, limit)[n])
<1> DEFINE e == Emissions(s, limit)
           S == {n \in Nat : Prepared(e[n]) /\ Onward(s, e[n])}
<1>1. s \in States
  BY DEF Prepared
<1>2. e[0] = s /\ \A n \in Nat : e[n + 1] = Iterate(e[n], limit)
  BY EmissionsIterate
<1> HIDE DEF e
<1>3. 0 \in S
  BY <1>1, <1>2, OnwardAtRest
<1>4. ASSUME NEW n \in Nat, n \in S
      PROVE  n + 1 \in S
  <2>1. Prepared(e[n]) /\ Onward(s, e[n]) /\ e[n] \in States
    BY <1>4 DEF Prepared
  <2>2. CASE Due(e[n], limit) = {}
    BY <1>2, <2>1, <2>2 DEF Iterate
  <2>3. CASE Due(e[n], limit) # {}
    <3> DEFINE f == NextEvent(e[n], limit)
    <3>1. f \in Due(e[n], limit)
      BY <2>1, <2>3, NextIsDue
    <3>2. e[n + 1] = Emit(e[n], f)
      BY <1>2, <2>3 DEF Iterate
    <3> HIDE DEF f
    <3>3. Prepared(e[n + 1]) /\ Onward(e[n], e[n + 1])
      BY <2>1, <3>1, <3>2, EmitGoesOn
    <3>4. e[n + 1] \in States
      BY <3>3 DEF Prepared
    <3>5. Onward(s, e[n + 1])
      BY <1>1, <2>1, <3>3, <3>4, OnwardAgain
    <3>6. QED
      BY <3>3, <3>5
  <2>4. QED
    BY <2>2, <2>3
<1> HIDE DEF S
<1>5. Nat \subseteq S
  BY <1>3, <1>4, EveryNumber
<1>6. QED
  BY <1>5 DEF S, e

\* runTo: what follows an iteration is a loop that starts there.
LEMMA EmissionsShift ==
    ASSUME NEW s, NEW limit, NEW n \in Nat
    PROVE  \A m \in Nat : Emissions(Emissions(s, limit)[n], limit)[m] = Emissions(s, limit)[n + m]
<1> DEFINE e == Emissions(s, limit)
           f == Emissions(e[n], limit)
           S == {m \in Nat : f[m] = e[n + m]}
<1>1. \A m \in Nat : e[m + 1] = Iterate(e[m], limit)
  BY EmissionsIterate
<1>2. f[0] = e[n] /\ \A m \in Nat : f[m + 1] = Iterate(f[m], limit)
  BY EmissionsIterate
<1> HIDE DEF e, f
<1>3. 0 \in S
  BY <1>2
<1>4. ASSUME NEW m \in Nat, m \in S
      PROVE  m + 1 \in S
  <2>1. n + (m + 1) = (n + m) + 1 /\ n + m \in Nat
    OBVIOUS
  <2>2. f[m + 1] = e[(n + m) + 1]
    BY <1>1, <1>2, <1>4, <2>1
  <2>3. QED
    BY <2>1, <2>2
<1> HIDE DEF S
<1>5. Nat \subseteq S
  BY <1>3, <1>4, EveryNumber
<1>6. QED
  BY <1>5 DEF S, e, f

\* runTo: the number of transmissions is the number of iterations.
LEMMA EmissionsCount ==
    ASSUME NEW s, Prepared(s), NEW limit \in Nat, limit <= MaxDuration, NEW n \in Nat,
           Due(Emissions(s, limit)[n], limit) # {}
    PROVE  Emissions(s, limit)[n + 1].lastSequence = s.lastSequence + n + 1
<1> DEFINE e == Emissions(s, limit)
           S == {m \in Nat : m <= n + 1 => e[m].lastSequence = s.lastSequence + m}
<1>1. e[0] = s /\ \A m \in Nat : e[m + 1] = Iterate(e[m], limit)
  BY EmissionsIterate
<1>2. \A m \in Nat : Prepared(e[m])
  BY EmissionsGoOn
<1>3. ASSUME NEW m \in Nat, m <= n
      PROVE  Due(e[m], limit) # {}
  BY <1>3, NothingLeft
<1>4. s.lastSequence \in Nat
  BY DEF Prepared, States
<1> HIDE DEF e
<1>5. 0 \in S
  BY <1>1, <1>4
<1>6. ASSUME NEW m \in Nat, m \in S
      PROVE  m + 1 \in S
  <2>1. SUFFICES ASSUME m + 1 <= n + 1
                 PROVE  e[m + 1].lastSequence = s.lastSequence + (m + 1)
    OBVIOUS
  <2>2. m <= n /\ e[m].lastSequence = s.lastSequence + m
    BY <1>6, <2>1
  <2> DEFINE f == NextEvent(e[m], limit)
  <2>3. Due(e[m], limit) # {} /\ e[m] \in States /\ Prepared(e[m])
    BY <1>2, <1>3, <2>2 DEF Prepared
  <2>4. f \in Due(e[m], limit)
    BY <2>3, NextIsDue
  <2>5. e[m + 1] = Emit(e[m], f)
    BY <1>1, <2>3 DEF Iterate
  <2> HIDE DEF f
  <2>6. Fired(e[m], f, e[m + 1])
    BY <2>3, <2>4, <2>5, EmitGoesOn
  <2>7. e[m + 1].lastSequence = e[m].lastSequence + 1
    BY <2>6, Zenon DEF Fired
  <2>8. QED
    BY <1>4, <2>2, <2>7
<1> HIDE DEF S
<1>7. Nat \subseteq S
  BY <1>5, <1>6, EveryNumber
<1>8. n + 1 \in S
  BY <1>7
<1>9. QED
  BY <1>4, <1>8 DEF S, e

\* runTo: a run within its bounds leaves nothing due.
LEMMA BoundedRunSettles ==
    ASSUME NEW s, Prepared(s), NEW limit \in Nat, limit <= MaxDuration,
           Drain(s, limit).lastSequence - s.lastSequence <= MaxBatchFrames
    PROVE  Due(Emissions(s, limit)[MaxBatchFrames], limit) = {}
<1>1. MaxBatchFrames \in Nat /\ s.lastSequence \in Nat
  BY EngineLimits DEF Prepared, States
<1>2. SUFFICES ASSUME Due(Emissions(s, limit)[MaxBatchFrames], limit) # {}
               PROVE  FALSE
  OBVIOUS
<1>3. Drain(s, limit).lastSequence = s.lastSequence + MaxBatchFrames + 1
  BY <1>1, <1>2, EmissionsCount DEF Drain
<1>4. QED
  BY <1>1, <1>3

\* runTo: between two iterations.
LEMMA EmissionsGoOnFrom ==
    ASSUME NEW s, Prepared(s), NEW limit \in Nat, limit <= MaxDuration,
           NEW n \in Nat, NEW m \in Nat, n <= m
    PROVE  Onward(Emissions(s, limit)[n], Emissions(s, limit)[m])
<1> DEFINE e == Emissions(s, limit)
<1>1. Prepared(e[n])
  BY EmissionsGoOn
<1>2. m - n \in Nat /\ n + (m - n) = m
  OBVIOUS
<1>3. Emissions(e[n], limit)[m - n] = e[n + (m - n)]
  BY <1>2, EmissionsShift
<1>4. Onward(e[n], Emissions(e[n], limit)[m - n])
  <2> HIDE DEF e
  <2>1. QED
    BY <1>1, <1>2, EmissionsGoOn
<1>5. QED
  BY <1>2, <1>3, <1>4

\* What the engine guarantees of a state between mutations.
Steady(s) == Sound(s) /\ Kept(s) /\ Alternating(s)

\* What it guarantees while it emits up to a limit.
Emitting(s, limit) ==
    /\ s \in States
    /\ TransmissionsSound(s, limit)
    /\ Scheduled(s, limit)
    /\ Monotone(s)
    /\ Kept(s)
    /\ Alternating(s)

LEMMA ScheduledIsPrepared ==
    ASSUME NEW s \in States, NEW horizon, Scheduled(s, horizon)
    PROVE  Prepared(s)
BY DEF Scheduled, Prepared

\* runTo: one iteration, when the next deadline still fits a duration.
LEMMA EmitIsSteady ==
    ASSUME NEW s, NEW limit \in Nat, limit <= MaxDuration, Emitting(s, limit),
           NEW e \in Due(s, limit), IsNext(s, limit, e), NEW t, t = Emit(s, e),
           NEW u \in States, Onward(t, u), \A i \in DOMAIN u.fleet : CanReschedule(u.fleet[i])
    PROVE  Emitting(t, limit)
<1>1. /\ s \in States /\ TransmissionsSound(s, limit) /\ Scheduled(s, limit)
      /\ Monotone(s) /\ Kept(s) /\ Alternating(s)
  BY DEF Emitting
<1>2. Fired(s, e, t) /\ t \in States
  <2>1. Prepared(s)
    BY <1>1, ScheduledIsPrepared
  <2>2. Fired(s, e, t)
    BY <2>1, EmitGoesOn
  <2>3. QED
    BY <2>2, Zenon DEF Fired
<1> DEFINE n == e[1]
           next == Reschedule(s.fleet[n], e[2])
<1>3. n \in DOMAIN s.fleet /\ s.fleet \in Seq(Aircraft)
  BY <1>1, DueFacts DEF States
<1>4. t.fleet = [s.fleet EXCEPT ![n] = next] /\ t.fleet \in Seq(Aircraft) /\ u.fleet \in Seq(Aircraft)
  BY <1>2, Zenon DEF Fired, States
<1> HIDE DEF next, n
<1>5. n \in DOMAIN t.fleet /\ t.fleet[n] = next
  BY <1>3, <1>4
<1>6. CanReschedule(next)
  <2>1. n \in DOMAIN u.fleet /\ \A k \in DOMAIN Families : u.fleet[n].due[k] >= next.due[k]
    BY <1>5 DEF Onward
  <2>2. \A k \in DOMAIN Families : u.fleet[n].due[k] <= MaxDuration
    BY <2>1 DEF CanReschedule
  <2>3. next \in Aircraft /\ u.fleet[n] \in Aircraft
    BY <1>4, <1>5, <2>1
  <2>4. \A k \in DOMAIN Families : next.due[k] \in Nat /\ u.fleet[n].due[k] \in Nat
    BY <2>3 DEF Aircraft
  <2>5. QED
    BY <2>1, <2>2, <2>4, EngineLimits DEF CanReschedule
<1>7. CanReschedule(Reschedule(s.fleet[e[1]], e[2]))
  BY <1>6 DEF next, n
<1>8. TransmissionsSound(t, limit) /\ Scheduled(t, limit) /\ Monotone(t)
  BY <1>1, <1>7, EmitKeeps
<1>9. Kept(t)
  BY <1>1, <1>7, EmitKept
<1>10. Alternating(t)
  BY <1>1, <1>2, EmitAlternates DEF Kept
<1>11. QED
  BY <1>2, <1>8, <1>9, <1>10 DEF Emitting

\* runTo: the whole loop, when what it ends with is within the bounds.
LEMMA DrainIsSteady ==
    ASSUME NEW s, NEW limit \in Nat, limit <= MaxDuration, Emitting(s, limit),
           NEW t, t = Drain(s, limit), t.lastSequence - s.lastSequence <= MaxBatchFrames,
           \A i \in DOMAIN t.fleet : CanReschedule(t.fleet[i])
    PROVE  Emitting(t, limit) /\ Onward(s, t) /\ Due(t, limit) = {}
<1> DEFINE e == Emissions(s, limit)
           last == MaxBatchFrames + 1
           S == {n \in Nat : Emitting(e[n], limit)}
<1>1. e[0] = s /\ \A n \in Nat : e[n + 1] = Iterate(e[n], limit)
  BY EmissionsIterate
<1>2. Prepared(s)
  BY ScheduledIsPrepared DEF Emitting
<1>3. \A n \in Nat : Prepared(e[n]) /\ Onward(s, e[n])
  BY <1>2, EmissionsGoOn
<1>4. t = e[last] /\ last \in Nat /\ MaxBatchFrames \in Nat /\ MaxBatchFrames <= last
  BY EngineLimits DEF Drain
<1>5. Due(e[MaxBatchFrames], limit) = {}
  BY <1>2, BoundedRunSettles
<1>6. e[last] = e[MaxBatchFrames]
  BY <1>4, <1>5, NothingLeft
<1>7. ASSUME NEW n \in Nat, MaxBatchFrames <= n
      PROVE  Due(e[n], limit) = {}
  <2>1. e[n] = e[MaxBatchFrames]
    BY <1>4, <1>5, <1>7, NothingLeft
  <2>2. QED
    BY <1>5, <2>1
<1>8. ASSUME NEW n \in Nat, n < MaxBatchFrames
      PROVE  Onward(e[n + 1], t)
  <2>1. n + 1 \in Nat /\ n + 1 <= last
    BY <1>4, <1>8
  <2>2. QED
    BY <1>2, <1>4, <2>1, EmissionsGoOnFrom
<1> HIDE DEF e, last
<1>9. 0 \in S
  BY <1>1
<1>10. ASSUME NEW n \in Nat, n \in S
       PROVE  n + 1 \in S
  <2>1. Emitting(e[n], limit) /\ e[n] \in States
    BY <1>10 DEF Emitting
  <2>2. CASE Due(e[n], limit) = {}
    BY <1>1, <2>1, <2>2 DEF Iterate
  <2>3. CASE Due(e[n], limit) # {}
    <3> DEFINE f == NextEvent(e[n], limit)
    <3>1. f \in Due(e[n], limit) /\ IsNext(e[n], limit, f)
      BY <2>1, <2>3, NextIsDue
    <3>2. e[n + 1] = Emit(e[n], f)
      BY <1>1, <2>3 DEF Iterate
    <3>3. n < MaxBatchFrames
      BY <1>4, <1>7, <2>3
    <3>4. Onward(e[n + 1], t) /\ t \in States
      BY <1>3, <1>4, <1>8, <3>3 DEF Prepared
    <3> HIDE DEF f
    <3>5. Emitting(e[n + 1], limit)
      BY <2>1, <3>1, <3>2, <3>4, EmitIsSteady
    <3>6. QED
      BY <3>5
  <2>4. QED
    BY <2>2, <2>3
<1> HIDE DEF S
<1>11. Nat \subseteq S
  BY <1>9, <1>10, EveryNumber
<1>12. Emitting(t, limit)
  BY <1>4, <1>11 DEF S
<1>13. QED
  BY <1>3, <1>4, <1>5, <1>6, <1>12

\* What a mutation leaves of who is who: names and addresses given out stay
\* given out, and nobody else gets them.
SameNames(s, t) ==
    /\ s.reserved \subseteq t.reserved
    /\ s.nextAddress <= t.nextAddress
    /\ \A id \in s.reserved \ ActiveIds(s) : id \notin ActiveIds(t)
    /\ \A i \in DOMAIN t.fleet :
          \/ t.fleet[i].ord >= s.nextAddress
          \/ \E j \in DOMAIN s.fleet : s.fleet[j].ord = t.fleet[i].ord

\* runTo: Advance and Elapse.
LEMMA RunIsSteady ==
    ASSUME NEW s, Steady(s), NEW clock \in [elapsed : Nat, carry : 0 .. 99],
           s.elapsed <= clock.elapsed, clock.elapsed <= MaxDuration,
           NEW t, t = RunTo(s, clock), Emittable(s, t)
    PROVE  /\ Steady(t)
           /\ SameNames(s, t)
           /\ t.elapsed = clock.elapsed /\ t.speed = s.speed
           /\ Len(t.fleet) = Len(s.fleet) /\ Len(t.active) = Len(s.active)
<1> DEFINE now == clock.elapsed
           rest == clock.carry
           u == Drain(s, now)
<1>1. now \in Nat /\ rest \in 0 .. 99
  OBVIOUS
<1>2. /\ s \in States /\ Allocated(s) /\ TransmissionsSound(s, s.elapsed)
      /\ Scheduled(s, s.elapsed) /\ Kept(s) /\ Alternating(s)
  BY DEF Steady, Sound
<1>3. t = [u EXCEPT !.elapsed = now, !.carry = rest]
  BY DEF RunTo
<1> HIDE DEF rest
<1>4. Emitting(s, now)
  <2>1. Monotone(s)
    BY <1>2, PastAndFuture
  <2>2. s.elapsed \in Nat
    BY <1>2 DEF States
  <2>3. TransmissionsSound(s, now) /\ Scheduled(s, now)
    BY <1>1, <1>2, <2>2, LaterHorizon
  <2>4. QED
    BY <1>2, <2>1, <2>3 DEF Emitting
<1>5. u \in States
  <2>1. Prepared(s)
    BY <1>2, ScheduledIsPrepared
  <2>2. MaxBatchFrames + 1 \in Nat
    BY EngineLimits
  <2>3. Prepared(u)
    BY <1>1, <2>1, <2>2, EmissionsGoOn DEF Drain
  <2>4. QED
    BY <2>3 DEF Prepared
<1>6. Arrived(u, now, rest, t)
  <2> HIDE DEF u, now
  <2>1. QED
    BY <1>1, <1>3, <1>5, ArriveEffect, Zenon
<1>7. u.lastSequence - s.lastSequence <= MaxBatchFrames
  BY <1>6 DEF Arrived, Emittable
<1>8. \A i \in DOMAIN u.fleet : CanReschedule(u.fleet[i])
  BY <1>6 DEF Arrived, Emittable
<1>9. Emitting(u, now) /\ Onward(s, u) /\ Due(u, now) = {}
  <2>1. u = Drain(s, now)
    OBVIOUS
  <2> HIDE DEF u, now
  <2>2. now <= MaxDuration
    BY DEF now
  <2>3. QED
    BY <1>1, <1>4, <1>7, <1>8, <2>1, <2>2, DrainIsSteady
<1> HIDE DEF u
<1>10. Sound(t)
  <2>1. Allocated(u)
    BY <1>2, <1>9 DEF Allocated, Onward
  <2> HIDE DEF now
  <2>2. QED
    BY <1>1, <1>6, <1>9, <2>1, ArriveIsSound DEF Emitting
<1>11. Kept(t)
  <2>1. now >= u.elapsed
    BY <1>1, <1>2, <1>9 DEF Onward, States
  <2> HIDE DEF now
  <2>2. QED
    BY <1>1, <1>6, <1>9, <2>1, ArriveKept DEF Emitting
<1>12. Alternating(t)
  BY <1>6, <1>9, QuietAlternates DEF Arrived, Emitting
<1>13. /\ t.reserved = s.reserved /\ t.nextAddress = s.nextAddress /\ t.speed = s.speed
       /\ DOMAIN t.active = DOMAIN s.active /\ DOMAIN t.fleet = DOMAIN s.fleet
       /\ \A i \in DOMAIN s.active : t.active[i].id = s.active[i].id
       /\ \A i \in DOMAIN s.fleet : t.fleet[i].ord = s.fleet[i].ord
  BY <1>6, <1>9 DEF Arrived, SameRegistry, Onward, StationsStay
<1>14. ActiveIds(t) = ActiveIds(s)
  BY <1>13 DEF ActiveIds
<1>15. SameNames(s, t)
  <2>1. s.nextAddress <= t.nextAddress
    BY <1>2, <1>13 DEF States
  <2>2. QED
    BY <1>13, <1>14, <2>1 DEF SameNames
<1>16. Len(t.fleet) = Len(s.fleet) /\ Len(t.active) = Len(s.active)
  <2>1. t \in States
    BY <1>6 DEF Arrived
  <2>2. /\ s.fleet \in Seq(Aircraft) /\ t.fleet \in Seq(Aircraft)
        /\ s.active \in Seq(Stations) /\ t.active \in Seq(Stations)
    BY <1>2, <2>1 DEF States
  <2>3. QED
    BY <1>13, <2>2
<1>17. QED
  BY <1>6, <1>10, <1>11, <1>12, <1>13, <1>15, <1>16 DEF Steady, Arrived

-------------------------------------------------------------------------------
(***************************************************************************)
(* SetCount upwards, as a whole.                                           *)
(***************************************************************************)

\* addAircraft's loop after a number of aircraft: they come after those there
\* were, under the next addresses, and nothing but the log moves.
Grown(s, t, n) ==
    /\ t \in States
    /\ t.elapsed = s.elapsed
    /\ t.carry = s.carry
    /\ t.speed = s.speed
    /\ t.reserved = s.reserved
    /\ t.nextStation = s.nextStation
    /\ t.nextAddress = s.nextAddress + n
    /\ StationsStay(s, t)
    /\ Len(t.fleet) = Len(s.fleet) + n
    /\ \A i \in DOMAIN s.fleet : t.fleet[i] = s.fleet[i]
    /\ \A i \in Len(s.fleet) + 1 .. Len(s.fleet) + n : t.fleet[i].ord >= s.nextAddress

\* addAircraft: one aircraft.
LEMMA AddAircraftGrows ==
    ASSUME NEW s \in States, NEW t, Created(s, t)
    PROVE  /\ Grown(s, t, 1)
           /\ t.fleet[Len(s.fleet) + 1] = NewAircraft(s.nextAddress, s.elapsed)
<1> DEFINE ord == s.nextAddress
           at  == s.elapsed
           a   == Record(s, ord, Families[1], FALSE, at)
           b   == Record(a, ord, Families[2], FALSE, at)
           c   == Record(b, ord, Families[3], FALSE, at)
           new == NewAircraft(ord, at)
<1>1. /\ a \in States /\ b \in States /\ c \in States
      /\ ord \in Nat /\ at \in Nat /\ new \in Aircraft
      /\ t \in States
      /\ t.nextAddress = ord + 1
      /\ t.fleet = Append(s.fleet, new)
      /\ t.elapsed = at /\ t.carry = s.carry /\ t.speed = s.speed
      /\ t.reserved = s.reserved /\ t.nextStation = s.nextStation
      /\ t.active = c.active
  BY DEF Created
<1>2. /\ Families[1] \in Kinds /\ Families[2] \in Kinds /\ Families[3] \in Kinds
      /\ FALSE \in BOOLEAN
  BY ThreeFamilies DEF Kinds
<1> HIDE DEF ord, at
<1>3. StationsStay(s, a)
  BY <1>1, <1>2, RecordKeepsNames
<1> HIDE DEF a
<1>4. StationsStay(a, b)
  BY <1>1, <1>2, RecordKeepsNames
<1> HIDE DEF b
<1>5. StationsStay(b, c)
  BY <1>1, <1>2, RecordKeepsNames
<1> HIDE DEF c
<1>12. StationsStay(s, t)
  BY <1>1, <1>3, <1>4, <1>5 DEF StationsStay
<1>6. new.ord = ord
  BY DEF NewAircraft
<1> HIDE DEF new
<1>7. s.fleet \in Seq(Aircraft) /\ Len(s.fleet) \in Nat
  BY DEF States
<1>8. /\ Len(t.fleet) = Len(s.fleet) + 1
      /\ t.fleet[Len(s.fleet) + 1] = new
      /\ \A i \in DOMAIN s.fleet : t.fleet[i] = s.fleet[i]
  BY <1>1, <1>7, AppendProperties
<1>9. \A i \in Len(s.fleet) + 1 .. Len(s.fleet) + 1 : t.fleet[i].ord >= ord
  BY <1>1, <1>6, <1>7, <1>8
<1>10. Grown(s, t, 1)
  BY <1>1, <1>8, <1>9, <1>12 DEF Grown, ord, at
<1>11. QED
  BY <1>8, <1>10 DEF new, ord, at

\* addAircraft: one aircraft more.
LEMMA GrownAgain ==
    ASSUME NEW s \in States, NEW t, NEW u, NEW n \in Nat, NEW m \in Nat,
           Grown(s, t, n), Grown(t, u, m)
    PROVE  Grown(s, u, n + m)
<1>0. s \in States /\ t \in States /\ u \in States
  BY DEF Grown
<1>1. /\ s.nextAddress \in Nat /\ t.nextAddress \in Nat /\ u.nextAddress \in Nat
      /\ Len(s.fleet) \in Nat /\ Len(t.fleet) \in Nat /\ Len(u.fleet) \in Nat
      /\ s.fleet \in Seq(Aircraft) /\ t.fleet \in Seq(Aircraft) /\ u.fleet \in Seq(Aircraft)
  <2>1. /\ s.nextAddress \in Nat /\ t.nextAddress \in Nat /\ u.nextAddress \in Nat
        /\ s.fleet \in Seq(Aircraft) /\ t.fleet \in Seq(Aircraft) /\ u.fleet \in Seq(Aircraft)
    BY <1>0 DEF States
  <2>2. QED
    BY <2>1
<1>2. u.nextAddress = s.nextAddress + (n + m) /\ Len(u.fleet) = Len(s.fleet) + (n + m)
  <2>1. t.nextAddress = s.nextAddress + n /\ Len(t.fleet) = Len(s.fleet) + n
    BY DEF Grown
  <2>2. u.nextAddress = t.nextAddress + m /\ Len(u.fleet) = Len(t.fleet) + m
    BY DEF Grown
  <2>3. \A a, b, c \in Nat : b = a + n /\ c = b + m => c = a + (n + m)
    OBVIOUS
  <2>4. u.nextAddress = s.nextAddress + (n + m)
    BY <1>1, <2>1, <2>2, <2>3
  <2>5. Len(u.fleet) = Len(s.fleet) + (n + m)
    BY <1>1, <2>1, <2>2, <2>3
  <2>6. QED
    BY <2>4, <2>5
<1>3. \A i \in DOMAIN s.fleet : i \in DOMAIN t.fleet
  BY <1>1 DEF Grown
<1>4. \A i \in DOMAIN s.fleet : u.fleet[i] = s.fleet[i]
  BY <1>3 DEF Grown
<1>5. ASSUME NEW i \in Len(s.fleet) + 1 .. Len(s.fleet) + (n + m)
      PROVE  u.fleet[i].ord >= s.nextAddress
  <2>1. CASE i <= Len(s.fleet) + n
    <3>1. i \in Len(s.fleet) + 1 .. Len(s.fleet) + n /\ i \in DOMAIN t.fleet
      BY <1>1, <2>1 DEF Grown
    <3>2. u.fleet[i] = t.fleet[i] /\ t.fleet[i].ord >= s.nextAddress
      BY <3>1 DEF Grown
    <3>3. QED
      BY <3>2
  <2>2. CASE ~(i <= Len(s.fleet) + n)
    <3>1. Len(t.fleet) = Len(s.fleet) + n
      BY DEF Grown
    <3>2. i \in Len(t.fleet) + 1 .. Len(t.fleet) + m
      <4>1. \A a, b, j \in Nat :
               b = a + n /\ j \in a + 1 .. a + (n + m) /\ ~(j <= a + n) =>
                  j \in b + 1 .. b + m
        OBVIOUS
      <4>2. Len(t.fleet) \in Nat /\ i \in Nat
        BY <1>1
      <4>3. QED
        BY <1>1, <2>2, <3>1, <4>1, <4>2
    <3>3. u.fleet[i].ord >= t.nextAddress /\ t.nextAddress = s.nextAddress + n
      BY <3>2 DEF Grown
    <3>4. u.fleet[i] \in Aircraft
      <4>1. i \in DOMAIN u.fleet
        <5>1. \A a, b, j \in Nat :
                 b = a + (n + m) /\ j \in a + 1 .. a + (n + m) => j \in 1 .. b
          OBVIOUS
        <5>2. i \in 1 .. Len(u.fleet)
          <6>1. i \in Nat
            BY <1>1
          <6>2. QED
            BY <1>1, <1>2, <5>1, <6>1
        <5>3. QED
          BY <1>1, <5>2
      <4>2. QED
        BY <1>1, <4>1
    <3>5. u.fleet[i].ord \in Nat
      BY <3>4, EngineLimits DEF Aircraft
    <3>6. QED
      BY <1>1, <3>3, <3>5
  <2>3. QED
    BY <2>1, <2>2
<1>6. /\ u \in States /\ u.elapsed = s.elapsed /\ u.carry = s.carry /\ u.speed = s.speed
      /\ u.reserved = s.reserved /\ u.nextStation = s.nextStation
      /\ DOMAIN u.active = DOMAIN s.active
      /\ \A i \in DOMAIN s.active : u.active[i].id = s.active[i].id
  BY DEF Grown, StationsStay
<1>7. QED
  BY <1>2, <1>4, <1>5, <1>6 DEF Grown, StationsStay

\* addAircraft: the loop goes on while there are addresses.
LEMMA AdditionsGoOn ==
    ASSUME NEW s \in States, s.nextAddress >= 1, NEW n \in Nat,
           s.nextAddress + n <= MaxAddress + 1
    PROVE  \A m \in 0 .. n : Grown(s, Additions(s)[m], m)
<1> DEFINE a == Additions(s)
           S == {m \in Nat : m <= n => Grown(s, a[m], m)}
<1>1. a[0] = s /\ \A m \in Nat : a[m + 1] = AddAircraft(a[m])
  BY AdditionsIterate
<1>2. s.nextAddress \in Nat /\ MaxAddress \in Nat /\ s.fleet \in Seq(Aircraft)
  BY EngineLimits DEF States
<1> HIDE DEF a
<1>3. 0 \in S
  <2>1. Grown(s, s, 0)
    <3>1. Len(s.fleet) \in Nat
      BY <1>2
    <3>2. QED
      BY <1>2, <3>1 DEF Grown, StationsStay
  <2>2. QED
    BY <1>1, <2>1
<1>4. ASSUME NEW m \in Nat, m \in S
      PROVE  m + 1 \in S
  <2>1. SUFFICES ASSUME m + 1 <= n PROVE Grown(s, a[m + 1], m + 1)
    OBVIOUS
  <2>2. Grown(s, a[m], m)
    BY <1>4, <2>1
  <2>3. a[m] \in States /\ a[m].nextAddress = s.nextAddress + m
    BY <2>2 DEF Grown
  <2>4. a[m].nextAddress \in 1 .. MaxAddress
    BY <1>2, <2>1, <2>3
  <2>5. Created(a[m], a[m + 1])
    BY <1>1, <2>3, <2>4, AddAircraftCreates
  <2>6. Grown(a[m], a[m + 1], 1)
    BY <2>3, <2>5, AddAircraftGrows
  <2>7. QED
    BY <2>2, <2>6, GrownAgain
<1> HIDE DEF S
<1>5. Nat \subseteq S
  BY <1>3, <1>4, EveryNumber
<1>6. QED
  BY <1>5 DEF S, a

\* addAircraft: what follows an addition is a loop that starts there.
LEMMA AdditionsShift ==
    ASSUME NEW s, NEW n \in Nat
    PROVE  \A m \in Nat : Additions(Additions(s)[n])[m] = Additions(s)[n + m]
<1> DEFINE e == Additions(s)
           f == Additions(e[n])
           S == {m \in Nat : f[m] = e[n + m]}
<1>1. \A m \in Nat : e[m + 1] = AddAircraft(e[m])
  BY AdditionsIterate
<1>2. f[0] = e[n] /\ \A m \in Nat : f[m + 1] = AddAircraft(f[m])
  BY AdditionsIterate
<1> HIDE DEF e, f
<1>3. 0 \in S
  BY <1>2
<1>4. ASSUME NEW m \in Nat, m \in S
      PROVE  m + 1 \in S
  <2>1. n + (m + 1) = (n + m) + 1 /\ n + m \in Nat
    OBVIOUS
  <2>2. f[m + 1] = e[(n + m) + 1]
    BY <1>1, <1>2, <1>4, <2>1
  <2>3. QED
    BY <2>1, <2>2
<1> HIDE DEF S
<1>5. Nat \subseteq S
  BY <1>3, <1>4, EveryNumber
<1>6. QED
  BY <1>5 DEF S, e, f

\* addAircraft: one aircraft, when its first deadlines fit a duration.
LEMMA AdditionIsSteady ==
    ASSUME NEW s, Steady(s), s.nextAddress \in 1 .. MaxAddress, NEW t, t = AddAircraft(s),
           CanReschedule(NewAircraft(s.nextAddress, s.elapsed))
    PROVE  Steady(t)
<1>1. /\ s \in States /\ TransmissionsSound(s, s.elapsed)
      /\ Scheduled(s, s.elapsed) /\ Kept(s) /\ Alternating(s)
  BY DEF Steady, Sound
<1>2. Created(s, t)
  BY <1>1, AddAircraftCreates
<1>3. /\ t \in States
      /\ t.nextAddress = s.nextAddress + 1
      /\ TransmissionsSound(t, t.elapsed)
      /\ Scheduled(t, t.elapsed)
  BY <1>1, AddAircraftKeeps
<1>4. Allocated(t)
  BY <1>3, EngineLimits DEF Allocated
<1>5. Kept(t)
  BY <1>1, AddAircraftKept
<1>6. Alternating(t)
  BY <1>1, <1>2, AddAircraftAlternates DEF Kept
<1>7. QED
  BY <1>3, <1>4, <1>5, <1>6 DEF Steady, Sound

\* addAircraft: the whole loop.
LEMMA GrowIsSteady ==
    ASSUME NEW s, Steady(s), NEW n \in Nat, s.nextAddress + n <= MaxAddress + 1,
           NEW t, t = Grow(s, n), \A i \in DOMAIN t.fleet : CanReschedule(t.fleet[i])
    PROVE  Steady(t) /\ Grown(s, t, n)
<1> DEFINE a == Additions(s)
           S == {m \in Nat : m <= n => Steady(a[m])}
<1>1. a[0] = s /\ \A m \in Nat : a[m + 1] = AddAircraft(a[m])
  BY AdditionsIterate
<1>2. s \in States /\ s.nextAddress \in Nat /\ s.nextAddress >= 1 /\ MaxAddress \in Nat
  BY EngineLimits DEF Steady, Sound, Allocated, States
<1>3. \A m \in 0 .. n : Grown(s, a[m], m)
  BY <1>2, AdditionsGoOn
<1>4. t = a[n]
  BY DEF Grow
<1>5. ASSUME NEW m \in Nat, m < n
      PROVE  Grown(a[m + 1], t, n - (m + 1))
  <2>1. n - (m + 1) \in Nat /\ m + 1 + (n - (m + 1)) = n /\ m + 1 \in 0 .. n
    BY <1>5
  <2>2. Grown(s, a[m + 1], m + 1)
    BY <1>3, <2>1
  <2>3. /\ a[m + 1] \in States /\ a[m + 1].nextAddress = s.nextAddress + (m + 1)
    BY <2>2 DEF Grown
  <2>4. a[m + 1].nextAddress >= 1 /\ a[m + 1].nextAddress + (n - (m + 1)) <= MaxAddress + 1
    BY <1>2, <2>1, <2>3
  <2>5. Additions(a[m + 1])[n - (m + 1)] = a[n]
    <3>1. \A x \in Nat : Additions(a[m + 1])[x] = a[(m + 1) + x]
      <4>1. m + 1 \in Nat
        OBVIOUS
      <4>2. QED
        BY <4>1, AdditionsShift, Zenon
    <3>2. Additions(a[m + 1])[n - (m + 1)] = a[(m + 1) + (n - (m + 1))]
      BY <2>1, <3>1, Zenon
    <3>3. QED
      BY <2>1, <3>2
  <2> HIDE DEF a
  <2>6. Grown(a[m + 1], Additions(a[m + 1])[n - (m + 1)], n - (m + 1))
    <3>1. n - (m + 1) \in 0 .. n - (m + 1)
      BY <2>1
    <3>2. QED
      BY <2>1, <2>3, <2>4, <3>1, AdditionsGoOn
  <2>7. QED
    BY <1>4, <2>5, <2>6
<1> HIDE DEF a
<1>6. 0 \in S
  BY <1>1
<1>7. ASSUME NEW m \in Nat, m \in S
      PROVE  m + 1 \in S
  <2>1. SUFFICES ASSUME m + 1 <= n PROVE Steady(a[m + 1])
    OBVIOUS
  <2>2. Steady(a[m]) /\ Grown(s, a[m], m)
    BY <1>3, <1>7, <2>1
  <2>3. a[m] \in States /\ a[m].nextAddress = s.nextAddress + m
    BY <2>2 DEF Grown
  <2>4. a[m].nextAddress \in 1 .. MaxAddress
    BY <1>2, <2>1, <2>3
  <2> DEFINE new == NewAircraft(a[m].nextAddress, a[m].elapsed)
  <2>5. a[m + 1] = AddAircraft(a[m]) /\ Created(a[m], a[m + 1])
    BY <1>1, <2>3, <2>4, AddAircraftCreates
  <2>6. Grown(a[m], a[m + 1], 1) /\ a[m + 1].fleet[Len(a[m].fleet) + 1] = new
    BY <2>3, <2>5, AddAircraftGrows
  <2>7. Grown(a[m + 1], t, n - (m + 1))
    BY <1>5, <2>1
  <2>8. CanReschedule(new)
    <3>1. /\ a[m].fleet \in Seq(Aircraft) /\ a[m + 1].fleet \in Seq(Aircraft)
          /\ t.fleet \in Seq(Aircraft)
          /\ Len(a[m + 1].fleet) = Len(a[m].fleet) + 1
      BY <2>6, <2>7, <2>3 DEF Grown, States
    <3>2. Len(a[m].fleet) + 1 \in DOMAIN a[m + 1].fleet
      BY <3>1
    <3>3. t.fleet[Len(a[m].fleet) + 1] = new
      BY <2>6, <2>7, <3>2 DEF Grown
    <3>4. Len(t.fleet) = Len(a[m + 1].fleet) + (n - (m + 1))
      BY <2>7 DEF Grown
    <3>5. Len(a[m].fleet) + 1 \in DOMAIN t.fleet
      BY <2>1, <3>1, <3>4
    <3>6. QED
      BY <3>3, <3>5
  <2> HIDE DEF new
  <2>9. QED
    BY <2>2, <2>4, <2>5, <2>8, AdditionIsSteady DEF new
<1> HIDE DEF S
<1>8. Nat \subseteq S
  BY <1>6, <1>7, EveryNumber
<1>9. Steady(t)
  BY <1>4, <1>8 DEF S
<1>10. Grown(s, t, n)
  BY <1>3, <1>4
<1>11. QED
  BY <1>9, <1>10

-------------------------------------------------------------------------------
(***************************************************************************)
(* Whole mutations.                                                        *)
(***************************************************************************)

\* What holds of an engine between its mutations.
Regular(s) ==
    /\ Steady(s)
    /\ s.elapsed <= MaxElapsed
    /\ s.speed \in Speeds
    /\ Len(s.fleet) <= MaxAircraft
    /\ Len(s.active) <= MaxStations

\* Advance and Elapse.
LEMMA RunIsRegular ==
    ASSUME NEW s, Regular(s), NEW clock \in [elapsed : Nat, carry : 0 .. 99],
           s.elapsed <= clock.elapsed, clock.elapsed <= MaxElapsed,
           NEW t, t = RunTo(s, clock), Emittable(s, t)
    PROVE  Regular(t) /\ SameNames(s, t)
<1>1. clock.elapsed <= MaxDuration
  BY EngineLimits
<1>2. Steady(s)
  BY DEF Regular
<1>3. /\ Steady(t) /\ SameNames(s, t)
      /\ t.elapsed = clock.elapsed /\ t.speed = s.speed
      /\ Len(t.fleet) = Len(s.fleet) /\ Len(t.active) = Len(s.active)
  BY <1>1, <1>2, RunIsSteady
<1>4. QED
  BY <1>3 DEF Regular

\* planElapse: no later than the lifetime, with time standing still too.
LEMMA PlansAreInTime ==
    ASSUME NEW s, Regular(s), NEW d \in Nat
    PROVE  /\ CanAdvance(s, d) => PlanAdvance(s, d).elapsed <= MaxElapsed
           /\ CanElapse(s, d) => PlanElapse(s, d).elapsed <= MaxElapsed
<1>1. s \in States /\ s.elapsed <= MaxElapsed
  BY DEF Regular, Steady, Sound
<1>2. CanAdvance(s, d) => PlanAdvance(s, d).elapsed <= MaxElapsed
  BY DEF CanAdvance, PlanAdvance, Clock
<1>3. CanElapse(s, d) => PlanElapse(s, d).elapsed <= MaxElapsed
  <2>1. CASE s.speed = 0
    BY <1>1, <2>1 DEF PlanElapse, Clock
  <2>2. CASE s.speed # 0
    BY <2>2 DEF PlanElapse, Clock, CanElapse, CanAdvance
  <2>3. QED
    BY <2>1, <2>2
<1>4. QED
  BY <1>2, <1>3

\* SetCount upwards.
LEMMA GrowIsRegular ==
    ASSUME NEW s, Regular(s), NEW m \in Nat, s.nextAddress + m <= MaxAddress + 1,
           Len(s.fleet) + m <= MaxAircraft, NEW t, t = Grow(s, m), Emittable(s, t)
    PROVE  Regular(t) /\ SameNames(s, t)
<1>1. /\ Steady(s) /\ s \in States /\ s.elapsed <= MaxElapsed /\ s.speed \in Speeds
      /\ Len(s.active) <= MaxStations
  BY DEF Regular, Steady, Sound
<1>2. s.fleet \in Seq(Aircraft) /\ Len(s.fleet) \in Nat
  BY <1>1 DEF States
<1>3. \A i \in DOMAIN t.fleet : CanReschedule(t.fleet[i])
  BY DEF Emittable
<1>4. Steady(t) /\ Grown(s, t, m)
  BY <1>1, <1>3, GrowIsSteady
<1>5. /\ t \in States /\ t.elapsed = s.elapsed /\ t.speed = s.speed
      /\ t.reserved = s.reserved /\ t.nextAddress = s.nextAddress + m
      /\ Len(t.fleet) = Len(s.fleet) + m
      /\ \A i \in DOMAIN s.fleet : t.fleet[i] = s.fleet[i]
      /\ \A i \in Len(s.fleet) + 1 .. Len(s.fleet) + m : t.fleet[i].ord >= s.nextAddress
  BY <1>4 DEF Grown
<1>6. DOMAIN t.active = DOMAIN s.active /\ ActiveIds(t) = ActiveIds(s)
  BY <1>4 DEF Grown, StationsStay, ActiveIds
<1>7. Len(t.active) = Len(s.active)
  <2>1. s.active \in Seq(Stations) /\ t.active \in Seq(Stations)
    BY <1>1, <1>5 DEF States
  <2>2. QED
    BY <1>6, <2>1
<1>8. ASSUME NEW i \in DOMAIN t.fleet
      PROVE  \/ t.fleet[i].ord >= s.nextAddress
             \/ \E j \in DOMAIN s.fleet : s.fleet[j].ord = t.fleet[i].ord
  <2>1. i \in 1 .. Len(s.fleet) + m
    <3>1. t.fleet \in Seq(Aircraft)
      BY <1>5 DEF States
    <3>2. QED
      BY <1>5, <3>1
  <2>2. i \in DOMAIN s.fleet \/ i \in Len(s.fleet) + 1 .. Len(s.fleet) + m
    BY <1>2, <2>1
  <2>3. QED
    BY <1>5, <2>2
<1>9. s.nextAddress <= t.nextAddress
  <2>1. s.nextAddress \in Nat
    BY <1>1 DEF States
  <2>2. QED
    BY <1>5, <2>1
<1>10. SameNames(s, t)
  BY <1>5, <1>6, <1>8, <1>9 DEF SameNames
<1>11. QED
  BY <1>1, <1>4, <1>5, <1>7, <1>10 DEF Regular

\* A mutation that emits nothing takes only aircraft and stations away, or adds a
\* station under a name nobody had.
LEMMA MutatedIsRegular ==
    ASSUME NEW s, Regular(s), NEW t, Mutated(s, t), t.speed \in Speeds
    PROVE  Regular(t) /\ SameNames(s, t)
<1>1. /\ Sound(s) /\ Kept(s) /\ Alternating(s) /\ s \in States
      /\ s.elapsed <= MaxElapsed /\ Len(s.fleet) <= MaxAircraft /\ Len(s.active) <= MaxStations
  BY DEF Regular, Steady, Sound
<1>2. Steady(t)
  BY <1>1, MutatedIsSound, MutatedKept, MutatedAlternates DEF Steady
<1>3. SameLog(s, t) /\ Survivors(s, t)
  BY DEF Mutated
<1>4. /\ t.elapsed = s.elapsed /\ t.nextAddress = s.nextAddress
      /\ t \in States /\ s.nextAddress \in Nat
      /\ s.fleet \in Seq(Aircraft) /\ s.active \in Seq(Stations)
      /\ t.fleet \in Seq(Aircraft) /\ t.active \in Seq(Stations)
  BY <1>1, <1>3 DEF SameLog, States
<1>5. Len(t.fleet) <= MaxAircraft
  <2>1. /\ Len(s.fleet) \in Nat /\ DOMAIN s.fleet = 1 .. Len(s.fleet)
        /\ Len(t.fleet) \in Nat /\ DOMAIN t.fleet = 1 .. Len(t.fleet) /\ MaxAircraft \in Nat
    BY <1>4, EngineLimits
  <2>2. Len(t.fleet) # 0 => Len(t.fleet) \in DOMAIN s.fleet
    BY <1>3, <2>1 DEF Survivors
  <2>3. QED
    BY <1>1, <2>1, <2>2
<1>6. Len(t.active) <= MaxStations
  <2>1. Len(s.active) \in Nat /\ Len(t.active) \in Nat /\ MaxStations \in Nat
    BY <1>4, EngineLimits
  <2>2. QED
    BY <1>1, <2>1 DEF Mutated
<1>7. PICK from : Restationed(s, t, from)
  BY DEF Mutated
<1>8. \A i \in DOMAIN t.active : t.active[i].id \in s.reserved => t.active[i].id \in ActiveIds(s)
  BY <1>7 DEF Restationed, Continues, Fresh, ActiveIds
<1>9. SameNames(s, t)
  <2>1. s.nextAddress <= t.nextAddress
    BY <1>4
  <2>2. \A id \in s.reserved \ ActiveIds(s) : id \notin ActiveIds(t)
    BY <1>8 DEF ActiveIds
  <2>3. QED
    BY <1>3, <1>7, <2>1, <2>2 DEF SameNames, Restationed, Survivors
<1>10. QED
  BY <1>1, <1>2, <1>4, <1>5, <1>6, <1>9 DEF Regular

-------------------------------------------------------------------------------
(***************************************************************************)
(* The reference engine of EngineTwins.                                    *)
(***************************************************************************)

\* An engine before its initial aircraft.
LEMMA EmptyIsRegular ==
    ASSUME NEW speed \in Speeds
    PROVE  Regular(Empty(speed))
<1> DEFINE s == Empty(speed)
<1>1. speed \in Nat /\ MaxAddress \in Nat /\ MaxElapsed \in Nat /\ MaxAircraft \in Nat
      /\ MaxStations \in Nat /\ HistoryLimit \in Nat
  BY EngineInputs, EngineLimits
<1>2. /\ s.elapsed = 0 /\ s.carry = 0 /\ s.speed = speed /\ s.fleet = <<>> /\ s.nextAddress = 1
      /\ s.lastSequence = 0 /\ s.history = <<>> /\ s.active = <<>> /\ s.reserved = {}
      /\ s.nextStation = 1
  BY DEF Empty
<1>3. s \in States
  <2>1. <<>> \in Seq(Aircraft) /\ <<>> \in Seq(Frames) /\ <<>> \in Seq(Stations)
    BY EmptySeq
  <2>2. QED
    BY <1>1, <2>1 DEF Empty, States
<1>4. DOMAIN <<>> = {} /\ Len(<<>>) = 0
  OBVIOUS
<1> HIDE DEF s
<1>5. Sound(s)
  BY <1>1, <1>2, <1>3, <1>4 DEF Sound, Allocated, TransmissionsSound, Scheduled, Least
<1>6. Kept(s)
  <2>1. Copies(s) = {}
    BY <1>2, <1>4, CopyOrigin
  <2>2. CopiesAgree(s)
    BY <2>1 DEF CopiesAgree
  <2>3. QED
    BY <1>2, <1>4, <2>2 DEF Kept, Registered, Addressed
<1>7. Alternating(s)
  BY <1>2, <1>4 DEF Alternating, Paired
<1>8. Regular(s)
  BY <1>1, <1>2, <1>4, <1>5, <1>6, <1>7 DEF Regular, Steady
<1>9. QED
  BY <1>8 DEF s

\* Every command is a mutation of the reference engine, or none.
WholeRuns(t) ==
    \E clock \in [elapsed : Nat, carry : 0 .. 99] :
        /\ whole.elapsed <= clock.elapsed /\ clock.elapsed <= MaxElapsed
        /\ t = RunTo(whole, clock) /\ Emittable(whole, t)

WholeGrows(t) ==
    \E m \in Nat :
        /\ whole.nextAddress + m <= MaxAddress + 1 /\ Len(whole.fleet) + m <= MaxAircraft
        /\ t = Grow(whole, m) /\ Emittable(whole, t)

LEMMA WholeCases ==
    ASSUME Regular(whole), [TwinsNext]_twins, NEW t, t = whole'
    PROVE  \/ t = whole
           \/ WholeRuns(t)
           \/ WholeGrows(t)
           \/ Mutated(whole, t) /\ t.speed \in Speeds
<1> DEFINE Goal == \/ t = whole
                   \/ WholeRuns(t)
                   \/ WholeGrows(t)
                   \/ Mutated(whole, t) /\ t.speed \in Speeds
<1>1. SUFFICES Goal
  OBVIOUS
<1>2. /\ whole \in States /\ whole.speed \in Speeds /\ whole.elapsed \in Nat
      /\ Len(whole.fleet) \in Nat
  BY DEF Regular, Steady, Sound, States
<1>3. CASE UNCHANGED twins
  BY <1>3 DEF twins
<1>4. ASSUME NEW clock \in [elapsed : Nat, carry : 0 .. 99], clock.elapsed >= whole.elapsed,
             clock.elapsed <= MaxElapsed, t = RunTo(whole, clock), Emittable(whole, t)
      PROVE  Goal
  <2>1. whole.elapsed <= clock.elapsed
    BY <1>2, <1>4
  <2>2. QED
    BY <1>4, <2>1 DEF WholeRuns
<1>5. ASSUME NEW d \in Durations, Advance(d) PROVE Goal
  <2>1. /\ CanAdvance(whole, d) /\ Emittable(whole, t)
        /\ t = RunTo(whole, PlanAdvance(whole, d)) /\ d \in Nat
    BY <1>5, EngineInputs DEF Advance
  <2>2. QED
    BY <1>2, <1>4, <2>1, PlanFacts, PlansAreInTime
<1>6. ASSUME NEW real \in RealDurations, Elapse(real) PROVE Goal
  <2>1. /\ CanElapse(whole, real) /\ Emittable(whole, t)
        /\ t = RunTo(whole, PlanElapse(whole, real)) /\ real \in Nat
    BY <1>6, EngineInputs DEF Elapse
  <2>2. QED
    BY <1>2, <1>4, <2>1, PlanFacts, PlansAreInTime
<1>7. ASSUME NEW d, AdvancePiece(d) PROVE Goal
  BY <1>7 DEF AdvancePiece
<1>8. ASSUME NEW real, ElapsePiece(real) PROVE Goal
  BY <1>8 DEF ElapsePiece
<1>9. ASSUME NEW n \in 0 .. MaxAircraft, SetCounts(n) PROVE Goal
  <2>1. /\ whole.nextAddress + (n - Len(whole.fleet)) <= MaxAddress + 1
        /\ t = Resize(whole, n) /\ Emittable(whole, t) /\ n \in Nat /\ n <= MaxAircraft
    BY <1>9, EngineLimits DEF SetCounts, Command
  <2>2. CASE n > Len(whole.fleet)
    <3>1. PICK m : m = n - Len(whole.fleet)
      OBVIOUS
    <3>2. m \in Nat /\ Len(whole.fleet) + m <= MaxAircraft
      BY <1>2, <2>1, <2>2, <3>1
    <3>3. t = Grow(whole, m) /\ whole.nextAddress + m <= MaxAddress + 1
      BY <2>1, <2>2, <3>1 DEF Resize
    <3>4. QED
      BY <2>1, <3>2, <3>3 DEF WholeGrows
  <2>3. CASE ~(n > Len(whole.fleet))
    <3>1. t = Shrink(whole, n) /\ n \in 0 .. Len(whole.fleet)
      BY <1>2, <2>1, <2>3 DEF Resize
    <3>2. Mutated(whole, t)
      BY <1>2, <3>1, ShrinkMutates
    <3>3. t.speed = whole.speed
      BY <1>2, <3>1, ShrinkEffect
    <3>4. QED
      BY <1>2, <3>2, <3>3
  <2>4. QED
    BY <2>2, <2>3
<1>10. ASSUME NEW v \in Speeds, SetSpeeds(v) PROVE Goal
  <2>1. t = [whole EXCEPT !.speed = v] /\ v \in Nat
    BY <1>10, EngineInputs DEF SetSpeeds, Command
  <2>2. QED
    BY <1>2, <2>1, SpeedMutates, SpeedEffect
<1>11. ASSUME NEW id \in StationIds, NEW cfg \in Configs, AddStations(id, cfg) PROVE Goal
  <2>1. CanAddStation(whole, id) /\ t = StationAdded(whole, id, cfg) /\ cfg \in Settings
    BY <1>11, EngineInputs DEF AddStations, Command
  <2>2. AddedTo(whole, id, cfg, t) /\ Mutated(whole, t)
    BY <1>2, <2>1, AddedMutates, AddedEffect
  <2>3. QED
    BY <1>2, <2>2 DEF AddedTo
<1>12. ASSUME NEW id \in StationIds, NEW rev \in 1 .. MaxRevision, NEW cfg \in Configs,
              UpdateStations(id, rev, cfg)
       PROVE  Goal
  <2>1. id \in ActiveIds(whole) /\ t = StationUpdated(whole, id, cfg) /\ cfg \in Settings
    BY <1>12, EngineInputs DEF UpdateStations, RevisionMatches, Command
  <2>2. UpdatedIn(whole, id, cfg, t) /\ Mutated(whole, t)
    BY <1>2, <2>1, UpdatedMutates, UpdatedEffect
  <2>3. QED
    BY <1>2, <2>2 DEF UpdatedIn
<1>13. ASSUME NEW id \in StationIds, NEW rev \in 1 .. MaxRevision, RemoveStations(id, rev)
       PROVE  Goal
  <2>1. id \in ActiveIds(whole) /\ t = StationRemoved(whole, id)
    BY <1>13 DEF RemoveStations, RevisionMatches, Command
  <2>2. RemovedFrom(whole, id, t) /\ Mutated(whole, t)
    BY <1>2, <2>1, RemovedMutates, RemovedEffect
  <2>3. QED
    BY <1>2, <2>2 DEF RemovedFrom
<1> HIDE DEF Goal
<1>14. QED
  BY <1>3, <1>5, <1>6, <1>7, <1>8, <1>9, <1>10, <1>11, <1>12, <1>13 DEF TwinsNext

LEMMA WholeStaysRegular ==
    Regular(whole) /\ [TwinsNext]_twins =>
        Regular(whole)' /\ (whole' = whole \/ SameNames(whole, whole'))
<1> SUFFICES ASSUME Regular(whole), [TwinsNext]_twins
             PROVE  Regular(whole)' /\ (whole' = whole \/ SameNames(whole, whole'))
  OBVIOUS
<1>1. PICK t : t = whole'
  OBVIOUS
<1>2. t = whole \/ (Regular(t) /\ SameNames(whole, t))
  <2>1. CASE WholeRuns(t)
    BY <2>1, RunIsRegular DEF WholeRuns
  <2>2. CASE WholeGrows(t)
    BY <2>2, GrowIsRegular DEF WholeGrows
  <2>3. CASE Mutated(whole, t) /\ t.speed \in Speeds
    BY <2>3, MutatedIsRegular
  <2>4. QED
    BY <1>1, <2>1, <2>2, <2>3, WholeCases
<1>3. QED
  BY <1>1, <1>2

LEMMA TwinsInitIsRegular == TwinsInit => Regular(whole)
BY EmptyIsRegular DEF TwinsInit

\* The reference engine is always regular.
THEOREM TwinsInvariance == TwinsSpec => []Regular(whole)
<1>1. TwinsInit => Regular(whole)
  BY TwinsInitIsRegular
<1>2. Regular(whole) /\ [TwinsNext]_twins => Regular(whole)'
  BY WholeStaysRegular
<1>3. QED
  BY <1>1, <1>2, PTL DEF TwinsSpec

\* What EngineAtomic promises is what this module's copy of the operators says.
LEMMA RegularIsPromised ==
    ASSUME Regular(whole)
    PROVE  EngineInv
<1>1. /\ whole \in States /\ Kept(whole) /\ Alternating(whole) /\ Sound(whole)
      /\ whole.elapsed <= MaxElapsed /\ whole.speed \in Speeds
      /\ Len(whole.fleet) <= MaxAircraft /\ Len(whole.active) <= MaxStations
  BY DEF Regular, Steady, Sound
<1>2. Registered(whole) /\ Addressed(whole) /\ CopiesAgree(whole)
      /\ \A n \in DOMAIN whole.active : Listened(whole.active[n], whole.lastSequence)
  BY <1>1 DEF Kept
<1>3. Promised!TypeOK
  <2>1. whole \in Promised!States
    <3>1. Promised!Families = Families
      BY Zenon DEF Families, Promised!Families
    <3>2. Promised!Kinds = Kinds
      BY <3>1, Zenon DEF Kinds, Promised!Kinds
    <3>3. Promised!Settings = Settings
      BY Zenon DEF Settings, Promised!Settings
    <3>4. Promised!Frames = Frames
      BY <3>2, Zenon DEF Frames, Promised!Frames
    <3>5. Promised!Heard = Heard
      BY <3>3, <3>4, Zenon DEF Heard, Promised!Heard
    <3>6. Promised!Aircraft = Aircraft
      BY <3>1, Zenon DEF Aircraft, Promised!Aircraft
    <3>7. Promised!Stations = Stations
      BY <3>3, <3>5, Zenon DEF Stations, Promised!Stations
    <3>8. Promised!States = States
      BY <3>4, <3>6, <3>7, Zenon DEF States, Promised!States
    <3>9. QED
      BY <1>1, <3>8
  <2>2. QED
    BY <1>1, <2>1, Zenon DEF Promised!TypeOK
<1>4. Promised!Identities
  <2>1. ActiveIds(whole) \subseteq whole.reserved
    BY <1>2 DEF Registered, ActiveIds
  <2>2. IdentitiesSound(whole)
    BY <1>2, <2>1, Zenon DEF Registered, Addressed, IdentitiesSound
  <2>3. IdentitiesSound(whole) => Promised!IdentitiesSound(whole)
    BY Zenon DEF IdentitiesSound, ActiveIds, Promised!IdentitiesSound, Promised!ActiveIds
  <2>4. QED
    BY <2>2, <2>3 DEF Promised!Identities
<1>5. Promised!Parity
  <2>1. ParityAlternates(whole)
    BY <1>1, AlternatingIsParity
  <2>2. ParityAlternates(whole) => Promised!ParityAlternates(whole)
    BY Zenon DEF ParityAlternates, Positions, Promised!ParityAlternates, Promised!Positions
  <2>3. QED
    BY <2>1, <2>2 DEF Promised!Parity
<1>6. Promised!Receptions
  <2>1. ReceptionsSound(whole)
    BY <1>2, Zenon DEF ReceptionsSound, Listened
  <2>2. ReceptionsSound(whole) => Promised!ReceptionsSound(whole)
    BY Zenon DEF ReceptionsSound, Promised!ReceptionsSound, Least, Promised!Least
  <2>3. CopiesAgree(whole) => Promised!CopiesAgree(whole)
    BY Zenon DEF CopiesAgree, Copies, CopiesOf,
                 Promised!CopiesAgree, Promised!Copies, Promised!CopiesOf
  <2>4. QED
    BY <1>2, <2>1, <2>2, <2>3 DEF Promised!Receptions
<1>7. Promised!Provenance
  <2>1. ProvenanceSound(whole)
    BY <1>2, Zenon DEF ProvenanceSound, Listened
  <2>2. EvidenceSound(whole)
    BY <1>2, Zenon DEF EvidenceSound, Listened
  <2>3. ProvenanceSound(whole) => Promised!ProvenanceSound(whole)
    BY Zenon DEF ProvenanceSound, Promised!ProvenanceSound
  <2>4. EvidenceSound(whole) => Promised!EvidenceSound(whole)
    BY Zenon DEF EvidenceSound, Promised!EvidenceSound
  <2>5. QED
    BY <2>1, <2>2, <2>3, <2>4 DEF Promised!Provenance
<1>8. QED
  BY <1>3, <1>4, <1>5, <1>6, <1>7 DEF EngineInv, Promised!FleetInv

\* runTo, deliver and update: whole mutations, composed in any order, keep every
\* promise of simulation.Engine.
THEOREM TwinsKeepEngineInv == TwinsSpec => []EngineInv
<1>1. Regular(whole) => EngineInv
  BY RegularIsPromised
<1>2. QED
  BY <1>1, TwinsInvariance, PTL

\* registry.add and allocate: an identifier or an address that was ever given out
\* never names another station or aircraft.
THEOREM TwinsKeepIdentities == TwinsSpec => IdentitiesAreForLife
<1>1. Regular(whole) /\ [TwinsNext]_twins => [Promised!KeepsIdentities]_whole
  <2> SUFFICES ASSUME Regular(whole), [TwinsNext]_twins, whole' # whole
               PROVE  Promised!KeepsIdentities
    OBVIOUS
  <2>1. SameNames(whole, whole')
    BY WholeStaysRegular
  <2>2. Promised!ActiveIds(whole) = ActiveIds(whole)
        /\ Promised!ActiveIds(whole') = ActiveIds(whole')
    BY Zenon DEF ActiveIds, Promised!ActiveIds
  <2>3. QED
    BY <2>1, <2>2, Zenon DEF SameNames, Promised!KeepsIdentities
<1>2. QED
  BY <1>1, TwinsInvariance, PTL DEF TwinsSpec, IdentitiesAreForLife

-------------------------------------------------------------------------------
(***************************************************************************)
(* Engines in step.  Two engines with the same fleet and the same log make  *)
(* the same reports, whatever their clocks, their speeds and their stations;*)
(* what their stations make of them depends on how those are related.       *)
(***************************************************************************)

SameSky(s, t) ==
    /\ t.fleet = s.fleet
    /\ t.lastSequence = s.lastSequence
    /\ t.history = s.history
    /\ t.nextAddress = s.nextAddress

\* A station without losses, beside the same station with its own.
Overhears(st, ls) ==
    /\ ls.id = st.id
    /\ ls.ordinal = st.ordinal
    /\ ls.rev = st.rev
    /\ ls.created = st.created
    /\ ls.draws = st.draws
    /\ ls.cfg = Lossless(st.cfg)
    /\ ls.last = ls.draws
    /\ st.last <= ls.last

OverhearsAll(s, t) ==
    /\ DOMAIN t.active = DOMAIN s.active
    /\ \A i \in DOMAIN s.active : Overhears(s.active[i], t.active[i])

\* How the stations of the second engine are related to those of the first.
InStep(s, t, how) ==
    /\ SameSky(s, t)
    /\ how = "same" => t.active = s.active
    /\ how = "lossless" => OverhearsAll(s, t)

\* rand.Float64: no fraction is negative.
FractionsAreNatural == \A n, i \in Nat : Fraction(n, i) \in Nat

\* deliver: without a loss, every transmission that is heard is received.
LEMMA ReceiveOverhears ==
    ASSUME FractionsAreNatural, NEW st \in Stations, NEW ls \in Stations, Overhears(st, ls),
           NEW frame
    PROVE  Overhears(Receive(st, frame), Receive(ls, frame))
<1>1. /\ ls.id = st.id /\ ls.ordinal = st.ordinal /\ ls.rev = st.rev /\ ls.created = st.created
      /\ ls.draws = st.draws /\ ls.cfg = Lossless(st.cfg) /\ ls.last = ls.draws
      /\ st.last <= ls.last
  BY DEF Overhears
<1>2. /\ st.cfg \in Settings /\ st.draws \in Nat /\ st.last \in Nat
      /\ ls.ordinal \in Nat /\ ls.draws \in Nat /\ ls.last \in Nat
  BY DEF Stations
<1>3. ls.cfg.enabled = st.cfg.enabled /\ ls.cfg.reach = st.cfg.reach /\ ls.cfg.loss = 0
  BY <1>1, <1>2 DEF Lossless, Settings
<1>4. Hears(ls, frame) <=> Hears(st, frame)
  BY <1>3, Zenon DEF Hears
<1>5. ~Loses(ls)
  <2>1. Fraction(ls.ordinal, ls.draws) \in Nat
    BY <1>2 DEF FractionsAreNatural
  <2>2. QED
    BY <1>3, <2>1 DEF Loses
<1>6. CASE ~Hears(st, frame)
  BY <1>4, <1>6 DEF Receive
<1>7. CASE Hears(st, frame)
  <2> DEFINE drawn(x) == [x EXCEPT !.draws = @ + 1]
             heard(x, ring) == [drawn(x) EXCEPT !.last = @ + 1, !.ring = ring]
  <2>1. ASSUME NEW x \in Stations
        PROVE  /\ drawn(x).id = x.id /\ drawn(x).ordinal = x.ordinal /\ drawn(x).rev = x.rev
               /\ drawn(x).created = x.created /\ drawn(x).draws = x.draws + 1
               /\ drawn(x).cfg = x.cfg /\ drawn(x).last = x.last
    BY DEF Stations
  <2>2. ASSUME NEW x \in Stations, NEW ring
        PROVE  /\ heard(x, ring).id = x.id /\ heard(x, ring).ordinal = x.ordinal
               /\ heard(x, ring).rev = x.rev
               /\ heard(x, ring).created = x.created /\ heard(x, ring).draws = x.draws + 1
               /\ heard(x, ring).cfg = x.cfg /\ heard(x, ring).last = x.last + 1
    BY DEF Stations
  <2>3. PICK r : Receive(ls, frame) = heard(ls, r)
    <3>1. Receive(ls, frame) =
             heard(ls, Retain(drawn(ls).ring, Reception(ls, frame), ReceptionHistoryLimit))
      BY <1>4, <1>5, <1>7, Zenon DEF Receive
    <3>2. QED
      BY <3>1, Zenon
  <2>4. CASE Loses(st)
    <3>1. Receive(st, frame) = drawn(st)
      BY <1>7, <2>4, Zenon DEF Receive
    <3> HIDE DEF drawn, heard
    <3>2. QED
      BY <1>1, <1>2, <2>1, <2>2, <2>3, <3>1 DEF Overhears
  <2>5. CASE ~Loses(st)
    <3>1. PICK q : Receive(st, frame) = heard(st, q)
      <4>1. Receive(st, frame) =
               heard(st, Retain(drawn(st).ring, Reception(st, frame), ReceptionHistoryLimit))
        BY <1>7, <2>5, Zenon DEF Receive
      <4>2. QED
        BY <4>1, Zenon
    <3> HIDE DEF drawn, heard
    <3>2. QED
      BY <1>1, <1>2, <2>2, <2>3, <3>1 DEF Overhears
  <2>6. QED
    BY <2>4, <2>5
<1>8. QED
  BY <1>6, <1>7

\* record: both engines number, retain and hand out the same report.
LEMMA RecordInStep ==
    ASSUME NEW s \in States, NEW t \in States, NEW how, how = "lossless" => FractionsAreNatural,
           InStep(s, t, how),
           NEW ord \in Nat, NEW kind \in Kinds, NEW odd \in BOOLEAN, NEW at \in Nat,
           NEW u, u = Record(s, ord, kind, odd, at),
           NEW v, v = Record(t, ord, kind, odd, at)
    PROVE  InStep(u, v, how)
<1> DEFINE frame == Transmission(s, ord, kind, odd, at)
<1>1. SameSky(s, t)
  BY DEF InStep
<1>2. Transmission(t, ord, kind, odd, at) = frame
  BY <1>1 DEF Transmission, SameSky
<1>3. /\ u \in States /\ u.lastSequence = s.lastSequence + 1
      /\ u.history = Retain(s.history, frame, HistoryLimit)
      /\ u.fleet = s.fleet /\ u.nextAddress = s.nextAddress
  <2>1. Transmission(s, ord, kind, odd, at) = frame
    OBVIOUS
  <2> HIDE DEF frame
  <2>2. QED
    BY <2>1, RecordEffect
<1>4. /\ v \in States /\ v.lastSequence = t.lastSequence + 1
      /\ v.history = Retain(t.history, frame, HistoryLimit)
      /\ v.fleet = t.fleet /\ v.nextAddress = t.nextAddress
  BY <1>2, RecordEffect
<1>5. /\ DOMAIN u.active = DOMAIN s.active
      /\ \A i \in DOMAIN s.active : u.active[i] = Receive(s.active[i], frame)
  BY RecordDelivers
<1>6. /\ DOMAIN v.active = DOMAIN t.active
      /\ \A i \in DOMAIN t.active : v.active[i] = Receive(t.active[i], frame)
  BY <1>2, RecordDelivers
<1> HIDE DEF frame
<1>7. SameSky(u, v)
  BY <1>1, <1>3, <1>4 DEF SameSky
<1>8. s.active \in Seq(Stations) /\ t.active \in Seq(Stations)
      /\ u.active \in Seq(Stations) /\ v.active \in Seq(Stations)
  BY <1>3, <1>4 DEF States
<1>9. ASSUME how = "same"
      PROVE  v.active = u.active
  <2>1. t.active = s.active
    BY <1>9 DEF InStep
  <2>2. Len(v.active) = Len(u.active) /\ \A i \in 1 .. Len(v.active) : v.active[i] = u.active[i]
    BY <1>5, <1>6, <1>8, <2>1
  <2>3. QED
    BY <1>8, <2>2, SeqEqual
<1>10. ASSUME how = "lossless"
       PROVE  OverhearsAll(u, v)
  <2>1. /\ DOMAIN t.active = DOMAIN s.active
        /\ \A i \in DOMAIN s.active : Overhears(s.active[i], t.active[i])
    BY <1>10 DEF InStep, OverhearsAll
  <2>2. ASSUME NEW i \in DOMAIN s.active
        PROVE  Overhears(u.active[i], v.active[i])
    <3>1. s.active[i] \in Stations /\ t.active[i] \in Stations
      BY <1>8, <2>1
    <3>2. Overhears(Receive(s.active[i], frame), Receive(t.active[i], frame))
      BY <1>10, <2>1, <3>1, ReceiveOverhears
    <3>3. QED
      BY <1>5, <1>6, <2>1, <3>2
  <2>3. QED
    BY <1>5, <1>6, <2>1, <2>2 DEF OverhearsAll
<1>11. QED
  BY <1>7, <1>9, <1>10 DEF InStep

\* nextEvent: the same fleet has the same next event.
LEMMA EventsInStep ==
    ASSUME NEW s, NEW t, t.fleet = s.fleet, NEW limit
    PROVE  Due(t, limit) = Due(s, limit) /\ NextEvent(t, limit) = NextEvent(s, limit)
<1>1. Due(t, limit) = Due(s, limit)
  BY Zenon DEF Due
<1>2. \A e, f : Precedes(t, e, f) <=> Precedes(s, e, f)
  BY Zenon DEF Precedes
<1>3. \A e : IsNext(t, limit, e) <=> IsNext(s, limit, e)
  BY <1>1, <1>2, Zenon DEF IsNext
<1>4. NextEvent(t, limit) = NextEvent(s, limit)
  BY <1>1, <1>3, Zenon DEF NextEvent
<1>5. QED
  BY <1>1, <1>4

\* runTo: one iteration.
LEMMA EmitInStep ==
    ASSUME NEW s, NEW t, Prepared(s), Prepared(t), NEW limit \in Nat, limit <= MaxDuration,
           NEW how, how = "lossless" => FractionsAreNatural, InStep(s, t, how),
           NEW e \in Due(s, limit), NEW u, u = Emit(s, e), NEW v, v = Emit(t, e)
    PROVE  InStep(u, v, how)
<1>1. s \in States /\ t \in States /\ t.fleet = s.fleet
  BY DEF Prepared, InStep, SameSky
<1>2. e \in Due(t, limit)
  BY <1>1, EventsInStep
<1>3. Fired(s, e, u)
  BY EmitGoesOn
<1>4. Fired(t, e, v)
  BY <1>2, EmitGoesOn
<1> DEFINE craft == s.fleet[e[1]]
           kind  == Families[e[2]]
           odd   == kind = "position" /\ craft.odd
           at    == craft.due[e[2]]
           fleet == [s.fleet EXCEPT ![e[1]] = Reschedule(craft, e[2])]
<1>5. PICK a : a = Record(s, craft.ord, kind, odd, at)
  OBVIOUS
<1>6. PICK b : b = Record(t, craft.ord, kind, odd, at)
  OBVIOUS
<1>7. /\ craft.ord \in Nat /\ kind \in Kinds /\ odd \in BOOLEAN /\ at \in Nat
      /\ a \in States /\ u.fleet = fleet /\ u.history = a.history /\ u.active = a.active
      /\ u.lastSequence = s.lastSequence + 1 /\ u.nextAddress = s.nextAddress
  BY <1>3, <1>5, Zenon DEF Fired
<1>8. /\ b \in States /\ v.fleet = fleet /\ v.history = b.history /\ v.active = b.active
      /\ v.lastSequence = t.lastSequence + 1 /\ v.nextAddress = t.nextAddress
  BY <1>1, <1>4, <1>6, Zenon DEF Fired
<1>9. InStep(a, b, how)
  <2> HIDE DEF craft, kind, odd, at
  <2>1. QED
    BY <1>1, <1>5, <1>6, <1>7, RecordInStep
<1> HIDE DEF fleet
<1>10. SameSky(u, v)
  BY <1>7, <1>8, <1>9 DEF SameSky, InStep
<1>11. OverhearsAll(a, b) => OverhearsAll(u, v)
  BY <1>7, <1>8, Zenon DEF OverhearsAll
<1>12. QED
  BY <1>7, <1>8, <1>9, <1>10, <1>11 DEF InStep

\* runTo: the loop.
LEMMA EmissionsInStep ==
    ASSUME NEW s, NEW t, Prepared(s), Prepared(t), NEW limit \in Nat, limit <= MaxDuration,
           NEW how, how = "lossless" => FractionsAreNatural, InStep(s, t, how)
    PROVE  \A n \in Nat : InStep(Emissions(s, limit)[n], Emissions(t, limit)[n], how)
<1> DEFINE e == Emissions(s, limit)
           f == Emissions(t, limit)
           S == {n \in Nat : InStep(e[n], f[n], how)}
<1>1. e[0] = s /\ \A n \in Nat : e[n + 1] = Iterate(e[n], limit)
  BY EmissionsIterate
<1>2. f[0] = t /\ \A n \in Nat : f[n + 1] = Iterate(f[n], limit)
  BY EmissionsIterate
<1>3. \A n \in Nat : Prepared(e[n])
  BY EmissionsGoOn
<1>4. \A n \in Nat : Prepared(f[n])
  BY EmissionsGoOn
<1> HIDE DEF e, f
<1>5. 0 \in S
  BY <1>1, <1>2
<1>6. ASSUME NEW n \in Nat, n \in S
      PROVE  n + 1 \in S
  <2>1. InStep(e[n], f[n], how) /\ Prepared(e[n]) /\ Prepared(f[n]) /\ e[n] \in States
    BY <1>3, <1>4, <1>6 DEF Prepared
  <2>2. Due(f[n], limit) = Due(e[n], limit) /\ NextEvent(f[n], limit) = NextEvent(e[n], limit)
    <3>1. f[n].fleet = e[n].fleet
      BY <2>1 DEF InStep, SameSky
    <3>2. QED
      BY <3>1, EventsInStep
  <2>3. CASE Due(e[n], limit) = {}
    BY <1>1, <1>2, <2>1, <2>2, <2>3 DEF Iterate
  <2>4. CASE Due(e[n], limit) # {}
    <3> DEFINE g == NextEvent(e[n], limit)
    <3>1. g \in Due(e[n], limit)
      BY <2>1, <2>4, NextIsDue
    <3>2. e[n + 1] = Emit(e[n], g) /\ f[n + 1] = Emit(f[n], g)
      BY <1>1, <1>2, <2>2, <2>4 DEF Iterate
    <3> HIDE DEF g
    <3>3. InStep(e[n + 1], f[n + 1], how)
      BY <2>1, <3>1, <3>2, EmitInStep
    <3>4. QED
      BY <3>3
  <2>5. QED
    BY <2>3, <2>4
<1> HIDE DEF S
<1>7. Nat \subseteq S
  BY <1>5, <1>6, EveryNumber
<1>8. QED
  BY <1>7 DEF S, e, f

\* What two engines that received the same time have in common.
SameClock(s, t) == t.elapsed = s.elapsed /\ t.carry = s.carry /\ t.speed = s.speed

\* runTo: the whole loop.
LEMMA DrainInStep ==
    ASSUME NEW s, NEW t, Prepared(s), Prepared(t), NEW limit \in Nat, limit <= MaxDuration,
           NEW how, how = "lossless" => FractionsAreNatural, InStep(s, t, how)
    PROVE  InStep(Drain(s, limit), Drain(t, limit), how)
<1>1. MaxBatchFrames + 1 \in Nat
  BY EngineLimits
<1>2. QED
  BY <1>1, EmissionsInStep DEF Drain

\* runTo: Advance and Elapse.
LEMMA RunInStep ==
    ASSUME NEW s, NEW t, Prepared(s), Prepared(t), NEW clock \in [elapsed : Nat, carry : 0 .. 99],
           clock.elapsed <= MaxDuration, t.speed = s.speed,
           NEW how, how = "lossless" => FractionsAreNatural, InStep(s, t, how),
           NEW u, u = RunTo(s, clock), NEW v, v = RunTo(t, clock)
    PROVE  InStep(u, v, how) /\ SameClock(u, v) /\ v.reserved = t.reserved /\ v.nextStation = t.nextStation
<1>1. clock.elapsed \in Nat /\ clock.carry \in 0 .. 99 /\ MaxBatchFrames + 1 \in Nat
  BY EngineLimits
<1>2. PICK now : now = clock.elapsed
  OBVIOUS
<1>3. PICK rest : rest = clock.carry
  OBVIOUS
<1>4. PICK a : a = Drain(s, now)
  OBVIOUS
<1>5. PICK b : b = Drain(t, now)
  OBVIOUS
<1>6. now \in Nat /\ now <= MaxDuration /\ rest \in 0 .. 99
  BY <1>1, <1>2, <1>3
<1>7. Prepared(a) /\ Onward(s, a) /\ a \in States
  BY <1>1, <1>4, <1>6, EmissionsGoOn DEF Drain, Prepared
<1>8. Prepared(b) /\ Onward(t, b) /\ b \in States
  BY <1>1, <1>5, <1>6, EmissionsGoOn DEF Drain, Prepared
<1>9. InStep(a, b, how)
  BY <1>4, <1>5, <1>6, DrainInStep
<1>10. Arrived(a, now, rest, u)
  <2>1. u = [a EXCEPT !.elapsed = now, !.carry = rest]
    BY <1>2, <1>3, <1>4 DEF RunTo
  <2>2. QED
    BY <1>6, <1>7, <2>1, ArriveEffect, Zenon
<1>11. Arrived(b, now, rest, v)
  <2>1. v = [b EXCEPT !.elapsed = now, !.carry = rest]
    BY <1>2, <1>3, <1>5 DEF RunTo
  <2>2. QED
    BY <1>6, <1>8, <2>1, ArriveEffect, Zenon
<1>12. InStep(u, v, how)
  <2>1. u.active = a.active /\ v.active = b.active
    BY <1>10, <1>11 DEF Arrived, SameRegistry
  <2>2. OverhearsAll(a, b) => OverhearsAll(u, v)
    BY <2>1, Zenon DEF OverhearsAll
  <2>3. SameSky(u, v)
    BY <1>9, <1>10, <1>11 DEF Arrived, SameSky, InStep
  <2>4. QED
    BY <1>9, <2>1, <2>2, <2>3 DEF InStep
<1>13. SameClock(u, v)
  BY <1>7, <1>8, <1>10, <1>11 DEF Arrived, Onward, SameClock
<1>14. v.reserved = t.reserved /\ v.nextStation = t.nextStation
  BY <1>8, <1>11 DEF Arrived, SameRegistry, Onward
<1>15. QED
  BY <1>12, <1>13, <1>14

\* addAircraft: one aircraft.
LEMMA AddAircraftInStep ==
    ASSUME NEW s \in States, NEW t \in States, s.nextAddress \in 1 .. MaxAddress,
           t.elapsed = s.elapsed,
           NEW how, how = "lossless" => FractionsAreNatural, InStep(s, t, how),
           NEW u, u = AddAircraft(s), NEW v, v = AddAircraft(t)
    PROVE  InStep(u, v, how) /\ Created(s, u) /\ Created(t, v)
<1>1. t.nextAddress = s.nextAddress /\ t.fleet = s.fleet /\ t.lastSequence = s.lastSequence
  BY DEF InStep, SameSky
<1>2. Created(s, u)
  BY AddAircraftCreates
<1>3. Created(t, v)
  BY <1>1, AddAircraftCreates
<1> DEFINE ord == s.nextAddress
           at  == s.elapsed
           k1  == Families[1]
           k2  == Families[2]
           k3  == Families[3]
<1>4. PICK a : a = Record(s, ord, k1, FALSE, at)
  OBVIOUS
<1>5. PICK b : b = Record(a, ord, k2, FALSE, at)
  OBVIOUS
<1>6. PICK c : c = Record(b, ord, k3, FALSE, at)
  OBVIOUS
<1>7. PICK d : d = Record(t, ord, k1, FALSE, at)
  OBVIOUS
<1>8. PICK e : e = Record(d, ord, k2, FALSE, at)
  OBVIOUS
<1>9. PICK f : f = Record(e, ord, k3, FALSE, at)
  OBVIOUS
<1>10. /\ a \in States /\ b \in States /\ c \in States /\ ord \in Nat /\ at \in Nat
       /\ u.nextAddress = ord + 1 /\ u.fleet = Append(s.fleet, NewAircraft(ord, at))
       /\ u.lastSequence = s.lastSequence + 3
       /\ u.history = c.history /\ u.active = c.active
  BY <1>2, <1>4, <1>5, <1>6, Zenon DEF Created
<1>11. /\ d \in States /\ e \in States /\ f \in States
       /\ v.nextAddress = ord + 1 /\ v.fleet = Append(s.fleet, NewAircraft(ord, at))
       /\ v.lastSequence = s.lastSequence + 3
       /\ v.history = f.history /\ v.active = f.active
  BY <1>1, <1>3, <1>7, <1>8, <1>9, Zenon DEF Created
<1>12. k1 \in Kinds /\ k2 \in Kinds /\ k3 \in Kinds /\ FALSE \in BOOLEAN
  BY ThreeFamilies DEF Kinds
<1> HIDE DEF ord, at, k1, k2, k3
<1>13. InStep(a, d, how)
  BY <1>4, <1>7, <1>10, <1>12, RecordInStep
<1>14. InStep(b, e, how)
  BY <1>5, <1>8, <1>10, <1>11, <1>12, <1>13, RecordInStep
<1>15. InStep(c, f, how)
  BY <1>6, <1>9, <1>10, <1>11, <1>12, <1>14, RecordInStep
<1>16. SameSky(u, v)
  BY <1>10, <1>11, <1>15 DEF SameSky, InStep
<1>17. OverhearsAll(c, f) => OverhearsAll(u, v)
  BY <1>10, <1>11, Zenon DEF OverhearsAll
<1>18. InStep(u, v, how)
  BY <1>10, <1>11, <1>15, <1>16, <1>17 DEF InStep
<1>19. QED
  BY <1>2, <1>3, <1>18

\* addAircraft: the loop.
LEMMA GrowInStep ==
    ASSUME NEW s \in States, NEW t \in States, s.nextAddress >= 1, SameClock(s, t),
           NEW how, how = "lossless" => FractionsAreNatural, InStep(s, t, how),
           NEW n \in Nat, s.nextAddress + n <= MaxAddress + 1
    PROVE  InStep(Grow(s, n), Grow(t, n), how)
<1> DEFINE e == Additions(s)
           f == Additions(t)
           S == {m \in Nat : m <= n => InStep(e[m], f[m], how)}
<1>1. e[0] = s /\ \A m \in Nat : e[m + 1] = AddAircraft(e[m])
  BY AdditionsIterate
<1>2. f[0] = t /\ \A m \in Nat : f[m + 1] = AddAircraft(f[m])
  BY AdditionsIterate
<1>3. t.nextAddress = s.nextAddress /\ s.nextAddress \in Nat /\ MaxAddress \in Nat
      /\ t.elapsed = s.elapsed
  BY EngineLimits DEF InStep, SameSky, States, SameClock
<1>4. \A m \in 0 .. n : Grown(s, e[m], m)
  BY AdditionsGoOn
<1>5. \A m \in 0 .. n : Grown(t, f[m], m)
  BY <1>3, AdditionsGoOn
<1>6. Grow(s, n) = e[n] /\ Grow(t, n) = f[n]
  BY DEF Grow
<1> HIDE DEF e, f
<1>7. 0 \in S
  BY <1>1, <1>2
<1>8. ASSUME NEW m \in Nat, m \in S
      PROVE  m + 1 \in S
  <2>1. SUFFICES ASSUME m + 1 <= n PROVE InStep(e[m + 1], f[m + 1], how)
    OBVIOUS
  <2>2. m \in 0 .. n /\ InStep(e[m], f[m], how)
    BY <1>8, <2>1
  <2>3. Grown(s, e[m], m) /\ Grown(t, f[m], m)
    BY <1>4, <1>5, <2>2
  <2>4. /\ e[m] \in States /\ f[m] \in States /\ f[m].elapsed = e[m].elapsed
        /\ e[m].nextAddress = s.nextAddress + m
    BY <1>3, <2>3 DEF Grown
  <2>5. e[m].nextAddress \in 1 .. MaxAddress
    BY <1>3, <2>1, <2>4
  <2>6. QED
    BY <1>1, <1>2, <2>2, <2>4, <2>5, AddAircraftInStep
<1> HIDE DEF S
<1>9. Nat \subseteq S
  BY <1>7, <1>8, EveryNumber
<1>10. InStep(e[n], f[n], how)
  BY <1>9 DEF S
<1>11. QED
  BY <1>6, <1>10

\* An engine beside another one under the same commands.
Twin(s, t, how) ==
    /\ t \in States
    /\ InStep(s, t, how)
    /\ SameClock(s, t)
    /\ how = "lossless" => t.reserved = s.reserved /\ t.nextStation = s.nextStation

LEMMA TwinIsPrepared ==
    ASSUME NEW s, Prepared(s), NEW t, NEW how, Twin(s, t, how)
    PROVE  Prepared(t)
<1>1. t \in States /\ t.fleet = s.fleet
  BY DEF Twin, InStep, SameSky
<1>2. QED
  BY <1>1 DEF Prepared

LEMMA RegularIsPrepared ==
    ASSUME NEW s, Regular(s)
    PROVE  Prepared(s) /\ s \in States
BY ScheduledIsPrepared DEF Regular, Steady, Sound

\* Advance and Elapse.
LEMMA RunKeepsTwins ==
    ASSUME NEW s, Prepared(s), NEW t, NEW how, how = "lossless" => FractionsAreNatural,
           Twin(s, t, how), NEW clock \in [elapsed : Nat, carry : 0 .. 99],
           clock.elapsed <= MaxDuration
    PROVE  Twin(RunTo(s, clock), RunTo(t, clock), how)
<1>1. Prepared(t) /\ InStep(s, t, how) /\ t.speed = s.speed
  BY TwinIsPrepared DEF Twin, SameClock
<1>2. PICK u : u = RunTo(s, clock)
  OBVIOUS
<1>3. PICK v : v = RunTo(t, clock)
  OBVIOUS
<1>4. InStep(u, v, how) /\ SameClock(u, v) /\ v.reserved = t.reserved /\ v.nextStation = t.nextStation
  BY <1>1, <1>2, <1>3, RunInStep
<1>5. u.reserved = s.reserved /\ u.nextStation = s.nextStation
  <2>1. InStep(s, s, "same")
    BY DEF InStep, SameSky
  <2>2. QED
    BY <1>2, <2>1, RunInStep
<1>6. v \in States
  <2>1. PICK now : now = clock.elapsed
    OBVIOUS
  <2>2. PICK rest : rest = clock.carry
    OBVIOUS
  <2>3. PICK b : b = Drain(t, now)
    OBVIOUS
  <2>4. now \in Nat /\ now <= MaxDuration /\ rest \in 0 .. 99 /\ MaxBatchFrames + 1 \in Nat
    BY <2>1, <2>2, EngineLimits
  <2>5. b \in States
    BY <1>1, <2>3, <2>4, EmissionsGoOn DEF Drain, Prepared
  <2>6. Arrived(b, now, rest, v)
    <3>1. v = [b EXCEPT !.elapsed = now, !.carry = rest]
      BY <1>3, <2>1, <2>2, <2>3 DEF RunTo
    <3>2. QED
      BY <2>4, <2>5, <3>1, ArriveEffect, Zenon
  <2>7. QED
    BY <2>6 DEF Arrived
<1>7. Twin(u, v, how)
  BY <1>4, <1>5, <1>6 DEF Twin
<1>8. QED
  BY <1>2, <1>3, <1>7

\* SetCount.
LEMMA ResizeKeepsTwins ==
    ASSUME NEW s, Regular(s), NEW t, NEW how, how = "lossless" => FractionsAreNatural,
           Twin(s, t, how), NEW n \in 0 .. MaxAircraft,
           s.nextAddress + (n - Len(s.fleet)) <= MaxAddress + 1
    PROVE  Twin(Resize(s, n), Resize(t, n), how)
<1>1. /\ s \in States /\ s.nextAddress \in Nat /\ s.nextAddress >= 1 /\ s.fleet \in Seq(Aircraft)
  BY EngineLimits DEF Regular, Steady, Sound, Allocated, States
<1>2. /\ t \in States /\ InStep(s, t, how) /\ SameClock(s, t)
      /\ t.fleet = s.fleet /\ t.nextAddress = s.nextAddress
  BY DEF Twin, InStep, SameSky
<1>3. n \in Nat /\ Len(s.fleet) \in Nat
  BY <1>1, EngineLimits
<1>4. PICK u : u = Resize(s, n)
  OBVIOUS
<1>5. PICK v : v = Resize(t, n)
  OBVIOUS
<1>6. CASE n > Len(s.fleet)
  <2>1. PICK m \in Nat : m = n - Len(s.fleet)
    BY <1>3, <1>6
  <2>2. u = Grow(s, m) /\ v = Grow(t, m)
    BY <1>2, <1>4, <1>5, <1>6, <2>1 DEF Resize
  <2>3. s.nextAddress + m <= MaxAddress + 1
    BY <2>1
  <2>4. InStep(u, v, how)
    BY <1>1, <1>2, <2>2, <2>3, GrowInStep
  <2>5. m \in 0 .. m
    OBVIOUS
  <2>6. Grown(s, u, m)
    BY <1>1, <2>2, <2>3, <2>5, AdditionsGoOn DEF Grow
  <2>7. Grown(t, v, m)
    BY <1>1, <1>2, <2>2, <2>3, <2>5, AdditionsGoOn DEF Grow
  <2>8. Twin(u, v, how)
    BY <2>4, <2>6, <2>7 DEF Grown, Twin, SameClock
  <2>9. QED
    BY <1>4, <1>5, <2>8
<1>7. CASE ~(n > Len(s.fleet))
  <2>1. n \in 0 .. Len(s.fleet)
    BY <1>3, <1>7
  <2>2. u = Shrink(s, n) /\ v = Shrink(t, n)
    BY <1>2, <1>4, <1>5, <1>7 DEF Resize
  <2>3. SameLog(s, u) /\ SameRegistry(s, u) /\ u.speed = s.speed
    BY <1>1, <2>1, <2>2, ShrinkEffect
  <2>4. SameLog(t, v) /\ SameRegistry(t, v) /\ v.speed = t.speed
    BY <1>2, <2>1, <2>2, ShrinkEffect
  <2>5. u.fleet = SubSeq(s.fleet, 1, n) /\ v.fleet = SubSeq(t.fleet, 1, n)
    BY <1>1, <1>2, <2>2 DEF Shrink, States
  <2>6. SameSky(u, v)
    BY <1>2, <2>3, <2>4, <2>5 DEF InStep, SameSky, SameLog
  <2>7. u.active = s.active /\ v.active = t.active
    BY <2>3, <2>4 DEF SameRegistry
  <2>8. OverhearsAll(s, t) => OverhearsAll(u, v)
    BY <2>7, Zenon DEF OverhearsAll
  <2>9. InStep(u, v, how)
    BY <1>2, <2>6, <2>7, <2>8 DEF InStep
  <2>10. Twin(u, v, how)
    BY <2>3, <2>4, <2>9 DEF Twin, SameLog, SameRegistry, SameClock
  <2>11. QED
    BY <1>4, <1>5, <2>10
<1>8. QED
  BY <1>6, <1>7

\* SetSpeed.
LEMMA SpeedKeepsTwins ==
    ASSUME NEW s \in States, NEW t, NEW how, Twin(s, t, how), NEW speed \in Nat
    PROVE  Twin([s EXCEPT !.speed = speed], [t EXCEPT !.speed = speed], how)
<1>1. PICK u : u = [s EXCEPT !.speed = speed]
  OBVIOUS
<1>2. PICK v : v = [t EXCEPT !.speed = speed]
  OBVIOUS
<1>3. t \in States
  BY DEF Twin
<1>4. SameLog(s, u) /\ SameRegistry(s, u) /\ u.speed = speed /\ u.fleet = s.fleet
  BY <1>1, SpeedEffect
<1>5. SameLog(t, v) /\ SameRegistry(t, v) /\ v.speed = speed /\ v.fleet = t.fleet
  BY <1>2, <1>3, SpeedEffect
<1>6. u.active = s.active /\ v.active = t.active
  BY <1>4, <1>5 DEF SameRegistry
<1>7. OverhearsAll(s, t) => OverhearsAll(u, v)
  BY <1>6, Zenon DEF OverhearsAll
<1>8. SameSky(u, v)
  BY <1>4, <1>5 DEF Twin, InStep, SameSky, SameLog
<1>9. InStep(u, v, how)
  BY <1>6, <1>7, <1>8 DEF Twin, InStep
<1>10. Twin(u, v, how)
  BY <1>4, <1>5, <1>9 DEF Twin, SameLog, SameRegistry, SameClock
<1>11. QED
  BY <1>1, <1>2, <1>10

\* What station commands do is nothing to an engine without stations.
LEMMA StationsKeepQuiet ==
    ASSUME NEW s, NEW t, Twin(s, t, "none"), NEW u, SameLog(s, u), u.fleet = s.fleet, u.speed = s.speed
    PROVE  Twin(u, t, "none")
<1>1. "none" # "same" /\ "none" # "lossless"
  OBVIOUS
<1>2. QED
  BY <1>1 DEF Twin, InStep, SameSky, SameClock, SameLog

\* registry.find: the same names are found at the same places.
LEMMA FindsTwins ==
    ASSUME NEW s, NEW t, OverhearsAll(s, t), NEW id
    PROVE  Find(t, id) = Find(s, id) /\ ActiveIds(t) = ActiveIds(s)
<1>1. /\ DOMAIN t.active = DOMAIN s.active
      /\ \A i \in DOMAIN s.active : t.active[i].id = s.active[i].id
  BY DEF OverhearsAll, Overhears
<1>2. \A i : (i \in DOMAIN t.active /\ t.active[i].id = id)
                <=> (i \in DOMAIN s.active /\ s.active[i].id = id)
  BY <1>1
<1>3. Find(t, id) = Find(s, id)
  BY <1>2, Zenon DEF Find
<1>4. ActiveIds(t) = ActiveIds(s)
  BY <1>1 DEF ActiveIds
<1>5. QED
  BY <1>3, <1>4

\* registry.add.
LEMMA AddedKeepsTwins ==
    ASSUME NEW s \in States, NEW t, Twin(s, t, "lossless"), NEW id \in StationIds,
           NEW cfg \in Settings, NEW u, u = StationAdded(s, id, cfg),
           NEW v, v = StationAdded(t, id, Lossless(cfg))
    PROVE  Twin(u, v, "lossless")
<1>1. /\ t \in States /\ SameSky(s, t) /\ OverhearsAll(s, t) /\ SameClock(s, t)
      /\ t.reserved = s.reserved /\ t.nextStation = s.nextStation
  BY DEF Twin, InStep
<1>2. Lossless(cfg) \in Settings
  BY DEF Lossless, Settings
<1>3. PICK ccc : ccc = Lossless(cfg)
  OBVIOUS
<1>4. AddedTo(s, id, cfg, u)
  BY AddedEffect
<1>5. AddedTo(t, id, ccc, v)
  BY <1>1, <1>2, <1>3, AddedEffect
<1> DEFINE st == [id |-> id, cfg |-> cfg, rev |-> 1, created |-> s.elapsed,
                  ordinal |-> s.nextStation, draws |-> 0, last |-> 0, ring |-> <<>>]
           ls == [id |-> id, cfg |-> ccc, rev |-> 1, created |-> t.elapsed,
                  ordinal |-> t.nextStation, draws |-> 0, last |-> 0, ring |-> <<>>]
<1>6. u.active = Append(s.active, st) /\ v.active = Append(t.active, ls)
  BY <1>4, <1>5, Zenon DEF AddedTo
<1>7. Overhears(st, ls)
  BY <1>1, <1>3 DEF Overhears, SameClock
<1> HIDE DEF st, ls
<1>8. s.active \in Seq(Stations) /\ t.active \in Seq(Stations) /\ Len(t.active) = Len(s.active)
  <2>1. s.active \in Seq(Stations) /\ t.active \in Seq(Stations)
    BY <1>1 DEF States
  <2>2. QED
    BY <1>1, <2>1 DEF OverhearsAll
<1>9. /\ DOMAIN u.active = 1 .. Len(s.active) + 1
      /\ \A i \in 1 .. Len(s.active) : u.active[i] = s.active[i]
      /\ u.active[Len(s.active) + 1] = st
  BY <1>6, <1>8, AppendProperties
<1>10. /\ DOMAIN v.active = 1 .. Len(s.active) + 1
       /\ \A i \in 1 .. Len(s.active) : v.active[i] = t.active[i]
       /\ v.active[Len(s.active) + 1] = ls
  BY <1>6, <1>8, AppendProperties
<1>11. OverhearsAll(u, v)
  <2>1. ASSUME NEW i \in DOMAIN u.active
        PROVE  Overhears(u.active[i], v.active[i])
    <3>1. CASE i = Len(s.active) + 1
      BY <1>7, <1>9, <1>10, <3>1
    <3>2. CASE i # Len(s.active) + 1
      <4>1. i \in 1 .. Len(s.active) /\ i \in DOMAIN s.active
        BY <1>8, <1>9, <3>2
      <4>2. Overhears(s.active[i], t.active[i])
        BY <1>1, <4>1 DEF OverhearsAll
      <4>3. QED
        BY <1>9, <1>10, <4>1, <4>2
    <3>3. QED
      BY <3>1, <3>2
  <2>2. QED
    BY <1>9, <1>10, <2>1 DEF OverhearsAll
<1>12. /\ SameLog(s, u) /\ u.fleet = s.fleet /\ u.speed = s.speed
       /\ u.reserved = s.reserved \cup {id} /\ u.nextStation = s.nextStation + 1
  BY <1>4, Zenon DEF AddedTo
<1>13. /\ SameLog(t, v) /\ v.fleet = t.fleet /\ v.speed = t.speed
       /\ v.reserved = t.reserved \cup {id} /\ v.nextStation = t.nextStation + 1
  BY <1>5, Zenon DEF AddedTo
<1>14. SameSky(u, v) /\ SameClock(u, v) /\ v \in States
  BY <1>1, <1>12, <1>13 DEF SameSky, SameClock, SameLog
<1>15. "lossless" # "same"
  OBVIOUS
<1>16. QED
  BY <1>1, <1>11, <1>12, <1>13, <1>14, <1>15 DEF Twin, InStep

\* A registry that was replaced in both engines.
LEMMA RegistryKeepsTwins ==
    ASSUME NEW s, NEW t, Twin(s, t, "lossless"), NEW u, NEW v, OverhearsAll(u, v),
           SameLog(s, u), u.fleet = s.fleet, u.speed = s.speed,
           u.reserved = s.reserved, u.nextStation = s.nextStation,
           SameLog(t, v), v.fleet = t.fleet, v.speed = t.speed,
           v.reserved = t.reserved, v.nextStation = t.nextStation
    PROVE  Twin(u, v, "lossless")
<1>1. SameSky(u, v) /\ SameClock(u, v) /\ v \in States
  BY DEF Twin, InStep, SameSky, SameClock, SameLog
<1>2. "lossless" # "same"
  OBVIOUS
<1>3. QED
  BY <1>1, <1>2 DEF Twin, InStep

\* registry.update.
LEMMA UpdatedKeepsTwins ==
    ASSUME NEW s \in States, NEW t, Twin(s, t, "lossless"), NEW id \in ActiveIds(s),
           NEW cfg \in Settings, NEW u, u = StationUpdated(s, id, cfg),
           NEW v, v = StationUpdated(t, id, Lossless(cfg))
    PROVE  Twin(u, v, "lossless")
<1>1. t \in States /\ OverhearsAll(s, t)
  BY DEF Twin, InStep
<1>2. Lossless(cfg) \in Settings
  BY DEF Lossless, Settings
<1>3. PICK ccc : ccc = Lossless(cfg)
  OBVIOUS
<1>4. UpdatedIn(s, id, cfg, u)
  BY UpdatedEffect
<1>5. UpdatedIn(t, id, ccc, v)
  <2>1. id \in ActiveIds(t)
    BY <1>1, FindsTwins
  <2>2. QED
    BY <1>1, <1>2, <1>3, <2>1, UpdatedEffect
<1>6. PICK n : n = Find(s, id)
  OBVIOUS
<1>7. Find(t, id) = n
  BY <1>1, <1>6, FindsTwins
<1>8. /\ SameLog(s, u) /\ u.fleet = s.fleet /\ u.speed = s.speed
      /\ u.reserved = s.reserved /\ u.nextStation = s.nextStation
      /\ n \in DOMAIN s.active
      /\ u.active = [s.active EXCEPT ![n] =
                        [s.active[n] EXCEPT !.cfg = cfg, !.rev = s.active[n].rev + 1]]
  BY <1>4, <1>6, Zenon DEF UpdatedIn
<1>9. /\ SameLog(t, v) /\ v.fleet = t.fleet /\ v.speed = t.speed
      /\ v.reserved = t.reserved /\ v.nextStation = t.nextStation
      /\ v.active = [t.active EXCEPT ![n] =
                        [t.active[n] EXCEPT !.cfg = ccc, !.rev = t.active[n].rev + 1]]
  BY <1>5, <1>7, Zenon DEF UpdatedIn
<1>10. s.active \in Seq(Stations) /\ t.active \in Seq(Stations)
  BY <1>1 DEF States
<1>11. /\ DOMAIN t.active = DOMAIN s.active
       /\ \A i \in DOMAIN s.active : Overhears(s.active[i], t.active[i])
  BY <1>1 DEF OverhearsAll
<1>12. s.active[n] \in Stations /\ t.active[n] \in Stations /\ Overhears(s.active[n], t.active[n])
  BY <1>8, <1>10, <1>11
<1>13. Overhears(u.active[n], v.active[n])
  <2>1. PICK st : st = s.active[n]
    OBVIOUS
  <2>2. PICK ls : ls = t.active[n]
    OBVIOUS
  <2>3. u.active[n] = [st EXCEPT !.cfg = cfg, !.rev = st.rev + 1]
    BY <1>8, <1>10, <2>1
  <2>4. v.active[n] = [ls EXCEPT !.cfg = ccc, !.rev = ls.rev + 1]
    BY <1>8, <1>9, <1>10, <1>11, <2>2
  <2>5. st \in Stations /\ ls \in Stations /\ Overhears(st, ls)
    BY <1>12, <2>1, <2>2
  <2>6. Overhears([st EXCEPT !.cfg = cfg, !.rev = st.rev + 1],
                  [ls EXCEPT !.cfg = ccc, !.rev = ls.rev + 1])
    BY <1>3, <2>5 DEF Overhears, Stations
  <2>7. QED
    BY <2>3, <2>4, <2>6
<1>14. OverhearsAll(u, v)
  <2>1. DOMAIN u.active = DOMAIN s.active /\ DOMAIN v.active = DOMAIN s.active
    BY <1>8, <1>9, <1>10, <1>11
  <2>2. \A i \in DOMAIN s.active \ {n} : u.active[i] = s.active[i] /\ v.active[i] = t.active[i]
    BY <1>8, <1>9, <1>10, <1>11
  <2>3. QED
    BY <1>11, <1>13, <2>1, <2>2 DEF OverhearsAll
<1>15. QED
  BY <1>8, <1>9, <1>14, RegistryKeepsTwins

\* registry.remove.
LEMMA RemovedKeepsTwins ==
    ASSUME NEW s \in States, NEW t, Twin(s, t, "lossless"), NEW id \in ActiveIds(s),
           NEW u, u = StationRemoved(s, id), NEW v, v = StationRemoved(t, id)
    PROVE  Twin(u, v, "lossless")
<1>1. t \in States /\ OverhearsAll(s, t)
  BY DEF Twin, InStep
<1>2. RemovedFrom(s, id, u)
  BY RemovedEffect
<1>3. RemovedFrom(t, id, v)
  <2>1. id \in ActiveIds(t)
    BY <1>1, FindsTwins
  <2>2. QED
    BY <1>1, <2>1, RemovedEffect
<1>4. PICK n : n = Find(s, id)
  OBVIOUS
<1>5. Find(t, id) = n
  BY <1>1, <1>4, FindsTwins
<1>6. /\ SameLog(s, u) /\ u.fleet = s.fleet /\ u.speed = s.speed
      /\ u.reserved = s.reserved /\ u.nextStation = s.nextStation
      /\ n \in DOMAIN s.active /\ u.active = RemoveAt(s.active, n)
  BY <1>2, <1>4, Zenon DEF RemovedFrom
<1>7. /\ SameLog(t, v) /\ v.fleet = t.fleet /\ v.speed = t.speed
      /\ v.reserved = t.reserved /\ v.nextStation = t.nextStation
      /\ n \in DOMAIN t.active /\ v.active = RemoveAt(t.active, n)
  BY <1>3, <1>5, Zenon DEF RemovedFrom
<1>8. s.active \in Seq(Stations) /\ t.active \in Seq(Stations)
  BY <1>1 DEF States
<1>9. /\ DOMAIN t.active = DOMAIN s.active
      /\ \A i \in DOMAIN s.active : Overhears(s.active[i], t.active[i])
  BY <1>1 DEF OverhearsAll
<1>10. Len(t.active) = Len(s.active)
  BY <1>8, <1>9
<1>11. Closed(Stations, s.active, n, u.active)
  BY <1>6, <1>8, RemoveAtElements
<1>12. Closed(Stations, t.active, n, v.active)
  BY <1>7, <1>8, RemoveAtElements
<1>13. OverhearsAll(u, v)
  <2>1. DOMAIN u.active = 1 .. Len(u.active) /\ DOMAIN v.active = DOMAIN u.active
    BY <1>10, <1>11, <1>12 DEF Closed
  <2>2. ASSUME NEW i \in DOMAIN u.active
        PROVE  Overhears(u.active[i], v.active[i])
    <3>1. PICK j : j = IF i < n THEN i ELSE i + 1
      OBVIOUS
    <3>2. i \in 1 .. Len(s.active) - 1 /\ Len(s.active) \in Nat
      BY <1>8, <1>11, <2>1 DEF Closed
    <3>3. j \in DOMAIN s.active
      BY <1>8, <3>1, <3>2
    <3>4. u.active[i] = s.active[j] /\ v.active[i] = t.active[j]
      BY <1>11, <1>12, <2>1, <3>1 DEF Closed
    <3>5. QED
      BY <1>9, <3>3, <3>4
  <2>3. QED
    BY <2>1, <2>2 DEF OverhearsAll
<1>14. QED
  BY <1>6, <1>7, <1>13, RegistryKeepsTwins

-------------------------------------------------------------------------------
(***************************************************************************)
(* The quiet and the lossless engine.                                      *)
(***************************************************************************)

\* The quiet engine is the reference engine without its stations, and the
\* lossless one the same with the stations that lose nothing.
Listeners ==
    /\ Regular(whole)
    /\ Twin(whole, quiet, "none")
    /\ Twin(whole, lossless, "lossless")

\* planAdvance and planElapse: the same clock makes the same plan.
LEMMA SamePlans ==
    ASSUME NEW s, NEW t, SameClock(s, t), NEW d
    PROVE  PlanAdvance(t, d) = PlanAdvance(s, d) /\ PlanElapse(t, d) = PlanElapse(s, d)
<1>1. t.elapsed = s.elapsed /\ t.carry = s.carry /\ t.speed = s.speed
  BY DEF SameClock
<1>2. PlanAdvance(t, d) = PlanAdvance(s, d)
  BY <1>1, Zenon DEF PlanAdvance, Clock
<1>3. PlanElapse(t, d) = PlanElapse(s, d)
  BY <1>1, Zenon DEF PlanElapse, Clock, Earned
<1>4. QED
  BY <1>2, <1>3

\* An engine without stations, and one with none yet.
LEMMA EmptyTwins ==
    ASSUME NEW speed \in Speeds, NEW how
    PROVE  Twin(Empty(speed), Empty(speed), how)
<1>1. PICK s : s = Empty(speed)
  OBVIOUS
<1>2. s \in States
  BY <1>1, EmptyIsRegular, RegularIsPrepared
<1>3. s.active = <<>>
  BY <1>1 DEF Empty
<1>4. DOMAIN <<>> = {}
  OBVIOUS
<1>5. OverhearsAll(s, s)
  BY <1>3, <1>4 DEF OverhearsAll
<1>6. Twin(s, s, how)
  BY <1>2, <1>5 DEF Twin, InStep, SameSky, SameClock
<1>7. QED
  BY <1>1, <1>6

\* Every command keeps the three engines together.
LEMMA ListenersStay ==
    ASSUME FractionsAreNatural
    PROVE  Listeners /\ [TwinsNext]_twins => Listeners'
<1> SUFFICES ASSUME Listeners, [TwinsNext]_twins PROVE Listeners'
  OBVIOUS
<1> DEFINE u == whole'
           q == quiet'
           l == lossless'
           Goal == Twin(u, q, "none") /\ Twin(u, l, "lossless")
<1>1. Regular(whole) /\ Twin(whole, quiet, "none") /\ Twin(whole, lossless, "lossless")
  BY DEF Listeners
<1>2. Prepared(whole) /\ whole \in States /\ whole.elapsed \in Nat
  BY <1>1, RegularIsPrepared DEF States
<1>3. Regular(whole)'
  BY <1>1, WholeStaysRegular
<1>4. SUFFICES Goal
  BY <1>3 DEF Listeners
<1>5. SameClock(whole, quiet) /\ SameClock(whole, lossless)
  BY <1>1 DEF Twin
<1>6. CASE u = whole /\ q = quiet /\ l = lossless
  BY <1>1, <1>6
<1>7. ASSUME NEW clock \in [elapsed : Nat, carry : 0 .. 99], clock.elapsed <= MaxElapsed,
             u = RunTo(whole, clock), q = RunTo(quiet, clock), l = RunTo(lossless, clock)
      PROVE  Goal
  <2>1. clock.elapsed <= MaxDuration
    BY <1>7, EngineLimits
  <2>2. Twin(RunTo(whole, clock), RunTo(quiet, clock), "none")
    <3>1. "none" = "lossless" => FractionsAreNatural
      OBVIOUS
    <3>2. QED
      BY <1>1, <1>2, <2>1, <3>1, RunKeepsTwins
  <2>3. Twin(RunTo(whole, clock), RunTo(lossless, clock), "lossless")
    BY <1>1, <1>2, <2>1, RunKeepsTwins
  <2>4. QED
    BY <1>7, <2>2, <2>3
<1>8. ASSUME NEW d \in Durations, Advance(d) PROVE Goal
  <2>1. PICK clock : clock = PlanAdvance(whole, d)
    OBVIOUS
  <2>2. d \in Nat /\ CanAdvance(whole, d)
    BY <1>8, EngineInputs DEF Advance
  <2>3. clock \in [elapsed : Nat, carry : 0 .. 99]
    BY <1>2, <2>1, <2>2, PlanFacts
  <2>4. clock.elapsed <= MaxElapsed
    BY <1>1, <2>1, <2>2, PlansAreInTime
  <2>5. PlanAdvance(quiet, d) = clock /\ PlanAdvance(lossless, d) = clock
    BY <1>5, <2>1, SamePlans
  <2>6. u = RunTo(whole, clock) /\ q = RunTo(quiet, clock) /\ l = RunTo(lossless, clock)
    BY <1>8, <2>1, <2>5 DEF Advance
  <2> HIDE DEF Goal, u, q, l
  <2>7. QED
    BY <1>7, <2>3, <2>4, <2>6
<1>9. ASSUME NEW real \in RealDurations, Elapse(real) PROVE Goal
  <2>1. PICK clock : clock = PlanElapse(whole, real)
    OBVIOUS
  <2>2. real \in Nat /\ CanElapse(whole, real)
    BY <1>9, EngineInputs DEF Elapse
  <2>3. clock \in [elapsed : Nat, carry : 0 .. 99]
    BY <1>2, <2>1, <2>2, PlanFacts
  <2>4. clock.elapsed <= MaxElapsed
    BY <1>1, <2>1, <2>2, PlansAreInTime
  <2>5. PlanElapse(quiet, real) = clock /\ PlanElapse(lossless, real) = clock
    BY <1>5, <2>1, SamePlans
  <2>6. u = RunTo(whole, clock) /\ q = RunTo(quiet, clock) /\ l = RunTo(lossless, clock)
    BY <1>9, <2>1, <2>5 DEF Elapse
  <2> HIDE DEF Goal, u, q, l
  <2>7. QED
    BY <1>7, <2>3, <2>4, <2>6
<1>10. ASSUME NEW n \in 0 .. MaxAircraft, SetCounts(n) PROVE Goal
  <2>1. /\ whole.nextAddress + (n - Len(whole.fleet)) <= MaxAddress + 1
        /\ u = Resize(whole, n) /\ q = Resize(quiet, n) /\ l = Resize(lossless, n)
    BY <1>10 DEF SetCounts, Command
  <2> HIDE DEF u, q, l
  <2>2. Twin(Resize(whole, n), Resize(quiet, n), "none")
    <3>1. "none" = "lossless" => FractionsAreNatural
      OBVIOUS
    <3>2. QED
      BY <1>1, <2>1, <3>1, ResizeKeepsTwins
  <2>3. Twin(Resize(whole, n), Resize(lossless, n), "lossless")
    BY <1>1, <2>1, ResizeKeepsTwins
  <2>4. QED
    BY <2>1, <2>2, <2>3
<1>11. ASSUME NEW v \in Speeds, SetSpeeds(v) PROVE Goal
  <2>1. /\ u = [whole EXCEPT !.speed = v] /\ q = [quiet EXCEPT !.speed = v]
        /\ l = [lossless EXCEPT !.speed = v] /\ v \in Nat
    BY <1>11, EngineInputs DEF SetSpeeds, Command
  <2> HIDE DEF u, q, l
  <2>2. Twin([whole EXCEPT !.speed = v], [quiet EXCEPT !.speed = v], "none")
    BY <1>1, <1>2, <2>1, SpeedKeepsTwins
  <2>3. Twin([whole EXCEPT !.speed = v], [lossless EXCEPT !.speed = v], "lossless")
    BY <1>1, <1>2, <2>1, SpeedKeepsTwins
  <2>4. QED
    BY <2>1, <2>2, <2>3
<1>12. ASSUME SameLog(whole, u), u.fleet = whole.fleet, u.speed = whole.speed, q = quiet
       PROVE  Twin(u, q, "none")
  <2> HIDE DEF u
  <2>1. QED
    BY <1>1, <1>12, StationsKeepQuiet
<1>13. ASSUME NEW id \in StationIds, NEW cfg \in Configs, AddStations(id, cfg) PROVE Goal
  <2>1. /\ u = StationAdded(whole, id, cfg) /\ l = StationAdded(lossless, id, Lossless(cfg))
        /\ q = quiet /\ cfg \in Settings
    BY <1>13, EngineInputs DEF AddStations, Command
  <2> HIDE DEF u, l, q
  <2>2. AddedTo(whole, id, cfg, u)
    BY <1>2, <2>1, AddedEffect
  <2>3. Twin(u, q, "none")
    BY <1>12, <2>1, <2>2 DEF AddedTo
  <2>4. Twin(u, l, "lossless")
    BY <1>1, <1>2, <2>1, AddedKeepsTwins
  <2>5. QED
    BY <2>3, <2>4
<1>14. ASSUME NEW id \in StationIds, NEW rev \in 1 .. MaxRevision, NEW cfg \in Configs,
              UpdateStations(id, rev, cfg)
       PROVE  Goal
  <2>1. /\ u = StationUpdated(whole, id, cfg) /\ l = StationUpdated(lossless, id, Lossless(cfg))
        /\ q = quiet /\ cfg \in Settings /\ id \in ActiveIds(whole)
    BY <1>14, EngineInputs DEF UpdateStations, RevisionMatches, Command
  <2> HIDE DEF u, l, q
  <2>2. UpdatedIn(whole, id, cfg, u)
    BY <1>2, <2>1, UpdatedEffect
  <2>3. Twin(u, q, "none")
    BY <1>12, <2>1, <2>2 DEF UpdatedIn
  <2>4. Twin(u, l, "lossless")
    BY <1>1, <1>2, <2>1, UpdatedKeepsTwins
  <2>5. QED
    BY <2>3, <2>4
<1>15. ASSUME NEW id \in StationIds, NEW rev \in 1 .. MaxRevision, RemoveStations(id, rev)
       PROVE  Goal
  <2>1. /\ u = StationRemoved(whole, id) /\ l = StationRemoved(lossless, id)
        /\ q = quiet /\ id \in ActiveIds(whole)
    BY <1>15 DEF RemoveStations, RevisionMatches, Command
  <2> HIDE DEF u, l, q
  <2>2. RemovedFrom(whole, id, u)
    BY <1>2, <2>1, RemovedEffect
  <2>3. Twin(u, q, "none")
    BY <1>12, <2>1, <2>2 DEF RemovedFrom
  <2>4. Twin(u, l, "lossless")
    BY <1>1, <1>2, <2>1, RemovedKeepsTwins
  <2>5. QED
    BY <2>3, <2>4
<1>16. ASSUME NEW d, AdvancePiece(d) PROVE Goal
  BY <1>6, <1>16 DEF AdvancePiece
<1>17. ASSUME NEW real, ElapsePiece(real) PROVE Goal
  BY <1>6, <1>17 DEF ElapsePiece
<1>18. CASE UNCHANGED twins
  BY <1>6, <1>18 DEF twins
<1> HIDE DEF Goal
<1>19. QED
  BY <1>8, <1>9, <1>10, <1>11, <1>13, <1>14, <1>15, <1>16, <1>17, <1>18 DEF TwinsNext

\* An engine is its sky, its clock and its registry.
LEMMA StateIsWhole ==
    ASSUME NEW s \in States, NEW t \in States, SameSky(s, t), SameClock(s, t)
    PROVE  [t EXCEPT !.active = s.active, !.reserved = s.reserved,
                     !.nextStation = s.nextStation] = s
BY DEF States, SameSky, SameClock

\* deliver and the station commands: stations only listen, and whatever a station
\* loses it draws for every transmission it hears and receives a part of what it
\* would receive without a loss.
THEOREM StreamsAlwaysIndependent ==
    ASSUME FractionsAreNatural
    PROVE  TwinsSpec => []StreamsAreIndependent
<1>1. TwinsInit => Listeners
  <2> SUFFICES ASSUME TwinsInit PROVE Listeners
    OBVIOUS
  <2>1. PICK speed \in Speeds :
           whole = Empty(speed) /\ quiet = Empty(speed) /\ lossless = Empty(speed)
    BY DEF TwinsInit
  <2>2. Regular(whole)
    BY <2>1, EmptyIsRegular
  <2>3. Twin(whole, quiet, "none") /\ Twin(whole, lossless, "lossless")
    BY <2>1, EmptyTwins
  <2>4. QED
    BY <2>2, <2>3 DEF Listeners
<1>2. Listeners /\ [TwinsNext]_twins => Listeners'
  BY ListenersStay
<1>3. Listeners => StreamsAreIndependent
  <2> SUFFICES ASSUME Listeners PROVE StreamsAreIndependent
    OBVIOUS
  <2>1. whole \in States /\ Twin(whole, quiet, "none") /\ Twin(whole, lossless, "lossless")
    BY RegularIsPrepared DEF Listeners
  <2>2. StationsOnlyListen
    <3>1. quiet \in States /\ SameSky(whole, quiet) /\ SameClock(whole, quiet)
      BY <2>1 DEF Twin, InStep
    <3>2. QED
      BY <2>1, <3>1, StateIsWhole, Zenon DEF StationsOnlyListen
  <2>3. LossNeverShiftsTheStream
    <3>1. lossless \in States /\ OverhearsAll(whole, lossless)
      BY <2>1 DEF Twin, InStep
    <3>2. whole.active \in Seq(Stations) /\ lossless.active \in Seq(Stations)
      BY <2>1, <3>1 DEF States
    <3>3. Len(lossless.active) = Len(whole.active)
      BY <3>1, <3>2 DEF OverhearsAll
    <3>4. \A n \in DOMAIN whole.active : Overhears(whole.active[n], lossless.active[n])
      BY <3>1 DEF OverhearsAll
    <3>5. QED
      BY <3>3, <3>4 DEF LossNeverShiftsTheStream, Overhears
  <2>4. QED
    BY <2>2, <2>3 DEF StreamsAreIndependent
<1>4. QED
  BY <1>1, <1>2, <1>3, PTL DEF TwinsSpec

-------------------------------------------------------------------------------
(***************************************************************************)
(* The split engine.                                                       *)
(***************************************************************************)

\* nextEvent: a later limit has the same next event while one is due before.
LEMMA NextIsTheSame ==
    ASSUME NEW s \in States, NEW first \in Nat, NEW limit \in Nat, first <= limit,
           Due(s, first) # {}
    PROVE  Due(s, limit) # {} /\ NextEvent(s, limit) = NextEvent(s, first)
<1> DEFINE e == NextEvent(s, first)
<1>1. e \in Due(s, first) /\ IsNext(s, first, e)
  BY NextIsDue
<1> HIDE DEF e
<1>2. s.fleet[e[1]].due[e[2]] \in Nat /\ s.fleet[e[1]].due[e[2]] <= first
  BY <1>1, DueFacts
<1>3. e \in Due(s, limit)
  BY <1>1, <1>2 DEF Due
<1>4. ASSUME NEW f \in Due(s, limit), f # e
      PROVE  Precedes(s, e, f)
  <2>1. CASE f \in Due(s, first)
    BY <1>1, <1>4, <2>1 DEF IsNext
  <2>2. CASE f \notin Due(s, first)
    <3>1. s.fleet[f[1]].due[f[2]] \in Nat
      BY DueFacts
    <3>2. ~(s.fleet[f[1]].due[f[2]] <= first)
      BY <2>2 DEF Due
    <3>3. s.fleet[e[1]].due[e[2]] < s.fleet[f[1]].due[f[2]]
      BY <1>2, <3>1, <3>2
    <3>4. QED
      BY <3>3 DEF Precedes
  <2>3. QED
    BY <2>1, <2>2
<1>5. IsNext(s, limit, e)
  BY <1>4 DEF IsNext
<1>6. NextEvent(s, limit) = e
  BY <1>3, <1>5, OneNextEvent
<1>7. QED
  BY <1>3, <1>6 DEF e

\* runTo: a run to an earlier limit is the beginning of a run to a later one.
LEMMA RunIsABeginning ==
    ASSUME NEW s, Prepared(s), NEW first \in Nat, NEW limit \in Nat, first <= limit,
           limit <= MaxDuration, NEW n \in Nat,
           \A m \in Nat : m < n => Due(Emissions(s, first)[m], first) # {}
    PROVE  Emissions(s, first)[n] = Emissions(s, limit)[n]
<1> DEFINE e == Emissions(s, limit)
           f == Emissions(s, first)
           S == {m \in Nat : m <= n => f[m] = e[m]}
<1>1. e[0] = s /\ \A m \in Nat : e[m + 1] = Iterate(e[m], limit)
  BY EmissionsIterate
<1>2. f[0] = s /\ \A m \in Nat : f[m + 1] = Iterate(f[m], first)
  BY EmissionsIterate
<1>3. \A m \in Nat : Prepared(e[m])
  BY EmissionsGoOn
<1>4. \A m \in Nat : m < n => Due(f[m], first) # {}
  OBVIOUS
<1> HIDE DEF e, f
<1>5. 0 \in S
  BY <1>1, <1>2
<1>6. ASSUME NEW m \in Nat, m \in S
      PROVE  m + 1 \in S
  <2>1. SUFFICES ASSUME m + 1 <= n PROVE f[m + 1] = e[m + 1]
    OBVIOUS
  <2>2. f[m] = e[m] /\ m < n
    BY <1>6, <2>1
  <2>3. Due(e[m], first) # {} /\ e[m] \in States
    BY <1>3, <1>4, <2>2 DEF Prepared
  <2>4. Due(e[m], limit) # {} /\ NextEvent(e[m], limit) = NextEvent(e[m], first)
    BY <2>3, NextIsTheSame
  <2>5. QED
    BY <1>1, <1>2, <2>2, <2>3, <2>4 DEF Iterate
<1> HIDE DEF S
<1>7. Nat \subseteq S
  BY <1>5, <1>6, EveryNumber
<1>8. n \in S
  BY <1>7
<1>9. QED
  BY <1>8 DEF S, e, f

\* runTo: where a run within its bounds is interrupted, it is taken up again.
LEMMA DrainAgain ==
    ASSUME NEW s, Prepared(s), NEW first \in Nat, NEW limit \in Nat, first <= limit,
           limit <= MaxDuration, Drain(s, limit).lastSequence - s.lastSequence <= MaxBatchFrames
    PROVE  Drain(Drain(s, first), limit) = Drain(s, limit)
<1> DEFINE e == Emissions(s, limit)
           f == Emissions(s, first)
           all == MaxBatchFrames
           S == {n \in Nat : Due(f[n], first) = {}}
<1>1. all \in Nat /\ s.lastSequence \in Nat /\ first <= MaxDuration
  BY EngineLimits DEF Prepared, States
<1>2. Drain(s, limit) = e[all + 1] /\ Drain(s, first) = f[all + 1]
  BY DEF Drain
<1>3. Due(e[all], limit) = {}
  BY BoundedRunSettles
<1>4. Due(f[all], first) = {}
  <2>1. SUFFICES ASSUME Due(f[all], first) # {} PROVE FALSE
    OBVIOUS
  <2>2. ASSUME NEW m \in Nat, m < all + 1
        PROVE  Due(f[m], first) # {}
    <3>1. m <= all
      BY <1>1, <2>2
    <3>2. QED
      BY <1>1, <2>1, <3>1, NothingLeft
  <2>3. f[all + 1] = e[all + 1]
    BY <1>1, <2>2, RunIsABeginning
  <2>4. f[all + 1].lastSequence = s.lastSequence + all + 1
    BY <1>1, <2>1, EmissionsCount
  <2>5. e[all + 1].lastSequence - s.lastSequence <= all
    BY <1>2
  <2> HIDE DEF e, f, all
  <2>6. PICK x : x = f[all + 1].lastSequence
    OBVIOUS
  <2>7. x = s.lastSequence + all + 1 /\ x - s.lastSequence <= all
    BY <2>3, <2>4, <2>5, <2>6
  <2>8. QED
    BY <1>1, <2>7
<1>5. PICK n \in S : \A m \in S : n <= m
  <2>1. all \in S /\ S \subseteq Nat
    BY <1>1, <1>4
  <2> HIDE DEF S
  <2>2. QED
    BY <2>1, LeastNumber
<1>6. n \in Nat /\ n <= all /\ Due(f[n], first) = {}
  BY <1>1, <1>4, <1>5
<1>7. f[n] = e[n]
  <2>1. ASSUME NEW m \in Nat, m < n
        PROVE  Due(f[m], first) # {}
    <3>1. SUFFICES ASSUME Due(f[m], first) = {} PROVE FALSE
      OBVIOUS
    <3>2. m \in S
      BY <3>1
    <3>3. n <= m
      BY <1>5, <3>2
    <3>4. QED
      BY <1>6, <2>1, <3>3
  <2>2. QED
    BY <1>6, <2>1, RunIsABeginning
<1>8. f[all + 1] = e[n]
  <2>1. n <= all + 1 /\ all + 1 \in Nat
    BY <1>1, <1>6
  <2>2. f[all + 1] = f[n]
    BY <1>6, <2>1, NothingLeft
  <2>3. QED
    BY <1>7, <2>2
<1>9. Drain(e[n], limit) = e[n + (all + 1)]
  <2>1. all + 1 \in Nat
    BY <1>1
  <2>2. n \in Nat
    BY <1>6
  <2>3. \A m \in Nat : Emissions(e[n], limit)[m] = e[n + m]
    BY <2>2, EmissionsShift
  <2> HIDE DEF e
  <2>4. QED
    BY <2>1, <2>3 DEF Drain
<1>10. e[n + (all + 1)] = e[all] /\ e[all + 1] = e[all]
  <2>1. n + (all + 1) \in Nat /\ all <= n + (all + 1) /\ all + 1 \in Nat /\ all <= all + 1
    BY <1>1, <1>6
  <2>2. QED
    BY <1>1, <1>3, <2>1, NothingLeft
<1>11. QED
  BY <1>2, <1>8, <1>9, <1>10

\* Two engines with one sky, one clock and one registry are one engine.
LEMMA SameIsEqual ==
    ASSUME NEW s \in States, NEW t \in States, InStep(s, t, "same"), SameClock(s, t),
           t.reserved = s.reserved, t.nextStation = s.nextStation
    PROVE  t = s
<1>1. SameSky(s, t) /\ t.active = s.active
  BY DEF InStep
<1>2. QED
  BY <1>1 DEF States, SameSky, SameClock

\* runTo's first half leaves the second to do, and both keep to the bounds of the
\* whole.
LEMMA RunAgain ==
    ASSUME NEW s, Regular(s), NEW clock \in [elapsed : Nat, carry : 0 .. 99],
           NEW later \in [elapsed : Nat, carry : 0 .. 99],
           s.elapsed <= clock.elapsed, clock.elapsed <= later.elapsed,
           later.elapsed <= MaxElapsed, Emittable(s, RunTo(s, later)),
           NEW t, t = RunTo(s, clock)
    PROVE  /\ Regular(t)
           /\ t.elapsed = clock.elapsed /\ t.carry = clock.carry /\ t.speed = s.speed
           /\ RunTo(t, later) = RunTo(s, later)
           /\ Emittable(t, RunTo(s, later))
<1>1. PICK now : now = clock.elapsed
  OBVIOUS
<1>2. PICK rest : rest = clock.carry
  OBVIOUS
<1>3. PICK until : until = later.elapsed
  OBVIOUS
<1>4. PICK left : left = later.carry
  OBVIOUS
<1>5. /\ now \in Nat /\ until \in Nat /\ rest \in 0 .. 99 /\ left \in 0 .. 99
      /\ now <= until /\ until <= MaxDuration /\ now <= MaxDuration
      /\ MaxBatchFrames + 1 \in Nat /\ MaxBatchFrames \in Nat
  BY <1>1, <1>2, <1>3, <1>4, EngineLimits
<1>6. Prepared(s) /\ s \in States /\ s.lastSequence \in Nat
  BY RegularIsPrepared DEF States
<1>7. PICK a : a = Drain(s, now)
  OBVIOUS
<1>8. PICK b : b = Drain(s, until)
  OBVIOUS
<1>9. PICK w : w = RunTo(s, later)
  OBVIOUS
<1>10. Prepared(a) /\ Onward(s, a) /\ a \in States
  BY <1>5, <1>6, <1>7, EmissionsGoOn DEF Drain, Prepared
<1>11. Prepared(b) /\ Onward(s, b) /\ b \in States
  BY <1>5, <1>6, <1>8, EmissionsGoOn DEF Drain, Prepared
<1>12. Arrived(a, now, rest, t)
  <2>1. t = [a EXCEPT !.elapsed = now, !.carry = rest]
    BY <1>1, <1>2, <1>7 DEF RunTo
  <2>2. QED
    BY <1>5, <1>10, <2>1, ArriveEffect, Zenon
<1>13. Arrived(b, until, left, w)
  <2>1. w = [b EXCEPT !.elapsed = until, !.carry = left]
    BY <1>3, <1>4, <1>8, <1>9 DEF RunTo
  <2>2. QED
    BY <1>5, <1>11, <2>1, ArriveEffect, Zenon
<1>14. /\ b.lastSequence - s.lastSequence <= MaxBatchFrames
       /\ \A i \in DOMAIN b.fleet : CanReschedule(b.fleet[i])
       /\ Emittable(s, w)
  BY <1>9, <1>13 DEF Arrived, Emittable
<1>15. Drain(a, until) = b
  BY <1>5, <1>6, <1>7, <1>8, <1>14, DrainAgain
<1>16. Onward(a, b)
  BY <1>5, <1>10, <1>15, EmissionsGoOn DEF Drain
<1>17. t \in States /\ Prepared(t) /\ InStep(a, t, "same")
       /\ t.elapsed = now /\ t.carry = rest /\ t.speed = s.speed
       /\ t.reserved = s.reserved /\ t.nextStation = s.nextStation
       /\ t.lastSequence = a.lastSequence
  BY <1>10, <1>12 DEF Arrived, SameRegistry, InStep, SameSky, Prepared, Onward
<1>18. Drain(t, until).active = b.active /\ InStep(b, Drain(t, until), "same")
  <2>1. "same" = "lossless" => FractionsAreNatural
    OBVIOUS
  <2>2. InStep(Drain(a, until), Drain(t, until), "same")
    BY <1>5, <1>10, <1>17, <2>1, DrainInStep
  <2>3. QED
    BY <1>15, <2>2 DEF InStep
<1>19. PICK c : c = Drain(t, until)
  OBVIOUS
<1>20. Prepared(c) /\ Onward(t, c) /\ c \in States
  BY <1>5, <1>17, <1>19, EmissionsGoOn DEF Drain, Prepared
<1>21. PICK v : v = RunTo(t, later)
  OBVIOUS
<1>22. Arrived(c, until, left, v)
  <2>1. v = [c EXCEPT !.elapsed = until, !.carry = left]
    BY <1>3, <1>4, <1>19, <1>21 DEF RunTo
  <2>2. QED
    BY <1>5, <1>20, <2>1, ArriveEffect, Zenon
<1>23. v = w
  <2>1. v \in States /\ w \in States
    BY <1>13, <1>22 DEF Arrived
  <2>2. SameClock(w, v)
    BY <1>11, <1>13, <1>17, <1>20, <1>22 DEF Arrived, SameClock, Onward
  <2>3. v.reserved = w.reserved /\ v.nextStation = w.nextStation
    BY <1>11, <1>13, <1>17, <1>20, <1>22 DEF Arrived, SameRegistry, Onward
  <2>4. InStep(w, v, "same")
    BY <1>13, <1>18, <1>19, <1>22 DEF Arrived, SameRegistry, InStep, SameSky
  <2>5. QED
    BY <2>1, <2>2, <2>3, <2>4, SameIsEqual
<1>24. Emittable(t, w)
  <2>1. t.lastSequence \in Nat /\ t.lastSequence >= s.lastSequence /\ w.lastSequence \in Nat
    BY <1>10, <1>13, <1>17 DEF Onward, Arrived, States
  <2>2. w.lastSequence - s.lastSequence <= MaxBatchFrames
    BY <1>14 DEF Emittable
  <2>3. w.lastSequence - t.lastSequence <= MaxBatchFrames
    BY <1>5, <1>6, <2>1, <2>2
  <2>4. QED
    BY <1>14, <2>3 DEF Emittable
<1>25. Emittable(s, t)
  <2>1. t.lastSequence \in Nat /\ w.lastSequence \in Nat /\ t.lastSequence <= w.lastSequence
    BY <1>13, <1>16, <1>17 DEF Onward, Arrived, States
  <2>2. w.lastSequence - s.lastSequence <= MaxBatchFrames
    BY <1>14 DEF Emittable
  <2>3. t.lastSequence - s.lastSequence <= MaxBatchFrames
    BY <1>5, <1>6, <2>1, <2>2
  <2>4. ASSUME NEW i \in DOMAIN t.fleet
        PROVE  CanReschedule(t.fleet[i])
    <3>1. t.fleet = a.fleet /\ a.fleet \in Seq(Aircraft) /\ b.fleet \in Seq(Aircraft)
      BY <1>10, <1>11, <1>12 DEF Arrived, States
    <3>2. i \in DOMAIN b.fleet /\ \A k \in DOMAIN Families : b.fleet[i].due[k] >= a.fleet[i].due[k]
      BY <1>16, <3>1 DEF Onward
    <3>3. a.fleet[i] \in Aircraft /\ b.fleet[i] \in Aircraft
      BY <3>1, <3>2
    <3>4. \A k \in DOMAIN Families : a.fleet[i].due[k] \in Nat /\ b.fleet[i].due[k] \in Nat
      BY <3>3 DEF Aircraft
    <3>5. \A k \in DOMAIN Families : b.fleet[i].due[k] <= MaxDuration
      BY <1>14, <3>2 DEF CanReschedule
    <3>6. \A k \in DOMAIN Families : a.fleet[i].due[k] <= MaxDuration
      BY <3>2, <3>4, <3>5, EngineLimits
    <3>7. QED
      BY <3>1, <3>6 DEF CanReschedule
  <2>5. QED
    BY <2>3, <2>4 DEF Emittable
<1>26. Regular(t)
  <2>1. s.elapsed <= clock.elapsed /\ clock.elapsed <= MaxElapsed
    BY <1>1, <1>3, <1>5, EngineLimits
  <2>2. QED
    BY <1>25, <2>1, RunIsRegular
<1>27. QED
  BY <1>1, <1>2, <1>9, <1>17, <1>21, <1>23, <1>24, <1>26

\* What the split engine still has to receive takes it to where the reference
\* engine is.
Behind ==
    /\ Regular(whole)
    /\ Regular(split)
    /\ owed \in Nat /\ owedReal \in Nat
    /\ Settled => split = whole
    /\ owed > 0 => /\ owedReal = 0
                   /\ PlanAdvance(split, owed).elapsed <= MaxElapsed
                   /\ whole = RunTo(split, PlanAdvance(split, owed))
                   /\ Emittable(split, whole)
    /\ owedReal > 0 => /\ owed = 0
                       /\ PlanElapse(split, owedReal).elapsed <= MaxElapsed
                       /\ whole = RunTo(split, PlanElapse(split, owedReal))
                       /\ Emittable(split, whole)

\* planElapse: the carry loses nothing between two pieces.
LEMMA CarryIsKept ==
    ASSUME NEW p \in Nat, NEW q \in Nat
    PROVE  /\ (p + q) \div 100 = p \div 100 + (q + (p % 100)) \div 100
           /\ (p + q) % 100 = (q + (p % 100)) % 100
           /\ p \div 100 <= (p + q) \div 100
OBVIOUS

\* planAdvance and planElapse: two pieces are planned as the whole is.
LEMMA PlansCompose ==
    ASSUME NEW s \in States, NEW t \in States, NEW d \in Nat, NEW all \in Nat, d <= all,
           t.speed = s.speed
    PROVE  /\ t.elapsed = PlanAdvance(s, d).elapsed /\ t.carry = PlanAdvance(s, d).carry =>
                 PlanAdvance(t, all - d) = PlanAdvance(s, all)
           /\ t.elapsed = PlanElapse(s, d).elapsed /\ t.carry = PlanElapse(s, d).carry =>
                 PlanElapse(t, all - d) = PlanElapse(s, all)
           /\ PlanAdvance(s, d).elapsed <= PlanAdvance(s, all).elapsed
           /\ PlanElapse(s, d).elapsed <= PlanElapse(s, all).elapsed
<1>1. /\ s.elapsed \in Nat /\ s.carry \in 0 .. 99 /\ s.speed \in Nat
      /\ t.elapsed \in Nat /\ t.carry \in 0 .. 99 /\ all - d \in Nat
  BY DEF States
<1>2. t.elapsed = PlanAdvance(s, d).elapsed /\ t.carry = PlanAdvance(s, d).carry =>
         PlanAdvance(t, all - d) = PlanAdvance(s, all)
  <2>1. SUFFICES ASSUME t.elapsed = PlanAdvance(s, d).elapsed, t.carry = PlanAdvance(s, d).carry
                 PROVE  PlanAdvance(t, all - d) = PlanAdvance(s, all)
    OBVIOUS
  <2>2. t.elapsed = s.elapsed + d /\ t.carry = s.carry
    BY <2>1 DEF PlanAdvance, Clock
  <2>3. t.elapsed + (all - d) = s.elapsed + all
    BY <1>1, <2>2
  <2>4. QED
    BY <2>2, <2>3 DEF PlanAdvance
<1>3. PlanAdvance(s, d).elapsed <= PlanAdvance(s, all).elapsed
  BY <1>1 DEF PlanAdvance, Clock
<1>4. PICK v \in Nat : v = s.speed
  BY <1>1
<1>5. PICK p : p = d * v + s.carry
  OBVIOUS
<1>6. PICK q : q = (all - d) * v
  OBVIOUS
<1>7. d * v \in Nat /\ q \in Nat
  BY <1>1, <1>4, <1>6
<1>8. p \in Nat
  BY <1>1, <1>5, <1>7
<1>9. Earned(s, d) = p /\ Earned(t, all - d) = q + t.carry
  BY <1>4, <1>5, <1>6 DEF Earned
<1>10. Earned(s, all) = p + q
  <2>1. all * v = d * v + (all - d) * v
    <3>1. \A x, y, z \in Nat : (x + y) * z = x * z + y * z
      OBVIOUS
    <3>2. (d + (all - d)) * v = d * v + (all - d) * v
      BY <1>1, <1>4, <3>1
    <3>3. d + (all - d) = all
      OBVIOUS
    <3>4. QED
      BY <3>2, <3>3
  <2>2. PICK x : x = all * v
    OBVIOUS
  <2>3. PICK y : y = d * v
    OBVIOUS
  <2>4. x = y + q /\ p = y + s.carry /\ y \in Nat
    BY <1>5, <1>6, <1>7, <2>1, <2>2, <2>3
  <2>5. Earned(s, all) = x + s.carry
    BY <1>4, <2>2 DEF Earned
  <2>6. QED
    BY <1>1, <1>7, <2>4, <2>5
<1>11. /\ (p + q) \div 100 = p \div 100 + (q + (p % 100)) \div 100
       /\ (p + q) % 100 = (q + (p % 100)) % 100
       /\ p \div 100 <= (p + q) \div 100
  BY <1>7, <1>8, CarryIsKept
<1>12. p \div 100 \in Nat /\ p % 100 \in 0 .. 99 /\ (p + q) \div 100 \in Nat
       /\ (q + (p % 100)) \div 100 \in Nat
  BY <1>7, <1>8
<1>13. t.elapsed = PlanElapse(s, d).elapsed /\ t.carry = PlanElapse(s, d).carry =>
          PlanElapse(t, all - d) = PlanElapse(s, all)
  <2>1. SUFFICES ASSUME t.elapsed = PlanElapse(s, d).elapsed, t.carry = PlanElapse(s, d).carry
                 PROVE  PlanElapse(t, all - d) = PlanElapse(s, all)
    OBVIOUS
  <2>2. CASE s.speed = 0
    BY <2>1, <2>2 DEF PlanElapse, Clock
  <2>3. CASE s.speed # 0
    <3>1. t.elapsed = s.elapsed + p \div 100 /\ t.carry = p % 100
      BY <1>9, <2>1, <2>3 DEF PlanElapse, Clock
    <3>2. PlanElapse(t, all - d)
             = Clock(t.elapsed + (q + t.carry) \div 100, (q + t.carry) % 100)
      BY <1>9, <2>3 DEF PlanElapse
    <3>3. PlanElapse(s, all) = Clock(s.elapsed + (p + q) \div 100, (p + q) % 100)
      BY <1>10, <2>3 DEF PlanElapse
    <3>4. \A a, b, c, e \in Nat : c = a + b => e + c = (e + a) + b
      OBVIOUS
    <3>5. s.elapsed + (p + q) \div 100 = t.elapsed + (q + t.carry) \div 100
      BY <1>1, <1>11, <1>12, <3>1, <3>4
    <3>6. QED
      BY <1>11, <3>1, <3>2, <3>3, <3>5
  <2>4. QED
    BY <2>2, <2>3
<1>14. PlanElapse(s, d).elapsed <= PlanElapse(s, all).elapsed
  <2>1. CASE s.speed = 0
    BY <1>1, <2>1 DEF PlanElapse, Clock
  <2>2. CASE s.speed # 0
    <3>1. PlanElapse(s, d).elapsed = s.elapsed + p \div 100
          /\ PlanElapse(s, all).elapsed = s.elapsed + (p + q) \div 100
      BY <1>9, <1>10, <2>2 DEF PlanElapse, Clock
    <3>2. QED
      BY <1>1, <1>11, <1>12, <3>1
  <2>3. QED
    BY <2>1, <2>2
<1>15. QED
  BY <1>2, <1>3, <1>13, <1>14

\* Advance and Elapse of the reference engine.
LEMMA FallsBehind ==
    ASSUME Behind, Settled, NEW t, NEW d \in Nat \ {0}
    PROVE  /\ CanAdvance(whole, d) /\ t = RunTo(whole, PlanAdvance(whole, d)) /\ Emittable(whole, t) =>
                 /\ PlanAdvance(split, d).elapsed <= MaxElapsed
                 /\ t = RunTo(split, PlanAdvance(split, d))
                 /\ Emittable(split, t)
           /\ CanElapse(whole, d) /\ t = RunTo(whole, PlanElapse(whole, d)) /\ Emittable(whole, t) =>
                 /\ PlanElapse(split, d).elapsed <= MaxElapsed
                 /\ t = RunTo(split, PlanElapse(split, d))
                 /\ Emittable(split, t)
<1>1. split = whole /\ Regular(whole)
  BY DEF Behind
<1>2. CanAdvance(whole, d) => PlanAdvance(whole, d).elapsed <= MaxElapsed
  BY <1>1, PlansAreInTime
<1>3. CanElapse(whole, d) => PlanElapse(whole, d).elapsed <= MaxElapsed
  BY <1>1, PlansAreInTime
<1>4. QED
  BY <1>1, <1>2, <1>3

\* A piece of a duration.
LEMMA CatchesUp ==
    ASSUME Behind, owed > 0, NEW d \in 1 .. owed,
           NEW t, t = RunTo(split, PlanAdvance(split, d))
    PROVE  /\ Regular(t)
           /\ owed - d = 0 => t = whole
           /\ PlanAdvance(t, owed - d).elapsed <= MaxElapsed
           /\ whole = RunTo(t, PlanAdvance(t, owed - d))
           /\ Emittable(t, whole)
<1>1. /\ Regular(split) /\ owed \in Nat /\ d \in Nat /\ d <= owed
      /\ PlanAdvance(split, owed).elapsed <= MaxElapsed
      /\ whole = RunTo(split, PlanAdvance(split, owed))
      /\ Emittable(split, whole)
  BY DEF Behind
<1>2. split \in States /\ split.elapsed \in Nat
  BY <1>1, RegularIsPrepared DEF States
<1>3. PICK clock : clock = PlanAdvance(split, d)
  OBVIOUS
<1>4. PICK later : later = PlanAdvance(split, owed)
  OBVIOUS
<1>5. clock \in [elapsed : Nat, carry : 0 .. 99] /\ clock.elapsed >= split.elapsed
  BY <1>1, <1>2, <1>3, PlanFacts
<1>6. later \in [elapsed : Nat, carry : 0 .. 99]
  BY <1>1, <1>2, <1>4, PlanFacts
<1>7. clock.elapsed <= later.elapsed
  BY <1>1, <1>2, <1>3, <1>4, PlansCompose
<1>8. later.elapsed <= MaxElapsed /\ whole = RunTo(split, later) /\ t = RunTo(split, clock)
  BY <1>1, <1>3, <1>4
<1>9. split.elapsed <= clock.elapsed
  BY <1>2, <1>5
<1>10. /\ Regular(t)
       /\ t.elapsed = clock.elapsed /\ t.carry = clock.carry /\ t.speed = split.speed
       /\ RunTo(t, later) = whole
       /\ Emittable(t, whole)
  BY <1>1, <1>5, <1>6, <1>7, <1>8, <1>9, RunAgain
<1>11. t \in States
  BY <1>10, RegularIsPrepared
<1>12. PlanAdvance(t, owed - d) = later
  BY <1>1, <1>2, <1>3, <1>4, <1>10, <1>11, PlansCompose
<1>13. owed - d = 0 => t = whole
  <2>1. owed - d = 0 => clock = later
    <3>1. owed - d = 0 => d = owed
      BY <1>1
    <3>2. QED
      BY <1>3, <1>4, <3>1
  <2>2. QED
    BY <1>8, <2>1
<1>14. QED
  BY <1>8, <1>10, <1>12, <1>13

LEMMA CatchesUpReal ==
    ASSUME Behind, owedReal > 0, NEW d \in 1 .. owedReal,
           NEW t, t = RunTo(split, PlanElapse(split, d))
    PROVE  /\ Regular(t)
           /\ owedReal - d = 0 => t = whole
           /\ PlanElapse(t, owedReal - d).elapsed <= MaxElapsed
           /\ whole = RunTo(t, PlanElapse(t, owedReal - d))
           /\ Emittable(t, whole)
<1>1. /\ Regular(split) /\ owedReal \in Nat /\ d \in Nat /\ d <= owedReal
      /\ PlanElapse(split, owedReal).elapsed <= MaxElapsed
      /\ whole = RunTo(split, PlanElapse(split, owedReal))
      /\ Emittable(split, whole)
  BY DEF Behind
<1>2. split \in States /\ split.elapsed \in Nat
  BY <1>1, RegularIsPrepared DEF States
<1>3. PICK clock : clock = PlanElapse(split, d)
  OBVIOUS
<1>4. PICK later : later = PlanElapse(split, owedReal)
  OBVIOUS
<1>5. clock \in [elapsed : Nat, carry : 0 .. 99] /\ clock.elapsed >= split.elapsed
  BY <1>1, <1>2, <1>3, PlanFacts
<1>6. later \in [elapsed : Nat, carry : 0 .. 99]
  BY <1>1, <1>2, <1>4, PlanFacts
<1>7. clock.elapsed <= later.elapsed
  BY <1>1, <1>2, <1>3, <1>4, PlansCompose
<1>8. later.elapsed <= MaxElapsed /\ whole = RunTo(split, later) /\ t = RunTo(split, clock)
  BY <1>1, <1>3, <1>4
<1>9. split.elapsed <= clock.elapsed
  BY <1>2, <1>5
<1>10. /\ Regular(t)
       /\ t.elapsed = clock.elapsed /\ t.carry = clock.carry /\ t.speed = split.speed
       /\ RunTo(t, later) = whole
       /\ Emittable(t, whole)
  BY <1>1, <1>5, <1>6, <1>7, <1>8, <1>9, RunAgain
<1>11. t \in States
  BY <1>10, RegularIsPrepared
<1>12. PlanElapse(t, owedReal - d) = later
  BY <1>1, <1>2, <1>3, <1>4, <1>10, <1>11, PlansCompose
<1>13. owedReal - d = 0 => t = whole
  <2>1. owedReal - d = 0 => clock = later
    <3>1. owedReal - d = 0 => d = owedReal
      BY <1>1
    <3>2. QED
      BY <1>3, <1>4, <3>1
  <2>2. QED
    BY <1>8, <2>1
<1>14. QED
  BY <1>8, <1>10, <1>12, <1>13

\* Every step keeps what is left to do.
LEMMA StaysBehind == Behind /\ [TwinsNext]_twins => Behind'
<1> SUFFICES ASSUME Behind, [TwinsNext]_twins PROVE Behind'
  OBVIOUS
<1>1. /\ Regular(whole) /\ Regular(split) /\ owed \in Nat /\ owedReal \in Nat
      /\ Settled => split = whole
  BY DEF Behind
<1>2. Regular(whole)'
  BY <1>1, WholeStaysRegular
<1> DEFINE w == whole'
           s == split'
           o == owed'
           r == owedReal'
           Goal == /\ Regular(w) /\ Regular(s) /\ o \in Nat /\ r \in Nat
                   /\ (o = 0 /\ r = 0) => s = w
                   /\ o > 0 => /\ r = 0
                               /\ PlanAdvance(s, o).elapsed <= MaxElapsed
                               /\ w = RunTo(s, PlanAdvance(s, o))
                               /\ Emittable(s, w)
                   /\ r > 0 => /\ o = 0
                               /\ PlanElapse(s, r).elapsed <= MaxElapsed
                               /\ w = RunTo(s, PlanElapse(s, r))
                               /\ Emittable(s, w)
<1>3. SUFFICES Goal
  BY DEF Behind, Settled
<1>4. Regular(w)
  BY <1>2
<1>5. CASE UNCHANGED twins
  BY <1>5 DEF Behind, Settled, twins
<1>6. ASSUME Settled, o = owed, r = owedReal, s = w
      PROVE  Goal
  <2>1. o = 0 /\ r = 0
    BY <1>6 DEF Settled
  <2> HIDE DEF w, s, o, r
  <2>2. ~(o > 0) /\ ~(r > 0) /\ o \in Nat /\ r \in Nat
    BY <2>1
  <2>3. QED
    BY <1>4, <1>6, <2>2
<1>7. ASSUME NEW d \in Durations, Advance(d) PROVE Goal
  <2>1. /\ Settled /\ CanAdvance(whole, d) /\ Emittable(whole, w)
        /\ w = RunTo(whole, PlanAdvance(whole, d)) /\ s = split /\ o = d /\ r = owedReal
        /\ d \in Nat \ {0}
    BY <1>7, TwinInputs DEF Advance
  <2> HIDE DEF w, s, o, r
  <2>2. /\ PlanAdvance(split, d).elapsed <= MaxElapsed
        /\ w = RunTo(split, PlanAdvance(split, d))
        /\ Emittable(split, w)
    BY <2>1, FallsBehind
  <2>3. r = 0 /\ o # 0 /\ o \in Nat /\ r \in Nat
    BY <1>1, <2>1 DEF Settled
  <2>4. ~(r > 0)
    BY <2>3
  <2>5. QED
    BY <1>1, <1>4, <2>1, <2>2, <2>3, <2>4
<1>8. ASSUME NEW real \in RealDurations, Elapse(real) PROVE Goal
  <2>1. /\ Settled /\ CanElapse(whole, real) /\ Emittable(whole, w)
        /\ w = RunTo(whole, PlanElapse(whole, real)) /\ s = split /\ o = owed /\ r = real
        /\ real \in Nat \ {0}
    BY <1>8, TwinInputs DEF Elapse
  <2> HIDE DEF w, s, o, r
  <2>2. /\ PlanElapse(split, real).elapsed <= MaxElapsed
        /\ w = RunTo(split, PlanElapse(split, real))
        /\ Emittable(split, w)
    BY <2>1, FallsBehind
  <2>3. o = 0 /\ r # 0 /\ o \in Nat /\ r \in Nat
    BY <1>1, <2>1 DEF Settled
  <2>4. ~(o > 0)
    BY <2>3
  <2>5. QED
    BY <1>1, <1>4, <2>1, <2>2, <2>3, <2>4
<1>9. ASSUME NEW d \in 1 .. MaxAdvance, AdvancePiece(d) PROVE Goal
  <2>1. /\ d <= owed /\ s = RunTo(split, PlanAdvance(split, d)) /\ o = owed - d
        /\ w = whole /\ r = owedReal
    BY <1>9 DEF AdvancePiece
  <2>2. d \in 1 .. owed /\ owed > 0
    BY <1>1, <2>1, EngineLimits
  <2>3. owedReal = 0 /\ o \in Nat
    BY <1>1, <2>1, <2>2 DEF Behind
  <2> HIDE DEF w, s, o, r
  <2>4. /\ Regular(s)
        /\ owed - d = 0 => s = whole
        /\ PlanAdvance(s, owed - d).elapsed <= MaxElapsed
        /\ whole = RunTo(s, PlanAdvance(s, owed - d))
        /\ Emittable(s, whole)
    BY <2>1, <2>2, CatchesUp
  <2>5. ~(r > 0) /\ r \in Nat /\ r = 0
    BY <2>1, <2>3
  <2>6. QED
    BY <1>4, <2>1, <2>3, <2>4, <2>5
<1>10. ASSUME NEW real \in 1 .. owedReal, ElapsePiece(real) PROVE Goal
  <2>1. /\ s = RunTo(split, PlanElapse(split, real)) /\ r = owedReal - real
        /\ w = whole /\ o = owed
    BY <1>10 DEF ElapsePiece
  <2>2. owedReal > 0 /\ r \in Nat
    BY <1>1, <2>1
  <2>3. owed = 0
    BY <2>2 DEF Behind
  <2> HIDE DEF w, s, o, r
  <2>4. /\ Regular(s)
        /\ owedReal - real = 0 => s = whole
        /\ PlanElapse(s, owedReal - real).elapsed <= MaxElapsed
        /\ whole = RunTo(s, PlanElapse(s, owedReal - real))
        /\ Emittable(s, whole)
    BY <2>1, <2>2, CatchesUpReal
  <2>5. ~(o > 0) /\ o \in Nat /\ o = 0
    BY <2>1, <2>3
  <2>6. QED
    BY <1>4, <2>1, <2>2, <2>4, <2>5
<1>11. ASSUME NEW n, SetCounts(n) PROVE Goal
  BY <1>1, <1>6, <1>11 DEF SetCounts, Command
<1>12. ASSUME NEW v, SetSpeeds(v) PROVE Goal
  BY <1>1, <1>6, <1>12 DEF SetSpeeds, Command
<1>13. ASSUME NEW id, NEW cfg, AddStations(id, cfg) PROVE Goal
  BY <1>1, <1>6, <1>13 DEF AddStations, Command
<1>14. ASSUME NEW id, NEW rev, NEW cfg, UpdateStations(id, rev, cfg) PROVE Goal
  BY <1>1, <1>6, <1>14 DEF UpdateStations, Command
<1>15. ASSUME NEW id, NEW rev, RemoveStations(id, rev) PROVE Goal
  BY <1>1, <1>6, <1>15 DEF RemoveStations, Command
<1> HIDE DEF Goal
<1>16. QED
  BY <1>5, <1>7, <1>8, <1>9, <1>10, <1>11, <1>12, <1>13, <1>14, <1>15 DEF TwinsNext

\* planElapse, rescheduleAfter and nextEvent: however a duration is cut into
\* pieces, the engine that received the pieces is the engine that received it
\* whole.
THEOREM SplittingIsAlwaysInvisible == TwinsSpec => []SplittingIsInvisible
<1>1. TwinsInit => Behind
  <2> SUFFICES ASSUME TwinsInit PROVE Behind
    OBVIOUS
  <2>1. PICK speed \in Speeds : whole = Empty(speed) /\ split = Empty(speed)
    BY DEF TwinsInit
  <2>2. owed = 0 /\ owedReal = 0
    BY DEF TwinsInit
  <2>3. Regular(whole) /\ Regular(split)
    BY <2>1, EmptyIsRegular
  <2>4. QED
    BY <2>1, <2>2, <2>3 DEF Behind
<1>2. Behind /\ [TwinsNext]_twins => Behind'
  BY StaysBehind
<1>3. Behind => SplittingIsInvisible
  BY DEF Behind, SplittingIsInvisible
<1>4. QED
  BY <1>1, <1>2, <1>3, PTL DEF TwinsSpec

-------------------------------------------------------------------------------
(***************************************************************************)
(* What the display accepts.                                               *)
(***************************************************************************)

\* What Listened does not say: a station's receptions are of reports already
\* made, and numbers and revisions count from one.
Plausible(st, now) ==
    /\ st.rev >= 1
    /\ \A i \in DOMAIN st.ring :
          LET r == st.ring[i] IN r.rev >= 1 /\ r.frame.seq >= 1 /\ r.frame.at <= now

AllPlausible(s, now) == \A i \in DOMAIN s.active : Plausible(s.active[i], now)

\* history.append: nothing is retained that was not there or was appended.
LEMMA RetainOrigin ==
    ASSUME NEW S, NEW ring \in Seq(S), NEW x \in S, NEW limit \in Nat \ {0},
           NEW r, r = Retain(ring, x, limit)
    PROVE  \A i \in DOMAIN r : r[i] = x \/ \E j \in DOMAIN ring : r[i] = ring[j]
<1>1. CASE Len(ring) < limit
  <2>1. /\ DOMAIN Append(ring, x) = 1 .. Len(ring) + 1 /\ DOMAIN ring = 1 .. Len(ring)
        /\ Append(ring, x)[Len(ring) + 1] = x /\ Len(ring) \in Nat
        /\ \A i \in 1 .. Len(ring) : Append(ring, x)[i] = ring[i]
    BY AppendProperties
  <2>2. r = Append(ring, x)
    BY <1>1 DEF Retain
  <2>3. QED
    BY <2>1, <2>2
<1>2. CASE ~(Len(ring) < limit)
  <2>0. ring # <<>> /\ Len(ring) \in Nat /\ DOMAIN ring = 1 .. Len(ring)
    BY <1>2
  <2>1. /\ Tail(ring) \in Seq(S)
        /\ Len(Tail(ring)) = Len(ring) - 1
        /\ \A i \in 1 .. Len(ring) - 1 : Tail(ring)[i] = ring[i + 1]
    BY <2>0, HeadTailProperties
  <2>2. /\ DOMAIN Append(Tail(ring), x) = 1 .. Len(Tail(ring)) + 1
        /\ Append(Tail(ring), x)[Len(Tail(ring)) + 1] = x
        /\ \A i \in 1 .. Len(Tail(ring)) : Append(Tail(ring), x)[i] = Tail(ring)[i]
    BY <2>1, AppendProperties
  <2>3. r = Append(Tail(ring), x)
    BY <1>2 DEF Retain
  <2>4. \A i \in 1 .. Len(ring) - 1 : i + 1 \in DOMAIN ring /\ r[i] = ring[i + 1]
    BY <2>0, <2>1, <2>2, <2>3
  <2>5. DOMAIN r = 1 .. Len(ring) /\ r[Len(ring)] = x
    BY <2>0, <2>1, <2>2, <2>3
  <2>6. \A i \in DOMAIN r : i = Len(ring) \/ i \in 1 .. Len(ring) - 1
    BY <2>0, <2>5
  <2>7. QED
    BY <2>4, <2>5, <2>6
<1>3. QED
  BY <1>1, <1>2

\* deliver: one station.
LEMMA ReceiveStaysPlausible ==
    ASSUME NEW st \in Stations, NEW frame \in Frames, NEW now \in Nat, Plausible(st, now),
           frame.seq >= 1, frame.at <= now
    PROVE  Plausible(Receive(st, frame), now)
<1> DEFINE drawn == [st EXCEPT !.draws = @ + 1]
<1>1. CASE ~Hears(st, frame)
  BY <1>1 DEF Receive
<1>2. CASE Hears(st, frame) /\ Loses(st)
  <2>1. Receive(st, frame) = drawn
    BY <1>2 DEF Receive
  <2>2. drawn.rev = st.rev /\ drawn.ring = st.ring
    BY DEF Stations
  <2>3. QED
    BY <2>1, <2>2 DEF Plausible
<1>3. CASE Hears(st, frame) /\ ~Loses(st)
  <2> DEFINE x == Reception(st, frame)
             ring == Retain(st.ring, x, ReceptionHistoryLimit)
             last == st.last + 1
  <2>1. Receive(st, frame) = [drawn EXCEPT !.last = last, !.ring = ring]
    BY <1>3 DEF Receive, Stations
  <2>2. x \in Heard /\ st.ring \in Seq(Heard)
    BY DEF Reception, Heard, Stations
  <2>3. x.rev = st.rev /\ x.frame = frame
    BY DEF Reception
  <2> HIDE DEF x
  <2>4. \A i \in DOMAIN ring : ring[i] = x \/ \E j \in DOMAIN st.ring : ring[i] = st.ring[j]
    BY <2>2, RetainOrigin, EngineLimits
  <2> HIDE DEF ring, last
  <2>5. Receive(st, frame).rev = st.rev /\ Receive(st, frame).ring = ring
    BY <2>1 DEF Stations
  <2>6. x.rev >= 1 /\ x.frame.seq >= 1 /\ x.frame.at <= now
    BY <2>3 DEF Plausible
  <2>7. QED
    BY <2>4, <2>5, <2>6 DEF Plausible
<1>4. QED
  BY <1>1, <1>2, <1>3

\* record and deliver: all of them.
LEMMA RecordStaysPlausible ==
    ASSUME NEW s \in States, NEW ord \in Nat, NEW kind \in Kinds, NEW odd \in BOOLEAN,
           NEW at \in Nat, NEW now \in Nat, at <= now, AllPlausible(s, now),
           NEW t, t = Record(s, ord, kind, odd, at)
    PROVE  AllPlausible(t, now)
<1> DEFINE frame == Transmission(s, ord, kind, odd, at)
<1>1. frame \in Frames
  BY RecordEffect
<1>2. frame.seq >= 1 /\ frame.at = at
  BY DEF Transmission, States
<1>3. /\ DOMAIN t.active = DOMAIN s.active
      /\ \A i \in DOMAIN s.active : t.active[i] = Receive(s.active[i], frame)
  BY RecordDelivers
<1> HIDE DEF frame
<1>4. \A i \in DOMAIN s.active : s.active[i] \in Stations /\ Plausible(s.active[i], now)
  BY DEF States, AllPlausible
<1>5. \A i \in DOMAIN s.active : Plausible(Receive(s.active[i], frame), now)
  BY <1>1, <1>2, <1>4, ReceiveStaysPlausible
<1>6. QED
  BY <1>3, <1>5 DEF AllPlausible

\* A later instant.
LEMMA LaterIsPlausible ==
    ASSUME NEW s \in States, NEW now \in Nat, NEW later \in Nat, now <= later,
           AllPlausible(s, now)
    PROVE  AllPlausible(s, later)
<1>1. ASSUME NEW i \in DOMAIN s.active
      PROVE  Plausible(s.active[i], later)
  <2>1. s.active[i] \in Stations
    BY DEF States
  <2>2. s.active[i].ring \in Seq(Heard) /\ Plausible(s.active[i], now)
    BY <2>1 DEF Stations, AllPlausible
  <2> DEFINE ring == s.active[i].ring
  <2>3. \A j \in DOMAIN ring : ring[j].frame.at \in Nat
    BY <2>2, RingTypes
  <2>4. \A j \in DOMAIN ring : ring[j].frame.at <= now
    BY <2>2 DEF Plausible
  <2>5. \A j \in DOMAIN ring : ring[j].frame.at <= later
    BY <2>3, <2>4
  <2>6. QED
    BY <2>2, <2>5 DEF Plausible
<1>2. QED
  BY <1>1 DEF AllPlausible

\* runTo: the whole loop reports nothing after its limit.
LEMMA EmissionsStayPlausible ==
    ASSUME NEW s, Prepared(s), NEW limit \in Nat, limit <= MaxDuration, AllPlausible(s, limit)
    PROVE  \A n \in Nat : AllPlausible(Emissions(s, limit)[n], limit)
<1> DEFINE e == Emissions(s, limit)
           S == {n \in Nat : AllPlausible(e[n], limit)}
<1>1. e[0] = s /\ \A n \in Nat : e[n + 1] = Iterate(e[n], limit)
  BY EmissionsIterate
<1>2. \A n \in Nat : Prepared(e[n])
  BY EmissionsGoOn
<1> HIDE DEF e
<1>3. 0 \in S
  BY <1>1
<1>4. ASSUME NEW n \in Nat, n \in S
      PROVE  n + 1 \in S
  <2>1. PICK u : u = e[n]
    OBVIOUS
  <2>2. Prepared(u) /\ u \in States /\ AllPlausible(u, limit)
    BY <1>2, <1>4, <2>1 DEF Prepared
  <2>3. PICK t : t = e[n + 1]
    OBVIOUS
  <2>4. CASE Due(u, limit) = {}
    BY <1>1, <2>1, <2>2, <2>4 DEF Iterate
  <2>5. CASE Due(u, limit) # {}
    <3>1. PICK f : f = NextEvent(u, limit)
      OBVIOUS
    <3>2. f \in Due(u, limit)
      BY <2>2, <2>5, <3>1, NextIsDue
    <3>3. t = Emit(u, f)
      BY <1>1, <2>1, <2>3, <2>5, <3>1 DEF Iterate
    <3>4. Fired(u, f, t)
      BY <2>2, <3>2, <3>3, EmitGoesOn
    <3> DEFINE craft == u.fleet[f[1]]
               kind == Families[f[2]]
               odd == kind = "position" /\ craft.odd
               at == craft.due[f[2]]
               sent == Record(u, craft.ord, kind, odd, at)
    <3>5. kind \in Kinds /\ odd \in BOOLEAN /\ craft.ord \in Nat /\ at \in Nat
          /\ t.active = sent.active
      BY <3>4, Zenon DEF Fired
    <3>6. at <= limit
      BY <2>2, <3>2, DueFacts
    <3> HIDE DEF kind, odd, craft, at
    <3>7. AllPlausible(sent, limit)
      BY <2>2, <3>5, <3>6, RecordStaysPlausible
    <3>8. AllPlausible(t, limit)
      BY <3>5, <3>7 DEF AllPlausible
    <3>9. QED
      BY <2>3, <3>8
  <2>6. QED
    BY <2>4, <2>5
<1> HIDE DEF S
<1>5. Nat \subseteq S
  BY <1>3, <1>4, EveryNumber
<1>6. QED
  BY <1>5 DEF S, e

\* Advance and Elapse.
LEMMA RunStaysPlausible ==
    ASSUME NEW s, Regular(s), AllPlausible(s, s.elapsed),
           NEW clock \in [elapsed : Nat, carry : 0 .. 99],
           s.elapsed <= clock.elapsed, clock.elapsed <= MaxElapsed, NEW t, t = RunTo(s, clock)
    PROVE  AllPlausible(t, t.elapsed)
<1> DEFINE now == clock.elapsed
           rest == clock.carry
           u == Drain(s, now)
<1>1. /\ s \in States /\ s.elapsed \in Nat /\ Prepared(s)
  <2>1. s \in States /\ Scheduled(s, s.elapsed)
    BY DEF Regular, Steady, Sound
  <2>2. QED
    BY <2>1, ScheduledIsPrepared DEF States
<1>2. now \in Nat /\ rest \in 0 .. 99 /\ s.elapsed <= now
  OBVIOUS
<1>3. now <= MaxDuration
  BY EngineLimits
<1>4. t = [u EXCEPT !.elapsed = now, !.carry = rest]
  BY DEF RunTo
<1> HIDE DEF now, rest
<1>5. AllPlausible(s, now)
  BY <1>1, <1>2, LaterIsPlausible
<1>6. MaxBatchFrames + 1 \in Nat
  BY EngineLimits
<1>7. u \in States /\ AllPlausible(u, now)
  BY <1>1, <1>2, <1>3, <1>5, <1>6, EmissionsStayPlausible, EmissionsGoOn DEF Drain, Prepared
<1> HIDE DEF u
<1>8. t.elapsed = now /\ t.active = u.active
  <2>1. Arrived(u, now, rest, t)
    BY <1>2, <1>4, <1>7, ArriveEffect, Zenon
  <2>2. QED
    BY <2>1 DEF Arrived, SameRegistry
<1>9. QED
  BY <1>7, <1>8 DEF AllPlausible

\* addAircraft: creation reports are of the committed instant.
LEMMA AdditionStaysPlausible ==
    ASSUME NEW s \in States, NEW t, Created(s, t), AllPlausible(s, s.elapsed)
    PROVE  AllPlausible(t, t.elapsed)
<1> DEFINE ord == s.nextAddress
           at  == s.elapsed
           a   == Record(s, ord, Families[1], FALSE, at)
           b   == Record(a, ord, Families[2], FALSE, at)
           c   == Record(b, ord, Families[3], FALSE, at)
<1>1. /\ a \in States /\ b \in States /\ c \in States /\ ord \in Nat /\ at \in Nat
      /\ t.elapsed = at /\ t.active = c.active
  BY DEF Created
<1>2. /\ Families[1] \in Kinds /\ Families[2] \in Kinds /\ Families[3] \in Kinds
      /\ FALSE \in BOOLEAN /\ AllPlausible(s, at)
  BY ThreeFamilies DEF Kinds
<1> HIDE DEF ord, at
<1>3. at <= at
  BY <1>1
<1>4. AllPlausible(a, at)
  BY <1>1, <1>2, <1>3, RecordStaysPlausible
<1> HIDE DEF a
<1>5. AllPlausible(b, at)
  BY <1>1, <1>2, <1>3, <1>4, RecordStaysPlausible
<1> HIDE DEF b
<1>6. AllPlausible(c, at)
  BY <1>1, <1>2, <1>3, <1>5, RecordStaysPlausible
<1> HIDE DEF c
<1>7. QED
  BY <1>1, <1>6 DEF AllPlausible

\* SetCount upwards.
LEMMA GrowStaysPlausible ==
    ASSUME NEW s \in States, s.nextAddress >= 1, NEW n \in Nat,
           s.nextAddress + n <= MaxAddress + 1, AllPlausible(s, s.elapsed),
           NEW t, t = Grow(s, n)
    PROVE  AllPlausible(t, t.elapsed)
<1> DEFINE a == Additions(s)
           S == {m \in Nat : m <= n => AllPlausible(a[m], a[m].elapsed)}
<1>1. a[0] = s /\ \A m \in Nat : a[m + 1] = AddAircraft(a[m])
  BY AdditionsIterate
<1>2. \A m \in 0 .. n : Grown(s, a[m], m)
  BY AdditionsGoOn
<1>3. t = a[n]
  BY DEF Grow
<1>4. s.nextAddress \in Nat /\ MaxAddress \in Nat
  BY EngineLimits DEF States
<1> HIDE DEF a
<1>5. 0 \in S
  BY <1>1
<1>6. ASSUME NEW m \in Nat, m \in S
      PROVE  m + 1 \in S
  <2>1. SUFFICES ASSUME m + 1 <= n PROVE AllPlausible(a[m + 1], a[m + 1].elapsed)
    OBVIOUS
  <2>2. AllPlausible(a[m], a[m].elapsed) /\ Grown(s, a[m], m)
    BY <1>2, <1>6, <2>1
  <2>3. a[m] \in States /\ a[m].nextAddress = s.nextAddress + m
    BY <2>2 DEF Grown
  <2>4. a[m].nextAddress \in 1 .. MaxAddress
    BY <1>4, <2>1, <2>3
  <2>5. Created(a[m], a[m + 1])
    BY <1>1, <2>3, <2>4, AddAircraftCreates
  <2>6. QED
    BY <2>2, <2>3, <2>5, AdditionStaysPlausible
<1> HIDE DEF S
<1>7. Nat \subseteq S
  BY <1>5, <1>6, EveryNumber
<1>8. n \in S
  BY <1>7
<1>9. QED
  BY <1>3, <1>8 DEF S

\* A mutation that emits nothing: a new station starts with the first revision and no
\* receptions, the others keep theirs.
LEMMA MutatedStaysPlausible ==
    ASSUME NEW s \in States, AllPlausible(s, s.elapsed), NEW t, Mutated(s, t)
    PROVE  AllPlausible(t, t.elapsed)
<1>1. PICK from : Restationed(s, t, from)
  BY DEF Mutated
<1>2. t.elapsed = s.elapsed
  BY DEF Mutated, SameLog
<1>3. \A i \in DOMAIN s.active : s.active[i].rev \in Nat /\ Plausible(s.active[i], s.elapsed)
  <2>1. s.active \in Seq(Stations)
    BY DEF States
  <2>2. \A i \in DOMAIN s.active : s.active[i] \in Stations
    BY <2>1
  <2>3. QED
    BY <2>2 DEF Stations, AllPlausible
<1>4. ASSUME NEW i \in DOMAIN t.active PROVE Plausible(t.active[i], s.elapsed)
  <2>1. CASE Fresh(s, t, t.active[i])
    BY <2>1 DEF Fresh, Plausible
  <2>2. CASE from[i] \in DOMAIN s.active /\ Continues(s.active[from[i]], t.active[i])
    BY <1>3, <2>2 DEF Continues, Plausible
  <2>3. QED
    BY <1>1, <2>1, <2>2 DEF Restationed
<1>5. QED
  BY <1>2, <1>4 DEF AllPlausible

\* Nothing the reference engine does makes its receptions implausible.
LEMMA WholeStaysPlausible ==
    ASSUME Regular(whole), AllPlausible(whole, whole.elapsed), [TwinsNext]_twins
    PROVE  AllPlausible(whole', whole'.elapsed)
<1>1. PICK t : t = whole'
  OBVIOUS
<1>2. whole \in States /\ whole.nextAddress >= 1
  <2>1. whole \in States /\ Allocated(whole)
    BY DEF Regular, Steady, Sound
  <2>2. QED
    BY <2>1, EngineLimits DEF Allocated, States
<1>3. AllPlausible(t, t.elapsed)
  <2>1. CASE WholeRuns(t)
    BY <2>1, RunStaysPlausible DEF WholeRuns
  <2>2. CASE WholeGrows(t)
    BY <1>2, <2>2, GrowStaysPlausible DEF WholeGrows
  <2>3. CASE Mutated(whole, t)
    BY <1>2, <2>3, MutatedStaysPlausible
  <2>4. QED
    BY <1>1, <2>1, <2>2, <2>3, WholeCases
<1>4. QED
  BY <1>1, <1>3

\* An ascending map of the first numbers onto themselves moves none of them.
LEMMA AscendingIsIdentity ==
    ASSUME NEW n \in Nat, NEW p \in [1 .. n -> 1 .. n],
           \A i, j \in 1 .. n : i < j => p[i] <= p[j],
           \A w \in 1 .. n : \E v \in 1 .. n : p[v] = w
    PROVE  \A i \in 1 .. n : p[i] = i
<1> DEFINE Low == {m \in Nat : m + 1 \in 1 .. n => p[m + 1] <= m + 1}
           High == {m \in Nat : n - m \in 1 .. n => p[n - m] >= n - m}
<1>1. \A i \in 1 .. n : p[i] \in 1 .. n /\ p[i] \in Nat
  OBVIOUS
<1>2. ASSUME NEW i \in 1 .. n, NEW j \in 1 .. n, j = i + 1
      PROVE  p[j] <= p[i] + 1
  <2>1. PICK a \in 1 .. n : a = p[i]
    BY <1>1
  <2>2. PICK b \in 1 .. n : b = p[j]
    BY <1>1
  <2>3. SUFFICES ASSUME b > a + 1 PROVE FALSE
    BY <2>1, <2>2
  <2>4. a + 1 \in 1 .. n
    BY <2>3
  <2>5. PICK v \in 1 .. n : p[v] = a + 1
    BY <2>4
  <2>6. v = i \/ v = j \/ v < i \/ j < v
    BY <1>2
  <2>7. v < i => a + 1 <= a
    BY <2>1, <2>5
  <2>8. j < v => b <= a + 1
    BY <2>2, <2>5
  <2>9. v # i /\ v # j
    <3>1. ASSUME v = i PROVE FALSE
      <4>1. a = a + 1
        BY <2>1, <2>5, <3>1
      <4>2. QED
        BY <4>1
    <3>2. ASSUME v = j PROVE FALSE
      <4>1. b = a + 1
        BY <2>2, <2>5, <3>2
      <4>2. QED
        BY <2>3, <4>1
    <3>3. QED
      BY <3>1, <3>2
  <2>10. QED
    BY <2>3, <2>6, <2>7, <2>8, <2>9
<1>3. 0 \in Low
  <2>1. SUFFICES ASSUME 1 \in 1 .. n PROVE p[1] <= 1
    OBVIOUS
  <2>2. PICK v \in 1 .. n : p[v] = 1
    BY <2>1
  <2>3. v = 1 \/ 1 < v
    OBVIOUS
  <2>4. 1 < v => p[1] <= p[v]
    BY <2>1
  <2>5. QED
    BY <2>2, <2>3, <2>4
<1>4. ASSUME NEW m \in Nat, m \in Low
      PROVE  m + 1 \in Low
  <2>1. SUFFICES ASSUME (m + 1) + 1 \in 1 .. n PROVE p[(m + 1) + 1] <= (m + 1) + 1
    OBVIOUS
  <2>2. m + 1 \in 1 .. n
    BY <2>1
  <2>3. p[(m + 1) + 1] <= p[m + 1] + 1
    BY <1>2, <2>1, <2>2
  <2>4. p[m + 1] <= m + 1
    BY <1>4, <2>2
  <2>5. PICK x \in Nat : x = p[m + 1]
    BY <1>1, <2>2
  <2>6. PICK y \in Nat : y = p[(m + 1) + 1]
    BY <1>1, <2>1
  <2>7. y <= (m + 1) + 1
    BY <2>3, <2>4, <2>5, <2>6
  <2>8. QED
    BY <2>6, <2>7
<1>5. 0 \in High
  <2>1. SUFFICES ASSUME n \in 1 .. n PROVE p[n] >= n
    OBVIOUS
  <2>2. PICK v \in 1 .. n : p[v] = n
    BY <2>1
  <2>3. v = n \/ v < n
    OBVIOUS
  <2>4. v < n => p[v] <= p[n]
    BY <2>1
  <2>5. p[n] \in Nat
    BY <1>1, <2>1
  <2>6. QED
    BY <2>2, <2>3, <2>4, <2>5
<1>6. ASSUME NEW m \in Nat, m \in High
      PROVE  m + 1 \in High
  <2>1. SUFFICES ASSUME n - (m + 1) \in 1 .. n PROVE p[n - (m + 1)] >= n - (m + 1)
    OBVIOUS
  <2>2. n - m \in 1 .. n /\ n - m = (n - (m + 1)) + 1
    BY <2>1
  <2>3. p[n - m] <= p[n - (m + 1)] + 1
    BY <1>2, <2>1, <2>2
  <2>4. p[n - m] >= n - m
    BY <1>6, <2>2
  <2>5. PICK x \in Nat : x = p[n - m]
    BY <1>1, <2>2
  <2>6. PICK y \in Nat : y = p[n - (m + 1)]
    BY <1>1, <2>1
  <2>7. x <= y + 1 /\ x >= n - m
    BY <2>3, <2>4, <2>5, <2>6
  <2>8. \A k, l, u, w \in Nat : u <= w + 1 /\ u >= k - l => w >= k - (l + 1)
    OBVIOUS
  <2>9. y >= n - (m + 1)
    BY <2>7, <2>8
  <2>10. QED
    BY <2>6, <2>9
<1> HIDE DEF Low, High
<1>7. Nat \subseteq Low
  BY <1>3, <1>4, EveryNumber
<1>8. Nat \subseteq High
  BY <1>5, <1>6, EveryNumber
<1>9. ASSUME NEW i \in 1 .. n
      PROVE  p[i] = i
  <2>1. i - 1 \in Low /\ (i - 1) + 1 = i /\ n - i \in High /\ n - (n - i) = i
    BY <1>7, <1>8
  <2>2. p[i] <= i
    BY <2>1 DEF Low
  <2>3. p[i] >= i
    BY <2>1 DEF High
  <2>4. QED
    BY <1>1, <2>2, <2>3
<1>10. QED
  BY <1>9

\* Sort(Received) of reception_snapshot.go: a ring is in the order sent already.
LEMMA SortedStays ==
    ASSUME NEW ring \in Seq(Heard),
           \A i, j \in DOMAIN ring : i < j => ring[i].frame.seq < ring[j].frame.seq
    PROVE  ByTransmission(ring) = ring
<1> DEFINE n == Len(ring)
           InOrder(p) == \A i, j \in DOMAIN ring :
                            i < j => ring[p[i]].frame.seq <= ring[p[j]].frame.seq
           all == Bijection(DOMAIN ring, DOMAIN ring)
           id == [i \in DOMAIN ring |-> i]
           perm == CHOOSE p \in all : InOrder(p)
<1>1. n \in Nat /\ DOMAIN ring = 1 .. n /\ \A i \in 1 .. n : ring[i].frame.seq \in Nat
  BY RingTypes
<1>2. id \in all /\ InOrder(id)
  <2>1. id \in [DOMAIN ring -> DOMAIN ring] /\ \A w \in DOMAIN ring : id[w] = w
    OBVIOUS
  <2> HIDE DEF id
  <2>2. id \in all
    BY <2>1 DEF Bijection, Injection, Surjection, IsInjective
  <2>3. InOrder(id)
    BY <1>1, <2>1
  <2>4. QED
    BY <2>2, <2>3
<1>3. perm \in all /\ InOrder(perm)
  <2> HIDE DEF id, InOrder, all
  <2>1. QED
    BY <1>2
<1>4. ByTransmission(ring) = [i \in DOMAIN ring |-> ring[perm[i]]]
  BY Zenon DEF ByTransmission
<1> HIDE DEF perm
<1>5. perm \in [1 .. n -> 1 .. n] /\ \A w \in 1 .. n : \E v \in 1 .. n : perm[v] = w
  BY <1>1, <1>3 DEF Bijection, Surjection
<1>6. \A i, j \in 1 .. n : i < j => perm[i] <= perm[j]
  <2>1. SUFFICES ASSUME NEW i \in 1 .. n, NEW j \in 1 .. n, i < j, ~(perm[i] <= perm[j])
                 PROVE  FALSE
    OBVIOUS
  <2>2. perm[i] \in 1 .. n /\ perm[j] \in 1 .. n
    BY <1>5
  <2>3. PICK a \in 1 .. n : a = perm[i]
    BY <2>2
  <2>4. PICK b \in 1 .. n : b = perm[j]
    BY <2>2
  <2>5. b < a
    BY <2>1, <2>3, <2>4
  <2>6. ring[b].frame.seq < ring[a].frame.seq
    BY <1>1, <2>5
  <2>7. ring[a].frame.seq <= ring[b].frame.seq
    BY <1>1, <1>3, <2>1, <2>3, <2>4
  <2>8. ring[a].frame.seq \in Nat /\ ring[b].frame.seq \in Nat
    BY <1>1
  <2>9. QED
    BY <2>6, <2>7, <2>8
<1>7. \A i \in 1 .. n : perm[i] = i
  BY <1>1, <1>5, <1>6, AscendingIsIdentity
<1>8. ByTransmission(ring) = [i \in DOMAIN ring |-> ring[i]]
  BY <1>1, <1>4, <1>7
<1>9. [i \in DOMAIN ring |-> ring[i]] = ring
  OBVIOUS
<1>10. QED
  BY <1>8, <1>9

\* validateReception, validateRecords and validateRetentionBounds, of one station.
LEMMA StationIsAccepted ==
    ASSUME NEW st \in Stations, NEW sent, NEW now \in Nat, Listened(st, sent), Plausible(st, now)
    PROVE  /\ ByTransmission(st.ring) = st.ring
           /\ \A i \in DOMAIN st.ring : ValidReception(st.ring[i], now)
           /\ ValidStation(st.ring)
           /\ DescribesRecords(Retention(st.ring), st.ring)
<1> DEFINE ring == st.ring
<1>1. ring \in Seq(Heard) /\ Len(ring) \in Nat /\ DOMAIN ring = 1 .. Len(ring) /\ st.last \in Nat
  <2>1. ring \in Seq(Heard) /\ st.last \in Nat
    BY DEF Stations
  <2>2. QED
    BY <2>1
<1>2. \A i \in DOMAIN ring : /\ ring[i].seq \in Nat /\ ring[i].frame.seq \in Nat
                             /\ ring[i].rev \in Nat /\ ring[i].frame.at \in Nat
                             /\ ring[i].created \in Nat
  BY <1>1, RingTypes
<1>3. /\ Len(ring) = Least(st.last, ReceptionHistoryLimit)
      /\ \A i \in DOMAIN ring : ring[i].seq = st.last - Len(ring) + i
      /\ \A i \in DOMAIN ring : ring[i].created = st.created /\ ring[i].frame.at >= st.created
      /\ \A i, j \in DOMAIN ring : i < j => ring[i].frame.seq < ring[j].frame.seq
      /\ \A i, j \in DOMAIN ring : i < j /\ ring[i].rev = ring[j].rev => ring[i].cfg = ring[j].cfg
  BY DEF Listened
<1>4. \A i \in DOMAIN ring :
         ring[i].rev >= 1 /\ ring[i].frame.seq >= 1 /\ ring[i].frame.at <= now
  BY DEF Plausible
<1> HIDE DEF ring
<1>5. Len(ring) <= st.last /\ Len(ring) <= ReceptionHistoryLimit
  <2>1. ReceptionHistoryLimit \in Nat
    BY EngineLimits
  <2>2. QED
    BY <1>1, <1>3, <2>1 DEF Least
<1>6. ByTransmission(ring) = ring
  BY <1>1, <1>3, SortedStays
<1>7. ASSUME NEW i \in DOMAIN ring
      PROVE  ValidReception(ring[i], now)
  <2>1. ring[i].seq = st.last - Len(ring) + i /\ i \in 1 .. Len(ring)
    BY <1>1, <1>3
  <2>2. ring[i].seq > 0
    BY <1>1, <1>5, <2>1
  <2>3. ring[i].created <= ring[i].frame.at
    BY <1>2, <1>3
  <2>4. ring[i].frame.seq > 0 /\ ring[i].rev > 0 /\ ring[i].frame.at <= now
    BY <1>2, <1>4
  <2>5. QED
    BY <2>2, <2>3, <2>4 DEF ValidReception
<1>8. ValidStation(ring)
  <2>1. \A i \in 1 .. Len(ring) - 1 : ring[i + 1].seq = ring[i].seq + 1
    <3>1. ASSUME NEW i \in 1 .. Len(ring) - 1
          PROVE  ring[i + 1].seq = ring[i].seq + 1
      <4>1. i \in DOMAIN ring /\ i + 1 \in DOMAIN ring
        BY <1>1
      <4>2. ring[i].seq = st.last - Len(ring) + i
            /\ ring[i + 1].seq = st.last - Len(ring) + (i + 1)
        BY <1>3, <4>1
      <4>3. QED
        BY <1>1, <4>2
    <3>2. QED
      BY <3>1
  <2>2. ASSUME NEW i \in DOMAIN ring, NEW j \in DOMAIN ring
        PROVE  /\ i # j => ring[i].frame.seq # ring[j].frame.seq
               /\ ring[i].rev = ring[j].rev => ring[i].cfg = ring[j].cfg
    <3>1. i = j \/ i < j \/ j < i
      BY <1>1
    <3>2. ring[i].frame.seq \in Nat /\ ring[j].frame.seq \in Nat
      BY <1>2
    <3>3. QED
      BY <1>3, <3>1, <3>2
  <2>3. QED
    BY <2>1, <2>2 DEF ValidStation
<1>9. DescribesRecords(Retention(ring), ring)
  <2>1. PICK entry : entry = Retention(ring)
    OBVIOUS
  <2>2. entry.limit = ReceptionHistoryLimit
    BY <2>1 DEF Retention
  <2>3. CASE ring = <<>>
    <3>1. entry = [oldest |-> 0, latest |-> 0, truncated |-> FALSE,
                   limit |-> ReceptionHistoryLimit]
      <4>1. (0 > 1) = FALSE
        OBVIOUS
      <4>2. QED
        BY Zenon, <2>1, <2>3, <4>1 DEF Retention
    <3>2. entry.oldest = 0 /\ entry.latest = 0 /\ entry.truncated = FALSE
      BY <3>1
    <3>3. QED
      BY <1>5, <2>1, <2>2, <2>3, <3>2 DEF DescribesRecords
  <2>4. CASE ring # <<>>
    <3>1. PICK old : old = Head(ring).seq
      OBVIOUS
    <3>2. PICK late : late = Last(ring).seq
      OBVIOUS
    <3>3. entry = [oldest |-> old, latest |-> late, truncated |-> old > 1,
                   limit |-> ReceptionHistoryLimit]
      BY Zenon, <2>1, <2>4, <3>1, <3>2 DEF Retention
    <3>4. entry.oldest = old /\ entry.latest = late /\ entry.truncated = (old > 1)
      BY Zenon, <3>3
    <3>5. QED
      BY Zenon, <1>5, <2>1, <2>2, <2>4, <3>1, <3>2, <3>4 DEF DescribesRecords
  <2>5. QED
    BY <2>3, <2>4
<1>10. QED
  BY <1>6, <1>7, <1>8, <1>9 DEF ring

\* ReceptionSnapshot and validateSnapshot: the whole answer.
LEMMA SnapshotIsAccepted ==
    ASSUME NEW s, Regular(s), AllPlausible(s, s.elapsed)
    PROVE  Validates(Snapshot(s, ActiveIds(s)))
<1> DEFINE ids == ActiveIds(s)
           Ring(id) == s.active[Find(s, id)].ring
           snap == Snapshot(s, ids)
<1>1. s \in States /\ Kept(s) /\ s.elapsed \in Nat /\ s.active \in Seq(Stations)
  BY DEF Regular, Steady, Sound, States
<1>2. /\ snap.now = s.elapsed
      /\ snap.retention = [id \in ids |-> Retention(Ring(id))]
      /\ snap.records = [id \in ids |-> ByTransmission(Ring(id))]
  BY DEF Snapshot
<1> HIDE DEF snap
<1>3. ASSUME NEW id \in ids
      PROVE  /\ Find(s, id) \in DOMAIN s.active
             /\ ByTransmission(Ring(id)) = Ring(id)
             /\ \A i \in DOMAIN Ring(id) : ValidReception(Ring(id)[i], s.elapsed)
             /\ ValidStation(Ring(id))
             /\ DescribesRecords(Retention(Ring(id)), Ring(id))
  <2>1. Find(s, id) \in DOMAIN s.active
    BY <1>1, FindFacts
  <2>2. PICK st : st = s.active[Find(s, id)]
    OBVIOUS
  <2>3. st \in Stations
    BY <1>1, <2>1, <2>2
  <2>4. Listened(st, s.lastSequence) /\ Plausible(st, s.elapsed)
    BY <1>1, <2>1, <2>2 DEF Kept, AllPlausible
  <2>5. /\ ByTransmission(st.ring) = st.ring
        /\ \A i \in DOMAIN st.ring : ValidReception(st.ring[i], s.elapsed)
        /\ ValidStation(st.ring)
        /\ DescribesRecords(Retention(st.ring), st.ring)
    BY <1>1, <2>3, <2>4, StationIsAccepted
  <2>6. QED
    BY <2>1, <2>2, <2>5
<1> HIDE DEF Ring
<1>4. DOMAIN snap.records = ids
      /\ \A id \in ids : snap.records[id] = Ring(id) /\ snap.retention[id] = Retention(Ring(id))
  BY <1>2, <1>3
<1>5. CopiesOfOneFrame(snap)
  <2>1. ASSUME NEW r \in RecordsOf(snap)
        PROVE  r.frame \in Copies(s)
    <3>1. PICK id \in ids : r \in ToSet(Ring(id))
      BY <1>4 DEF RecordsOf
    <3>2. PICK i \in DOMAIN Ring(id) : r = Ring(id)[i]
      BY <3>1 DEF ToSet
    <3>3. PICK n \in DOMAIN s.active : n = Find(s, id)
      BY <1>3
    <3>4. i \in DOMAIN s.active[n].ring /\ r.frame = s.active[n].ring[i].frame
      BY <3>2, <3>3 DEF Ring
    <3>5. QED
      BY <3>4, CopyOrigin
  <2>2. CopiesAgree(s)
    BY <1>1 DEF Kept
  <2>3. QED
    BY <2>1, <2>2 DEF CopiesOfOneFrame, CopiesAgree
<1>6. QED
  BY <1>2, <1>3, <1>4, <1>5 DEF Validates, snap

\* ReceptionSnapshot and validateSnapshot: the display accepts the snapshot of all
\* stations of an engine, whatever was evicted, edited, removed or never heard.
THEOREM SnapshotsAreAlwaysAccepted == TwinsSpec => []SnapshotsAreAccepted
<1> DEFINE Presentable == Regular(whole) /\ AllPlausible(whole, whole.elapsed)
<1>1. TwinsInit => Presentable
  <2> SUFFICES ASSUME TwinsInit PROVE Presentable
    OBVIOUS
  <2>1. Regular(whole)
    BY TwinsInitIsRegular
  <2>2. PICK speed \in Speeds : whole = Empty(speed)
    BY DEF TwinsInit
  <2>3. DOMAIN whole.active = {}
    BY <2>2 DEF Empty
  <2>4. AllPlausible(whole, whole.elapsed)
    BY <2>3 DEF AllPlausible
  <2>5. QED
    BY <2>1, <2>4
<1>2. Presentable /\ [TwinsNext]_twins => Presentable'
  <2> SUFFICES ASSUME Presentable, [TwinsNext]_twins PROVE Presentable'
    OBVIOUS
  <2>1. Regular(whole)'
    BY WholeStaysRegular
  <2>2. AllPlausible(whole', whole'.elapsed)
    BY WholeStaysPlausible
  <2>3. AllPlausible(whole, whole.elapsed)'
    BY <2>2 DEF AllPlausible, Plausible
  <2>4. QED
    BY <2>1, <2>3
<1>3. Presentable => SnapshotsAreAccepted
  BY SnapshotIsAccepted DEF SnapshotsAreAccepted
<1>4. QED
  BY <1>1, <1>2, <1>3, PTL DEF TwinsSpec

-------------------------------------------------------------------------------
(***************************************************************************)
(* What the display decodes.  The loop of decodeSnapshot is a recursive    *)
(* function, treated as those of the engine are.                           *)
(***************************************************************************)

\* g is the course of decodeSnapshot's loop up to transmission n.
DecodesTo(g, order, ord, n) ==
    \A i \in 0 .. n : g[i] = IF i = 0 THEN NoTrack ELSE AccumulateFor(ord, g[i - 1], order[i])

LEMMA DecodesExist ==
    ASSUME NEW order, NEW ord
    PROVE  \A n \in Nat : \E g : DecodesTo(g, order, ord, n)
<1> DEFINE S == {n \in Nat : \E g : DecodesTo(g, order, ord, n)}
<1>1. 0 \in S
  <2>1. DecodesTo([i \in 0 .. 0 |-> NoTrack], order, ord, 0)
    BY DEF DecodesTo
  <2>2. QED
    BY <2>1
<1>2. ASSUME NEW n \in Nat, n \in S
      PROVE  n + 1 \in S
  <2>1. PICK g : DecodesTo(g, order, ord, n)
    BY <1>2
  <2> DEFINE last == AccumulateFor(ord, g[n], order[n + 1])
             h == [i \in 0 .. n + 1 |-> IF i <= n THEN g[i] ELSE last]
  <2>2. \A i \in 0 .. n : h[i] = g[i]
    OBVIOUS
  <2>3. h[n + 1] = last
    <3> HIDE DEF last
    <3>1. QED
      OBVIOUS
  <2> HIDE DEF h
  <2>4. h[n + 1] = AccumulateFor(ord, h[n], order[n + 1])
    BY <2>2, <2>3
  <2>5. DecodesTo(h, order, ord, n + 1)
    BY <2>1, <2>2, <2>4 DEF DecodesTo
  <2>6. QED
    BY <2>5
<1> HIDE DEF S
<1>3. Nat \subseteq S
  BY <1>1, <1>2, EveryNumber
<1>4. QED
  BY <1>3 DEF S

LEMMA DecodesAgree ==
    ASSUME NEW order, NEW ord, NEW n \in Nat, NEW m \in Nat, n <= m,
           NEW g, NEW h, DecodesTo(g, order, ord, n), DecodesTo(h, order, ord, m)
    PROVE  g[n] = h[n]
<1> DEFINE S == {i \in Nat : i <= n => g[i] = h[i]}
<1>1. 0 \in S
  BY DEF DecodesTo
<1>2. ASSUME NEW i \in Nat, i \in S
      PROVE  i + 1 \in S
  BY <1>2 DEF DecodesTo
<1> HIDE DEF S
<1>3. Nat \subseteq S
  BY <1>1, <1>2, EveryNumber
<1>4. QED
  BY <1>3 DEF S

\* f is the whole course of decodeSnapshot's loop.
Decodes(f, order, ord) ==
    f = [n \in Nat |-> IF n = 0 THEN NoTrack ELSE AccumulateFor(ord, f[n - 1], order[n])]

LEMMA DecodingExists ==
    ASSUME NEW order, NEW ord
    PROVE  \E f : Decodes(f, order, ord)
<1> DEFINE G(n) == CHOOSE g : DecodesTo(g, order, ord, n)
           f == [n \in Nat |-> G(n)[n]]
<1>1. \A n \in Nat : DecodesTo(G(n), order, ord, n)
  BY DecodesExist, Zenon
<1> HIDE DEF G
<1>2. \A n \in Nat \ {0} : G(n)[n - 1] = G(n - 1)[n - 1]
  BY <1>1, DecodesAgree
<1>3. G(0)[0] = NoTrack
  BY <1>1 DEF DecodesTo
<1>4. \A n \in Nat \ {0} : G(n)[n] = AccumulateFor(ord, G(n)[n - 1], order[n])
  BY <1>1 DEF DecodesTo
<1>5. Decodes(f, order, ord)
  BY <1>2, <1>3, <1>4 DEF Decodes
<1> HIDE DEF f
<1>6. QED
  BY <1>5, Zenon

\* decodeSnapshot: the loop starts from nothing and takes one transmission more.
LEMMA DecodingIterates ==
    ASSUME NEW order, NEW ord
    PROVE  /\ Decoding(order, ord)[0] = NoTrack
           /\ \A n \in Nat : Decoding(order, ord)[n + 1] =
                                AccumulateFor(ord, Decoding(order, ord)[n], order[n + 1])
<1> DEFINE e == Decoding(order, ord)
<1>1. PICK f : Decodes(f, order, ord)
  BY DecodingExists, Zenon
<1>2. Decodes(e, order, ord)
  BY <1>1, Zenon DEF Decoding, Decodes
<1> HIDE DEF e
<1>3. e[0] = NoTrack /\ \A n \in Nat : e[n + 1] = AccumulateFor(ord, e[n], order[n + 1])
  BY <1>2 DEF Decodes
<1>4. QED
  BY <1>3 DEF e

\* Tracks, without their contents.
Instants == Nat \cup {Never}

TrackRecords == [identity : Instants, position : Instants, altitude : Instants,
                 velocity : Instants, even : Instants, odd : Instants]

\* x is what was sent last of a set of transmissions.
LastOf(A, x) == x \in A /\ \A y \in A : y.seq <= x.seq

\* v is when the last of a set of transmissions was received.
Holds(v, A) == (A = {} /\ v = Never) \/ \E x : LastOf(A, x) /\ v = x.at

OfKind(F, kind) == {f \in F : f.kind = kind}

Halves(F, odd) == {f \in F : f.kind = "position" /\ f.odd = odd}

UpTo(F, f) == {g \in F : g.seq <= f.seq}

\* A position report that makes a pair with the other half received last.
Fixing(F, f) ==
    /\ f.kind = "position"
    /\ \E e, o : /\ LastOf(UpTo(Halves(F, FALSE), f), e)
                 /\ LastOf(UpTo(Halves(F, TRUE), f), o)
                 /\ Pairs(f.ord, e.at, o.at, f.at)

Fixes(F) == {f \in F : Fixing(F, f)}

\* What a track says of the transmissions it was made from.
Summarizes(track, F) ==
    /\ track \in TrackRecords
    /\ Holds(track.identity, OfKind(F, "identification"))
    /\ Holds(track.altitude, OfKind(F, "position"))
    /\ Holds(track.velocity, OfKind(F, "velocity"))
    /\ Holds(track.even, Halves(F, FALSE))
    /\ Holds(track.odd, Halves(F, TRUE))
    /\ Holds(track.position, Fixes(F))

\* Transmissions are told apart by their numbers.
Numbered(F) == F \subseteq Frames /\ \A f, g \in F : f.seq = g.seq => f = g

\* One transmission more, with the highest number.
LEMMA NewestIsHeld ==
    ASSUME NEW A, NEW f \in Frames, A \subseteq Frames, \A g \in A : g.seq < f.seq
    PROVE  LastOf(A \cup {f}, f) /\ Holds(f.at, A \cup {f})
<1>1. \A g \in A \cup {f} : g.seq <= f.seq
  <2>1. f.seq \in Nat /\ \A g \in A : g.seq \in Nat
    BY DEF Frames
  <2>2. QED
    BY <2>1
<1>2. LastOf(A \cup {f}, f)
  BY <1>1 DEF LastOf
<1>3. QED
  BY <1>2 DEF Holds

\* What is held of numbered transmissions, when it is an instant, is the last one's.
LEMMA HeldIsLast ==
    ASSUME NEW A, Numbered(A), NEW v, Holds(v, A)
    PROVE  /\ v \in Instants
           /\ v # Never => \E x : LastOf(A, x) /\ v = x.at
           /\ \A x : LastOf(A, x) => v = x.at /\ v # Never
<1>1. \A x \in A : x.at \in Nat /\ x.seq \in Nat
  BY DEF Numbered, Frames
<1>2. \A x : LastOf(A, x) => x \in A /\ x.at \in Nat /\ x.at # Never
  BY <1>1 DEF LastOf, Never
<1>3. \A x, y : LastOf(A, x) /\ LastOf(A, y) => x = y
  <2>1. SUFFICES ASSUME NEW x, NEW y, LastOf(A, x), LastOf(A, y) PROVE x = y
    OBVIOUS
  <2>2. x \in A /\ y \in A /\ x.seq <= y.seq /\ y.seq <= x.seq
    BY <2>1 DEF LastOf
  <2>3. x.seq = y.seq
    BY <1>1, <2>2
  <2>4. QED
    BY <2>2, <2>3 DEF Numbered
<1>4. CASE A = {} /\ v = Never
  BY <1>2, <1>4 DEF Instants, LastOf
<1>5. CASE \E x : LastOf(A, x) /\ v = x.at
  BY <1>2, <1>3, <1>5 DEF Instants
<1>6. QED
  BY <1>4, <1>5 DEF Holds

\* Which reports fix a position does not depend on what comes later.
LEMMA FixesGrow ==
    ASSUME NEW F, F \subseteq Frames, NEW f \in Frames, \A g \in F : g.seq < f.seq
    PROVE  Fixes(F \cup {f}) = Fixes(F) \cup (IF Fixing(F \cup {f}, f) THEN {f} ELSE {})
<1> DEFINE G == F \cup {f}
<1>1. \A g \in F : g.seq \in Nat /\ f.seq \in Nat /\ ~(f.seq <= g.seq) /\ f # g
  BY DEF Frames
<1>2. \A g \in F, odd \in BOOLEAN : UpTo(Halves(G, odd), g) = UpTo(Halves(F, odd), g)
  BY <1>1 DEF UpTo, Halves
<1>3. \A g \in F : Fixing(G, g) <=> Fixing(F, g)
  BY <1>2 DEF Fixing
<1>4. QED
  BY <1>1, <1>3 DEF Fixes

\* accumulatePosition: altitude, one half, and a fix when the halves pair.
LEMMA PositionIsSummarized ==
    ASSUME NEW F, Numbered(F), NEW track, Summarizes(track, F), NEW f \in Frames,
           \A g \in F : g.seq < f.seq, f.kind = "position"
    PROVE  Summarizes(AccumulatePosition(track, f), F \cup {f})
<1> DEFINE G == F \cup {f}
           half == IF f.odd THEN "odd" ELSE "even"
           seen == [track EXCEPT ![half] = f.at, !.altitude = f.at]
           t == AccumulatePosition(track, f)
<1>1. /\ track \in TrackRecords
      /\ Holds(track.identity, OfKind(F, "identification"))
      /\ Holds(track.altitude, OfKind(F, "position"))
      /\ Holds(track.velocity, OfKind(F, "velocity"))
      /\ Holds(track.even, Halves(F, FALSE))
      /\ Holds(track.odd, Halves(F, TRUE))
      /\ Holds(track.position, Fixes(F))
  BY DEF Summarizes
<1>2. /\ F \subseteq Frames /\ f.at \in Nat /\ f.odd \in BOOLEAN /\ f.at \in Instants
      /\ f \notin F
  <2>1. F \subseteq Frames /\ f.at \in Nat /\ f.odd \in BOOLEAN /\ f.seq \in Nat
    BY DEF Numbered, Frames
  <2>2. f \notin F
    BY <2>1
  <2>3. QED
    BY <2>1, <2>2 DEF Instants
<1>3. Numbered(G)
  <2>1. \A g \in F : g.seq \in Nat /\ g.seq # f.seq
    BY <1>2 DEF Frames
  <2>2. QED
    BY <1>2, <2>1 DEF Numbered
<1>4. /\ seen \in TrackRecords
      /\ seen.identity = track.identity /\ seen.velocity = track.velocity
      /\ seen.position = track.position /\ seen.altitude = f.at
      /\ seen.even = IF f.odd THEN track.even ELSE f.at
      /\ seen.odd = IF f.odd THEN f.at ELSE track.odd
  <2>1. CASE f.odd
    BY <1>1, <1>2, <2>1, Zenon DEF TrackRecords
  <2>2. CASE ~f.odd
    BY <1>1, <1>2, <2>2, Zenon DEF TrackRecords
  <2>3. QED
    BY <2>1, <2>2, Zenon
<1>5. /\ t = IF Pairs(f.ord, seen.even, seen.odd, f.at) THEN [seen EXCEPT !.position = f.at]
             ELSE seen
  BY DEF AccumulatePosition
<1> HIDE DEF seen, t
<1>6. /\ t \in TrackRecords
      /\ t.identity = seen.identity /\ t.velocity = seen.velocity
      /\ t.altitude = seen.altitude /\ t.even = seen.even /\ t.odd = seen.odd
      /\ t.position = IF Pairs(f.ord, seen.even, seen.odd, f.at) THEN f.at ELSE track.position
  <2>1. CASE Pairs(f.ord, seen.even, seen.odd, f.at)
    BY <1>2, <1>4, <1>5, <2>1 DEF TrackRecords
  <2>2. CASE ~Pairs(f.ord, seen.even, seen.odd, f.at)
    BY <1>4, <1>5, <2>2
  <2>3. QED
    BY <2>1, <2>2
<1>7. /\ OfKind(G, "identification") = OfKind(F, "identification")
      /\ OfKind(G, "velocity") = OfKind(F, "velocity")
      /\ OfKind(G, "position") = OfKind(F, "position") \cup {f}
      /\ f.odd => /\ Halves(G, TRUE) = Halves(F, TRUE) \cup {f}
                  /\ Halves(G, FALSE) = Halves(F, FALSE)
      /\ ~f.odd => /\ Halves(G, FALSE) = Halves(F, FALSE) \cup {f}
                   /\ Halves(G, TRUE) = Halves(F, TRUE)
  BY <1>2 DEF OfKind, Halves
<1>8. Holds(f.at, OfKind(F, "position") \cup {f})
  <2>1. OfKind(F, "position") \subseteq F
    BY DEF OfKind
  <2>2. QED
    BY <1>2, <2>1, NewestIsHeld
<1>9. \A odd \in BOOLEAN : Holds(f.at, Halves(F, odd) \cup {f})
  <2>1. \A odd \in BOOLEAN : Halves(F, odd) \subseteq F
    BY DEF Halves
  <2>2. QED
    BY <1>2, <2>1, NewestIsHeld
<1>10. Holds(t.even, Halves(G, FALSE)) /\ Holds(t.odd, Halves(G, TRUE))
  BY <1>1, <1>2, <1>4, <1>6, <1>7, <1>9
<1>11. \A odd \in BOOLEAN : UpTo(Halves(G, odd), f) = Halves(G, odd) /\ Numbered(Halves(G, odd))
  <2>1. \A g \in G : g.seq <= f.seq
    <3>1. f.seq \in Nat /\ \A g \in F : g.seq \in Nat
      BY <1>2 DEF Frames
    <3>2. QED
      BY <3>1
  <2>2. QED
    BY <1>3, <2>1 DEF UpTo, Halves, Numbered
<1>12. Fixing(G, f) <=> Pairs(f.ord, t.even, t.odd, f.at)
  <2>1. Fixing(G, f) <=> \E e, o : /\ LastOf(Halves(G, FALSE), e)
                                   /\ LastOf(Halves(G, TRUE), o)
                                   /\ Pairs(f.ord, e.at, o.at, f.at)
    BY <1>11 DEF Fixing
  <2>2. Pairs(f.ord, t.even, t.odd, f.at) => t.even # Never /\ t.odd # Never
    BY DEF Pairs
  <2>3. /\ t.even # Never => \E e : LastOf(Halves(G, FALSE), e) /\ t.even = e.at
        /\ \A e : LastOf(Halves(G, FALSE), e) => t.even = e.at
    BY <1>10, <1>11, HeldIsLast
  <2>4. /\ t.odd # Never => \E o : LastOf(Halves(G, TRUE), o) /\ t.odd = o.at
        /\ \A o : LastOf(Halves(G, TRUE), o) => t.odd = o.at
    BY <1>10, <1>11, HeldIsLast
  <2>5. QED
    BY <2>1, <2>2, <2>3, <2>4
<1>13. Holds(t.position, Fixes(G))
  <2>1. Fixes(G) = Fixes(F) \cup (IF Fixing(G, f) THEN {f} ELSE {})
    BY <1>2, FixesGrow
  <2>2. Holds(f.at, Fixes(F) \cup {f})
    <3>1. Fixes(F) \subseteq F
      BY DEF Fixes
    <3>2. QED
      BY <1>2, <3>1, NewestIsHeld
  <2>3. CASE Fixing(G, f)
    <3>1. t.position = f.at /\ Fixes(G) = Fixes(F) \cup {f}
      BY <1>6, <1>12, <2>1, <2>3
    <3>2. QED
      BY <2>2, <3>1
  <2>4. CASE ~Fixing(G, f)
    <3>1. t.position = track.position /\ Fixes(G) = Fixes(F)
      BY <1>6, <1>12, <2>1, <2>4
    <3>2. QED
      BY <1>1, <3>1
  <2>5. QED
    BY <2>3, <2>4
<1>14. Summarizes(t, G)
  <2>1. /\ Holds(t.identity, OfKind(G, "identification"))
        /\ Holds(t.altitude, OfKind(G, "position"))
        /\ Holds(t.velocity, OfKind(G, "velocity"))
    BY <1>1, <1>4, <1>6, <1>7, <1>8
  <2>2. QED
    BY <1>6, <1>10, <1>13, <2>1 DEF Summarizes
<1>15. QED
  BY <1>14 DEF t

\* accumulate: every kind of transmission.
LEMMA OneMoreIsSummarized ==
    ASSUME NEW F, Numbered(F), NEW track, Summarizes(track, F), NEW f \in Frames,
           \A g \in F : g.seq < f.seq
    PROVE  Summarizes(Accumulate(track, f), F \cup {f})
<1> DEFINE G == F \cup {f}
           t == Accumulate(track, f)
<1>1. /\ track \in TrackRecords
      /\ Holds(track.identity, OfKind(F, "identification"))
      /\ Holds(track.altitude, OfKind(F, "position"))
      /\ Holds(track.velocity, OfKind(F, "velocity"))
      /\ Holds(track.even, Halves(F, FALSE))
      /\ Holds(track.odd, Halves(F, TRUE))
      /\ Holds(track.position, Fixes(F))
  BY DEF Summarizes
<1>2. /\ F \subseteq Frames /\ f.at \in Instants
      /\ f.kind \in {"identification", "position", "velocity"}
  <2>1. f.kind \in Kinds /\ f.at \in Nat
    BY DEF Frames
  <2>2. Kinds = {"identification", "position", "velocity"}
    BY ThreeFamilies DEF Kinds, Families
  <2>3. QED
    BY <2>1, <2>2 DEF Numbered, Instants
<1>3. CASE f.kind = "position"
  <2>1. t = AccumulatePosition(track, f)
    BY <1>3 DEF Accumulate
  <2>2. QED
    BY <1>3, <2>1, PositionIsSummarized
<1>4. ASSUME f.kind # "position"
      PROVE  /\ OfKind(G, "position") = OfKind(F, "position")
             /\ Halves(G, FALSE) = Halves(F, FALSE) /\ Halves(G, TRUE) = Halves(F, TRUE)
             /\ Fixes(G) = Fixes(F)
  <2>1. Fixes(G) = Fixes(F)
    <3>1. ~Fixing(G, f)
      BY <1>4 DEF Fixing
    <3>2. QED
      BY <1>2, <3>1, FixesGrow
  <2>2. QED
    BY <1>4, <2>1 DEF OfKind, Halves
<1>5. \A kind : Holds(f.at, OfKind(F, kind) \cup {f})
  <2>1. \A kind : OfKind(F, kind) \subseteq F
    BY DEF OfKind
  <2>2. QED
    BY <1>2, <2>1, NewestIsHeld
<1>6. CASE f.kind = "identification"
  <2>1. t = [track EXCEPT !.identity = f.at]
    BY <1>6 DEF Accumulate
  <2> HIDE DEF t
  <2>2. /\ t \in TrackRecords
        /\ t.identity = f.at /\ t.altitude = track.altitude /\ t.velocity = track.velocity
        /\ t.even = track.even /\ t.odd = track.odd /\ t.position = track.position
    BY <1>1, <1>2, <2>1 DEF TrackRecords
  <2>3. /\ OfKind(G, "identification") = OfKind(F, "identification") \cup {f}
        /\ OfKind(G, "velocity") = OfKind(F, "velocity")
    BY <1>6 DEF OfKind
  <2>4. Summarizes(t, G)
    BY <1>1, <1>4, <1>5, <1>6, <2>2, <2>3 DEF Summarizes
  <2>5. QED
    BY <2>4 DEF t
<1>7. CASE f.kind = "velocity"
  <2>1. t = [track EXCEPT !.velocity = f.at]
    BY <1>7 DEF Accumulate
  <2> HIDE DEF t
  <2>2. /\ t \in TrackRecords
        /\ t.velocity = f.at /\ t.altitude = track.altitude /\ t.identity = track.identity
        /\ t.even = track.even /\ t.odd = track.odd /\ t.position = track.position
    BY <1>1, <1>2, <2>1 DEF TrackRecords
  <2>3. /\ OfKind(G, "velocity") = OfKind(F, "velocity") \cup {f}
        /\ OfKind(G, "identification") = OfKind(F, "identification")
    BY <1>7 DEF OfKind
  <2>4. Summarizes(t, G)
    BY <1>1, <1>4, <1>5, <1>7, <2>2, <2>3 DEF Summarizes
  <2>5. QED
    BY <2>4 DEF t
<1>8. QED
  BY <1>2, <1>3, <1>6, <1>7

OfAircraft(F, ord) == {f \in F : f.ord = ord}

\* decodeSnapshot: the track of one aircraft, made from its transmissions in order.
LEMMA DecodingSummarizes ==
    ASSUME NEW F, F \subseteq Frames, NEW n \in Nat, NEW order \in [1 .. n -> F], NEW ord,
           \A i, j \in 1 .. n : i < j => order[i].seq < order[j].seq,
           \A f \in F : \E i \in 1 .. n : order[i] = f
    PROVE  Summarizes(Decoding(order, ord)[n], OfAircraft(F, ord))
<1> DEFINE e == Decoding(order, ord)
           First(m) == {order[i] : i \in {k \in 1 .. m : order[k].ord = ord}}
           S == {m \in Nat : m <= n => Summarizes(e[m], First(m))}
<1>1. e[0] = NoTrack /\ \A m \in Nat : e[m + 1] = AccumulateFor(ord, e[m], order[m + 1])
  BY DecodingIterates
<1> HIDE DEF e
<1>2. \A i \in 1 .. n : order[i] \in Frames /\ order[i].seq \in Nat
  BY DEF Frames
<1>3. 0 \in S
  <2>1. First(0) = {}
    OBVIOUS
  <2> HIDE DEF First
  <2>2. \A v, A : v = Never /\ A = {} => Holds(v, A)
    BY DEF Holds
  <2>3. NoTrack \in TrackRecords
        /\ NoTrack.identity = Never /\ NoTrack.altitude = Never /\ NoTrack.velocity = Never
        /\ NoTrack.even = Never /\ NoTrack.odd = Never /\ NoTrack.position = Never
    BY DEF NoTrack, TrackRecords, Instants
  <2>4. /\ OfKind({}, "identification") = {} /\ OfKind({}, "position") = {}
        /\ OfKind({}, "velocity") = {} /\ Halves({}, FALSE) = {} /\ Halves({}, TRUE) = {}
        /\ Fixes({}) = {}
    BY DEF OfKind, Halves, Fixes
  <2>5. Summarizes(NoTrack, {})
    BY <2>2, <2>3, <2>4, Zenon DEF Summarizes
  <2>6. QED
    BY <1>1, <2>1, <2>5
<1>4. ASSUME NEW m \in Nat, m \in S
      PROVE  m + 1 \in S
  <2>1. SUFFICES ASSUME m + 1 <= n PROVE Summarizes(e[m + 1], First(m + 1))
    OBVIOUS
  <2>2. Summarizes(e[m], First(m))
    BY <1>4, <2>1
  <2>3. PICK f : f = order[m + 1]
    OBVIOUS
  <2>4. m + 1 \in 1 .. n /\ f \in Frames
    BY <1>2, <2>1, <2>3
  <2>5. First(m) \subseteq Frames /\ \A g \in First(m) : g.seq < f.seq
    BY <1>2, <2>1, <2>3, <2>4
  <2>6. Numbered(First(m))
    <3>1. ASSUME NEW i \in 1 .. m, NEW j \in 1 .. m, order[i].seq = order[j].seq
          PROVE  order[i] = order[j]
      <4>1. i \in 1 .. n /\ j \in 1 .. n
        BY <2>1
      <4>2. i < j \/ j < i \/ i = j
        OBVIOUS
      <4>3. QED
        BY <1>2, <3>1, <4>1, <4>2
    <3>2. QED
      BY <2>5, <3>1 DEF Numbered
  <2>7. First(m + 1) = IF f.ord = ord THEN First(m) \cup {f} ELSE First(m)
    <3>1. 1 .. m + 1 = (1 .. m) \cup {m + 1}
      OBVIOUS
    <3>2. QED
      BY <2>3, <3>1
  <2>8. e[m + 1] = AccumulateFor(ord, e[m], f)
    BY <1>1, <2>3
  <2> HIDE DEF First
  <2>9. CASE f.ord = ord
    BY <2>2, <2>4, <2>5, <2>6, <2>7, <2>8, <2>9, OneMoreIsSummarized DEF AccumulateFor
  <2>10. CASE f.ord # ord
    BY <2>2, <2>7, <2>8, <2>10 DEF AccumulateFor
  <2>11. QED
    BY <2>9, <2>10
<1> HIDE DEF S
<1>5. Nat \subseteq S
  BY <1>3, <1>4, EveryNumber
<1>6. Summarizes(e[n], First(n))
  <2>1. n \in S /\ n <= n
    BY <1>5
  <2> HIDE DEF First
  <2>2. QED
    BY <2>1 DEF S
<1>7. First(n) = OfAircraft(F, ord)
  BY DEF OfAircraft
<1>8. QED
  BY <1>6, <1>7 DEF e

\* What one station retains, before and after: what was evicted is what was sent
\* first, and what is new was sent later than all that was there.
Supersedes(F, G) ==
    /\ \A f \in F \cap G, g \in F : f.seq <= g.seq => g \in G
    /\ \A f \in F, g \in G \ F : f.seq < g.seq /\ f.at <= g.at

\* The last of some reports is not received earlier than the last of their like
\* was before.
LEMMA LastNeverGoesBack ==
    ASSUME NEW F, Numbered(F), NEW G, Numbered(G), Supersedes(F, G),
           NEW A, A \subseteq F, NEW B, B \subseteq G, B \cap F \subseteq A,
           \A x \in A \cap G, y \in B \cap F : y.seq <= x.seq => x \in B,
           NEW v, Holds(v, A), NEW w, Holds(w, B)
    PROVE  v \in Instants /\ w \in Instants /\ (w # Never => w >= v)
<1>1. Numbered(A) /\ Numbered(B)
  BY DEF Numbered
<1>2. v \in Instants /\ w \in Instants
  BY <1>1, HeldIsLast
<1>3. ASSUME w # Never, v # Never
      PROVE  w >= v
  <2>1. PICK x : LastOf(A, x) /\ v = x.at
    BY <1>1, <1>3, HeldIsLast
  <2>2. PICK y : LastOf(B, y) /\ w = y.at
    BY <1>1, <1>3, HeldIsLast
  <2>3. x \in A /\ y \in B /\ x \in F /\ y \in G
    BY <2>1, <2>2 DEF LastOf
  <2>4. x.at \in Nat /\ y.at \in Nat /\ x.seq \in Nat /\ y.seq \in Nat
    BY <2>3 DEF Numbered, Frames
  <2>5. CASE y \notin F
    BY <2>1, <2>2, <2>3, <2>4, <2>5 DEF Supersedes
  <2>6. CASE y \in F
    <3>1. y \in A /\ y.seq <= x.seq
      BY <2>1, <2>3, <2>6 DEF LastOf
    <3>2. x \in G
      BY <2>3, <2>6, <3>1 DEF Supersedes
    <3>3. x \in B
      BY <2>3, <2>6, <3>1, <3>2
    <3>4. x.seq <= y.seq
      BY <2>2, <3>3 DEF LastOf
    <3>5. x = y
      BY <2>3, <2>4, <2>6, <3>1, <3>4 DEF Numbered
    <3>6. QED
      BY <2>1, <2>2, <2>4, <3>5
  <2>7. QED
    BY <2>5, <2>6
<1>4. w # Never /\ v = Never => w >= v
  BY <1>2 DEF Instants, Never
<1>5. QED
  BY <1>2, <1>3, <1>4

\* A fix that is still retained was one before, and a fix that follows one of
\* those is still one: its halves are no older.
LEMMA FixesStay ==
    ASSUME NEW F, Numbered(F), NEW G, Numbered(G), Supersedes(F, G)
    PROVE  /\ Fixes(G) \cap F \subseteq Fixes(F)
           /\ \A x \in Fixes(F) \cap G, y \in Fixes(G) \cap F : y.seq <= x.seq => x \in Fixes(G)
<1>1. \A f \in F \cup G : f.seq \in Nat
  BY DEF Numbered, Frames
<1>2. ASSUME NEW odd \in BOOLEAN, NEW y \in F \cap G, NEW h,
             LastOf(UpTo(Halves(G, odd), y), h)
      PROVE  h \in F \cap G /\ LastOf(UpTo(Halves(F, odd), y), h)
  <2>1. h \in G /\ h.kind = "position" /\ h.odd = odd /\ h.seq <= y.seq
    BY <1>2 DEF LastOf, UpTo, Halves
  <2>2. h \in F
    <3>1. h \notin F => y.seq < h.seq
      BY <2>1 DEF Supersedes
    <3>2. QED
      BY <1>1, <2>1, <3>1
  <2>3. h \in UpTo(Halves(F, odd), y)
    BY <2>1, <2>2 DEF UpTo, Halves
  <2>4. ASSUME NEW g \in UpTo(Halves(F, odd), y)
        PROVE  g.seq <= h.seq
    <3>1. g \in F /\ g.kind = "position" /\ g.odd = odd /\ g.seq <= y.seq
      BY DEF UpTo, Halves
    <3>2. CASE g.seq <= h.seq
      BY <3>2
    <3>3. CASE h.seq <= g.seq
      <4>1. g \in G
        BY <2>1, <2>2, <3>1, <3>3 DEF Supersedes
      <4>2. g \in UpTo(Halves(G, odd), y)
        BY <3>1, <4>1 DEF UpTo, Halves
      <4>3. QED
        BY <1>2, <4>2 DEF LastOf
    <3>4. QED
      BY <1>1, <2>2, <3>1, <3>2, <3>3
  <2>5. QED
    BY <2>1, <2>2, <2>3, <2>4 DEF LastOf
<1>3. ASSUME NEW y \in Fixes(G) \cap F
      PROVE  y \in Fixes(F)
  <2>1. y \in G /\ y \in F /\ y.kind = "position"
    BY DEF Fixes, Fixing
  <2>2. PICK e, o : /\ LastOf(UpTo(Halves(G, FALSE), y), e)
                    /\ LastOf(UpTo(Halves(G, TRUE), y), o)
                    /\ Pairs(y.ord, e.at, o.at, y.at)
    BY DEF Fixes, Fixing
  <2>3. LastOf(UpTo(Halves(F, FALSE), y), e) /\ LastOf(UpTo(Halves(F, TRUE), y), o)
    BY <1>2, <2>1, <2>2
  <2>4. QED
    BY <2>1, <2>2, <2>3 DEF Fixes, Fixing
<1>4. ASSUME NEW x \in F \cap G, NEW y \in F \cap G, y.seq <= x.seq, NEW odd \in BOOLEAN,
             NEW h, LastOf(UpTo(Halves(F, odd), x), h),
             NEW k, LastOf(UpTo(Halves(G, odd), y), k)
      PROVE  LastOf(UpTo(Halves(G, odd), x), h)
  <2>1. h \in F /\ h.kind = "position" /\ h.odd = odd /\ h.seq <= x.seq
    BY <1>4 DEF LastOf, UpTo, Halves
  <2>2. k \in F \cap G /\ k \in UpTo(Halves(F, odd), y)
    BY <1>2, <1>4 DEF LastOf
  <2>3. k.seq <= h.seq
    <3>1. k.seq <= x.seq
      <4>1. k.seq <= y.seq
        BY <2>2 DEF UpTo
      <4>2. QED
        BY <1>1, <1>4, <2>2, <4>1
    <3>2. k \in UpTo(Halves(F, odd), x)
      BY <2>2, <3>1 DEF UpTo
    <3>3. QED
      BY <1>4, <3>2 DEF LastOf
  <2>4. h \in G
    BY <2>1, <2>2, <2>3 DEF Supersedes
  <2>5. h \in UpTo(Halves(G, odd), x)
    BY <2>1, <2>4 DEF UpTo, Halves
  <2>6. ASSUME NEW g \in UpTo(Halves(G, odd), x)
        PROVE  g.seq <= h.seq
    <3>1. g \in G /\ g.kind = "position" /\ g.odd = odd /\ g.seq <= x.seq
      BY DEF UpTo, Halves
    <3>2. g \in F
      <4>1. g \notin F => x.seq < g.seq
        BY <3>1 DEF Supersedes
      <4>2. QED
        BY <1>1, <3>1, <4>1
    <3>3. g \in UpTo(Halves(F, odd), x)
      BY <3>1, <3>2 DEF UpTo, Halves
    <3>4. QED
      BY <1>4, <3>3 DEF LastOf
  <2>7. QED
    BY <2>5, <2>6 DEF LastOf
<1>5. ASSUME NEW x \in Fixes(F) \cap G, NEW y \in Fixes(G) \cap F, y.seq <= x.seq
      PROVE  x \in Fixes(G)
  <2>1. x \in F /\ x \in G /\ y \in F /\ y \in G /\ x.kind = "position"
    BY DEF Fixes, Fixing
  <2>2. PICK e, o : /\ LastOf(UpTo(Halves(F, FALSE), x), e)
                    /\ LastOf(UpTo(Halves(F, TRUE), x), o)
                    /\ Pairs(x.ord, e.at, o.at, x.at)
    BY DEF Fixes, Fixing
  <2>3. PICK d, p : /\ LastOf(UpTo(Halves(G, FALSE), y), d)
                    /\ LastOf(UpTo(Halves(G, TRUE), y), p)
    BY DEF Fixes, Fixing
  <2>4. LastOf(UpTo(Halves(G, FALSE), x), e) /\ LastOf(UpTo(Halves(G, TRUE), x), o)
    BY <1>4, <1>5, <2>1, <2>2, <2>3
  <2>5. QED
    BY <2>1, <2>2, <2>4 DEF Fixes, Fixing
<1>6. QED
  BY <1>3, <1>5

\* What a track says of an aircraft never goes back.
LEMMA TracksNeverGoBack ==
    ASSUME NEW F, Numbered(F), NEW G, Numbered(G), Supersedes(F, G),
           NEW t, Summarizes(t, F), NEW u, Summarizes(u, G)
    PROVE  \A field \in Fields :
              /\ t[field] \in Instants /\ u[field] \in Instants
              /\ u[field] # Never => u[field] >= t[field]
<1> DEFINE Goes(v, w) == v \in Instants /\ w \in Instants /\ (w # Never => w >= v)
<1>1. ASSUME NEW kind
      PROVE  /\ OfKind(F, kind) \subseteq F /\ OfKind(G, kind) \subseteq G
             /\ OfKind(G, kind) \cap F \subseteq OfKind(F, kind)
             /\ \A x \in OfKind(F, kind) \cap G : x \in OfKind(G, kind)
  BY DEF OfKind
<1>2. ASSUME NEW kind, NEW v, Holds(v, OfKind(F, kind)), NEW w, Holds(w, OfKind(G, kind))
      PROVE  Goes(v, w)
  BY <1>1, <1>2, LastNeverGoesBack
<1>3. Goes(t.identity, u.identity) /\ Goes(t.altitude, u.altitude) /\ Goes(t.velocity, u.velocity)
  <2> HIDE DEF Goes
  <2>1. QED
    BY <1>2 DEF Summarizes
<1>4. Goes(t.position, u.position)
  <2>1. Fixes(F) \subseteq F /\ Fixes(G) \subseteq G
    BY DEF Fixes
  <2>2. Holds(t.position, Fixes(F)) /\ Holds(u.position, Fixes(G))
    BY DEF Summarizes
  <2>3. QED
    BY <2>1, <2>2, FixesStay, LastNeverGoesBack
<1>5. QED
  BY <1>3, <1>4 DEF Fields

-------------------------------------------------------------------------------
(***************************************************************************)
(* The snapshot of one station and its track.                              *)
(***************************************************************************)

\* f lists the elements of F, a set of transmissions, in order.
Lists(f, F) ==
    /\ f \in [1 .. Cardinality(F) -> F]
    /\ \A i, j \in DOMAIN f : i < j => f[i].seq < f[j].seq

\* Only one transmission of a ring has a number, and they are as many as receptions.
LEMMA RetainedAreListed ==
    ASSUME NEW st \in Stations, NEW sent, Listened(st, sent)
    PROVE  /\ Numbered(CopiesOf(st))
           /\ IsFiniteSet(CopiesOf(st)) /\ Cardinality(CopiesOf(st)) \in Nat
           /\ \E f : Lists(f, CopiesOf(st))
<1> DEFINE ring == st.ring
           n == Len(ring)
           F == CopiesOf(st)
           f == [i \in 1 .. n |-> ring[i].frame]
<1>1. ring \in Seq(Heard) /\ n \in Nat /\ DOMAIN ring = 1 .. n
  <2>1. ring \in Seq(Heard)
    BY DEF Stations
  <2>2. QED
    BY <2>1
<1>2. \A i \in 1 .. n : ring[i].frame \in Frames /\ ring[i].frame.seq \in Nat
  BY <1>1, RingTypes
<1>3. \A i, j \in 1 .. n : i < j => ring[i].frame.seq < ring[j].frame.seq
  BY <1>1 DEF Listened
<1>4. F = {ring[i].frame : i \in 1 .. n}
  BY <1>1 DEF CopiesOf
<1> HIDE DEF ring, n, F
<1>5. f \in [1 .. n -> F] /\ \A i \in 1 .. n : f[i] = ring[i].frame
  BY <1>4
<1> HIDE DEF f
<1>6. \A i, j \in 1 .. n : f[i].seq = f[j].seq => i = j
  <2>1. \A i, j \in 1 .. n : i = j \/ i < j \/ j < i
    BY <1>1
  <2>2. \A a, b \in Nat : a < b => a # b
    OBVIOUS
  <2>3. QED
    BY <1>2, <1>3, <1>5, <2>1, <2>2
<1>7. \A i, j \in 1 .. n : f[i] = f[j] => i = j
  BY <1>6
<1>8. \A g \in F : \E i \in 1 .. n : f[i] = g
  BY <1>4, <1>5
<1>9. f \in Bijection(1 .. n, F)
  BY <1>5, <1>7, <1>8 DEF Bijection, Injection, Surjection, IsInjective
<1>10. Cardinality(F) = n /\ IsFiniteSet(F)
  <2>1. ExistsBijection(1 .. n, F)
    BY <1>9 DEF ExistsBijection
  <2>2. Cardinality(F) = n
    BY <1>1, <2>1, FS_CountingElements
  <2>3. f \in Surjection(1 .. n, F) /\ IsFiniteSet(1 .. n)
    BY <1>1, <1>9, FS_Interval DEF Bijection
  <2>4. QED
    BY <2>2, <2>3, FS_Surjection
<1>11. Lists(f, F)
  BY <1>2, <1>3, <1>5, <1>10 DEF Lists
<1>12. Numbered(F)
  <2>1. F \subseteq Frames
    BY <1>2, <1>4
  <2>2. \A g, h \in F : g.seq = h.seq => g = h
    BY <1>6, <1>8
  <2>3. QED
    BY <2>1, <2>2 DEF Numbered
<1>13. QED
  BY <1>1, <1>10, <1>11, <1>12 DEF F

\* A list leaves nothing out.
LEMMA ListsAll ==
    ASSUME NEW F, F \subseteq Frames, IsFiniteSet(F), Cardinality(F) \in Nat, NEW f, Lists(f, F)
    PROVE  \A g \in F : \E i \in 1 .. Cardinality(F) : f[i] = g
<1> DEFINE n == Cardinality(F)
<1>1. f \in [1 .. n -> F] /\ \A i, j \in 1 .. n : i < j => f[i].seq < f[j].seq
  BY DEF Lists
<1>2. \A i \in 1 .. n : f[i].seq \in Nat
  <2>1. \A i \in 1 .. n : f[i] \in Frames
    BY <1>1
  <2>2. QED
    BY <2>1 DEF Frames
<1>3. \A i, j \in 1 .. n : f[i] = f[j] => i = j
  <2> HIDE DEF n
  <2>1. n \in Nat
    BY DEF n
  <2>2. \A i, j \in 1 .. n : i = j \/ i < j \/ j < i
    BY <2>1
  <2>3. \A a, b \in Nat : a < b => a # b
    OBVIOUS
  <2>4. QED
    BY <1>1, <1>2, <2>2, <2>3
<1>4. f \in Injection(1 .. n, F)
  BY <1>1, <1>3 DEF Injection, IsInjective
<1>5. Cardinality(1 .. n) = n
  <2> HIDE DEF n
  <2>1. n \in Nat
    BY DEF n
  <2>2. QED
    BY <2>1, FS_Interval
<1>6. f \in Surjection(1 .. n, F)
  BY <1>4, <1>5, FS_Injection
<1>7. QED
  BY <1>6 DEF Surjection

\* groupEvidence: the receptions of one station, one transmission after the other.
LEMMA OneStationIsGrouped ==
    ASSUME NEW s \in States, Kept(s), NEW id \in ActiveIds(s), NEW st, st = s.active[Find(s, id)]
    PROVE  /\ st \in Stations /\ Listened(st, s.lastSequence)
           /\ Lists(Grouped(Snapshot(s, {id})), CopiesOf(st))
<1> DEFINE snap == Snapshot(s, {id})
           frames == {r.frame : r \in RecordsOf(snap)}
           InOrder(order) == \A i, j \in DOMAIN order : i < j => order[i].seq < order[j].seq
           all == [1 .. Cardinality(frames) -> frames]
<1>1. Find(s, id) \in DOMAIN s.active
  BY FindFacts
<1>2. st \in Stations /\ Listened(st, s.lastSequence)
  <2>1. s.active \in Seq(Stations)
    BY DEF States
  <2>2. QED
    BY <1>1, <2>1 DEF Kept
<1>3. st.ring \in Seq(Heard) /\ ByTransmission(st.ring) = st.ring
  <2>1. st.ring \in Seq(Heard)
    BY <1>2 DEF Stations
  <2>2. \A i, j \in DOMAIN st.ring : i < j => st.ring[i].frame.seq < st.ring[j].frame.seq
    BY <1>2 DEF Listened
  <2>3. QED
    BY <2>1, <2>2, SortedStays
<1>4. snap.records = [x \in {id} |-> ByTransmission(s.active[Find(s, x)].ring)]
  BY DEF Snapshot
<1> HIDE DEF snap
<1>5. RecordsOf(snap) = ToSet(st.ring)
  <2>1. DOMAIN snap.records = {id} /\ snap.records[id] = st.ring
    BY <1>3, <1>4
  <2>2. QED
    BY <2>1 DEF RecordsOf
<1>6. frames = CopiesOf(st)
  BY <1>5 DEF ToSet, CopiesOf
<1>7. Grouped(snap) = CHOOSE order \in all : InOrder(order)
  BY Zenon DEF Grouped
<1> HIDE DEF frames
<1>8. \E order \in all : InOrder(order)
  <2>1. PICK f : Lists(f, CopiesOf(st))
    BY <1>2, RetainedAreListed
  <2>2. f \in all /\ InOrder(f)
    BY <1>6, <2>1 DEF Lists
  <2>3. QED
    BY <2>2
<1>9. Grouped(snap) \in all /\ InOrder(Grouped(snap))
  <2> HIDE DEF all, InOrder
  <2>1. QED
    BY <1>7, <1>8
<1>10. Lists(Grouped(snap), CopiesOf(st))
  BY <1>6, <1>9 DEF Lists
<1>11. QED
  BY <1>2, <1>10 DEF snap

\* decodeSnapshot: what the display makes of one station's receptions.
LEMMA TrackSummarizes ==
    ASSUME NEW s \in States, Kept(s), NEW id \in ActiveIds(s), NEW ord
    PROVE  Summarizes(Track(Snapshot(s, {id}), ord), OfAircraft(CopiesOf(s.active[Find(s, id)]), ord))
<1>1. PICK st : st = s.active[Find(s, id)]
  OBVIOUS
<1>2. PICK order : order = Grouped(Snapshot(s, {id}))
  OBVIOUS
<1>3. PICK F : F = CopiesOf(st)
  OBVIOUS
<1>4. st \in Stations /\ Listened(st, s.lastSequence) /\ Lists(order, F)
  BY <1>1, <1>2, <1>3, OneStationIsGrouped
<1>5. F \subseteq Frames /\ IsFiniteSet(F) /\ Cardinality(F) \in Nat
  BY <1>3, <1>4, RetainedAreListed DEF Numbered
<1>6. PICK n \in Nat : n = Cardinality(F)
  BY <1>5
<1>7. order \in [1 .. n -> F] /\ \A i, j \in 1 .. n : i < j => order[i].seq < order[j].seq
  BY <1>4, <1>6 DEF Lists
<1>8. \A f \in F : \E i \in 1 .. n : order[i] = f
  BY <1>4, <1>5, <1>6, ListsAll
<1>9. Summarizes(Decoding(order, ord)[n], OfAircraft(F, ord))
  <2>1. F \subseteq Frames /\ order \in [1 .. n -> F]
    BY <1>5, <1>7
  <2>2. \A i, j \in 1 .. n : i < j => order[i].seq < order[j].seq
    BY <1>7
  <2>3. QED
    BY <1>8, <2>1, <2>2, DecodingSummarizes
<1>10. Len(order) = n
  <2>1. order \in Seq(F)
    BY <1>7
  <2>2. DOMAIN order = 1 .. n
    BY <1>7
  <2>3. QED
    BY <2>1, <2>2
<1>11. Track(Snapshot(s, {id}), ord) = Decoding(order, ord)[n]
  BY <1>2, <1>10, Zenon DEF Track
<1>12. QED
  BY <1>1, <1>3, <1>9, <1>11

-------------------------------------------------------------------------------
(***************************************************************************)
(* What a station retains as the engine goes on.                           *)
(***************************************************************************)

\* history.append: what is evicted is what came first.
LEMMA RetainSuffix ==
    ASSUME NEW S, NEW ring \in Seq(S), NEW x \in S, NEW limit \in Nat \ {0},
           NEW r, r = Retain(ring, x, limit)
    PROVE  \A j \in DOMAIN ring : j # 1 => \E i \in DOMAIN r : r[i] = ring[j]
<1>1. CASE Len(ring) < limit
  <2>1. /\ DOMAIN Append(ring, x) = 1 .. Len(ring) + 1 /\ DOMAIN ring = 1 .. Len(ring)
        /\ Len(ring) \in Nat
        /\ \A i \in 1 .. Len(ring) : Append(ring, x)[i] = ring[i]
    BY AppendProperties
  <2>2. r = Append(ring, x)
    BY <1>1 DEF Retain
  <2>3. \A j \in DOMAIN ring : j \in DOMAIN r /\ r[j] = ring[j]
    BY <2>1, <2>2
  <2>4. QED
    BY <2>3
<1>2. CASE ~(Len(ring) < limit)
  <2>0. ring # <<>> /\ Len(ring) \in Nat /\ DOMAIN ring = 1 .. Len(ring)
    BY <1>2
  <2>1. /\ Tail(ring) \in Seq(S)
        /\ Len(Tail(ring)) = Len(ring) - 1
        /\ \A i \in 1 .. Len(ring) - 1 : Tail(ring)[i] = ring[i + 1]
    BY <2>0, HeadTailProperties
  <2>2. /\ DOMAIN Append(Tail(ring), x) = 1 .. Len(Tail(ring)) + 1
        /\ \A i \in 1 .. Len(Tail(ring)) : Append(Tail(ring), x)[i] = Tail(ring)[i]
    BY <2>1, AppendProperties
  <2>3. r = Append(Tail(ring), x)
    BY <1>2 DEF Retain
  <2>4. \A j \in 2 .. Len(ring) : j - 1 \in DOMAIN r /\ r[j - 1] = ring[j]
    <3>1. \A i \in 1 .. Len(ring) - 1 : i \in DOMAIN r /\ r[i] = ring[i + 1]
      BY <2>0, <2>1, <2>2, <2>3
    <3>2. \A j \in 2 .. Len(ring) : j - 1 \in 1 .. Len(ring) - 1 /\ (j - 1) + 1 = j
      BY <2>0
    <3>3. QED
      BY <3>1, <3>2
  <2>5. \A j \in DOMAIN ring : j # 1 => j \in 2 .. Len(ring)
    BY <2>0
  <2>6. QED
    BY <2>4, <2>5
<1>3. QED
  BY <1>1, <1>2

\* A newer transmission supersedes nothing but the oldest ones.
LEMMA OneMoreSupersedes ==
    ASSUME NEW F, F \subseteq Frames, NEW G, G \subseteq Frames, Supersedes(F, G),
           NEW frame \in Frames, \A g \in F \cup G : g.seq < frame.seq,
           \A f \in F : f.at <= frame.at,
           NEW H, H \subseteq G \cup {frame},
           \A g \in H \cap G, x \in G : g.seq <= x.seq => x \in H
    PROVE  Supersedes(F, H)
<1>1. frame \notin F /\ frame \notin G
  <2>1. frame.seq \in Nat
    BY DEF Frames
  <2>2. ~(frame.seq < frame.seq)
    BY <2>1
  <2>3. QED
    BY <2>2
<1>2. \A f \in F \cap H, g \in F : f.seq <= g.seq => g \in H
  BY <1>1 DEF Supersedes
<1>3. \A f \in F, h \in H \ F : f.seq < h.seq /\ f.at <= h.at
  BY DEF Supersedes
<1>4. QED
  BY <1>2, <1>3 DEF Supersedes

\* The same receptions.
LEMMA NothingSupersedes == \A F : Supersedes(F, F)
BY DEF Supersedes

\* deliver: one station, whatever it retained before.
LEMMA ReceiveSupersedes ==
    ASSUME NEW st \in Stations, NEW sent \in Nat, Listened(st, sent), NEW frame \in Frames,
           sent < frame.seq,
           NEW F, F \subseteq Frames, Supersedes(F, CopiesOf(st)),
           \A f \in F : f.seq < frame.seq /\ f.at <= frame.at
    PROVE  Supersedes(F, CopiesOf(Receive(st, frame)))
<1> DEFINE drawn == [st EXCEPT !.draws = @ + 1]
           G == CopiesOf(st)
<1>1. CASE ~Hears(st, frame)
  BY <1>1 DEF Receive
<1>2. CASE Hears(st, frame) /\ Loses(st)
  <2>1. Receive(st, frame) = drawn
    BY <1>2 DEF Receive
  <2>2. drawn.ring = st.ring
    BY DEF Stations
  <2>3. QED
    BY <2>1, <2>2 DEF CopiesOf
<1>3. CASE Hears(st, frame) /\ ~Loses(st)
  <2> DEFINE x == Reception(st, frame)
             ring == Retain(st.ring, x, ReceptionHistoryLimit)
             last == st.last + 1
  <2>1. Receive(st, frame) = [drawn EXCEPT !.last = last, !.ring = ring]
    BY <1>3 DEF Receive, Stations
  <2>2. x \in Heard /\ st.ring \in Seq(Heard)
    BY DEF Reception, Heard, Stations
  <2>3. x.frame = frame
    BY DEF Reception
  <2>4. PICK old : old = st.ring
    OBVIOUS
  <2> HIDE DEF x
  <2>5. /\ \A i \in DOMAIN ring : ring[i] = x \/ \E j \in DOMAIN old : ring[i] = old[j]
        /\ \A j \in DOMAIN old : j # 1 => \E i \in DOMAIN ring : ring[i] = old[j]
    <3>1. ring = Retain(old, x, ReceptionHistoryLimit) /\ old \in Seq(Heard)
      BY <2>2, <2>4
    <3> HIDE DEF ring
    <3>2. ReceptionHistoryLimit \in Nat \ {0}
      BY EngineLimits
    <3>3. QED
      BY <2>2, <3>1, <3>2, RetainOrigin, RetainSuffix
  <2> HIDE DEF ring, last
  <2>6. Receive(st, frame).ring = ring
    BY <2>1 DEF Stations
  <2> DEFINE H == CopiesOf(Receive(st, frame))
  <2>7. H = {ring[i].frame : i \in DOMAIN ring} /\ G = {old[j].frame : j \in DOMAIN old}
    BY <2>4, <2>6 DEF CopiesOf
  <2> HIDE DEF H, G
  <2>8. H \subseteq G \cup {frame}
    BY <2>3, <2>5, <2>7
  <2>9. /\ old \in Seq(Heard)
        /\ \A i, j \in DOMAIN old : i < j => old[i].frame.seq < old[j].frame.seq
        /\ \A i \in DOMAIN old : old[i].frame.seq <= sent
    BY <2>2, <2>4 DEF Listened
  <2>10. \A i \in DOMAIN old : i \in Nat /\ i >= 1 /\ old[i].frame \in Frames /\ old[i].frame.seq \in Nat
    BY <2>9, RingTypes
  <2>11. G \subseteq Frames /\ \A g \in G : g.seq < frame.seq
    <3>1. frame.seq \in Nat
      BY DEF Frames
    <3>2. \A i \in DOMAIN old : old[i].frame.seq < frame.seq
      BY <2>9, <2>10, <3>1
    <3>3. QED
      BY <2>7, <2>10, <3>2
  <2>12. ASSUME NEW g \in H \cap G, NEW y \in G, g.seq <= y.seq
         PROVE  y \in H
    <3>1. PICK j \in DOMAIN old : y = old[j].frame
      BY <2>7
    <3>2. CASE j # 1
      BY <2>5, <2>7, <3>1, <3>2
    <3>3. CASE j = 1
      <4>1. PICK i \in DOMAIN ring : g = ring[i].frame
        BY <2>7
      <4>2. ring[i] # x
        <5>1. frame.seq \in Nat /\ ~(frame.seq < frame.seq)
          BY DEF Frames
        <5>2. QED
          BY <2>3, <2>11, <4>1, <5>1
      <4>3. PICK k \in DOMAIN old : ring[i] = old[k]
        BY <2>5, <4>2
      <4>4. k = 1 \/ 1 < k
        BY <2>10
      <4>5. ~(1 < k)
        <5>1. 1 < k => y.seq < g.seq
          BY <2>9, <3>1, <3>3, <4>1, <4>3
        <5>2. y.seq \in Nat /\ g.seq \in Nat
          BY <2>10, <3>1, <4>1, <4>3
        <5>3. QED
          BY <2>12, <5>1, <5>2
      <4>6. QED
        BY <3>1, <3>3, <4>1, <4>3, <4>4, <4>5
    <3>4. QED
      BY <3>2, <3>3
  <2>13. Supersedes(F, G)
    BY DEF G
  <2>14. Supersedes(F, H)
    BY <2>8, <2>11, <2>12, <2>13, OneMoreSupersedes
  <2>15. QED
    BY <2>14 DEF H
<1>4. QED
  BY <1>1, <1>2, <1>3

\* t is what s may become by reports alone: the same stations, and each retains
\* the newest of what it retained and what it received since.
Follows(s, t) ==
    /\ s.lastSequence <= t.lastSequence
    /\ StationsStay(s, t)
    /\ \A i \in DOMAIN s.active : Supersedes(CopiesOf(s.active[i]), CopiesOf(t.active[i]))

\* record and deliver: one report more, no earlier than what was received.
LEMMA RecordFollows ==
    ASSUME NEW s \in States, Kept(s), NEW now \in Nat, AllPlausible(s, now),
           NEW u \in States, Kept(u), Follows(s, u),
           NEW ord \in Nat, NEW kind \in Kinds, NEW odd \in BOOLEAN, NEW at \in Nat, now <= at,
           NEW t, t = Record(u, ord, kind, odd, at)
    PROVE  Follows(s, t)
<1> DEFINE frame == Transmission(u, ord, kind, odd, at)
<1>1. frame \in Frames /\ t.lastSequence = u.lastSequence + 1
  BY RecordEffect
<1>2. frame.seq = u.lastSequence + 1 /\ frame.at = at
  BY DEF Transmission
<1>3. /\ DOMAIN t.active = DOMAIN u.active
      /\ \A i \in DOMAIN u.active : t.active[i] = Receive(u.active[i], frame)
  BY RecordDelivers
<1>4. StationsStay(u, t)
  BY RecordKeepsNames
<1> HIDE DEF frame
<1>5. /\ s.lastSequence \in Nat /\ u.lastSequence \in Nat
      /\ s.active \in Seq(Stations) /\ u.active \in Seq(Stations)
  BY DEF States
<1>6. s.lastSequence <= u.lastSequence /\ StationsStay(s, u)
  BY DEF Follows
<1>7. s.lastSequence < frame.seq /\ u.lastSequence < frame.seq /\ s.lastSequence <= t.lastSequence
  BY <1>1, <1>2, <1>5, <1>6
<1>8. StationsStay(s, t)
  BY <1>4, <1>6 DEF StationsStay
<1>9. ASSUME NEW i \in DOMAIN s.active
      PROVE  Supersedes(CopiesOf(s.active[i]), CopiesOf(t.active[i]))
  <2>1. i \in DOMAIN u.active
    BY <1>6 DEF StationsStay
  <2>2. PICK st : st = u.active[i]
    OBVIOUS
  <2>3. PICK old : old = s.active[i]
    OBVIOUS
  <2>4. st \in Stations /\ old \in Stations
    BY <1>5, <2>1, <2>2, <2>3
  <2>5. Listened(st, u.lastSequence) /\ Listened(old, s.lastSequence) /\ Plausible(old, now)
    BY <2>1, <2>2, <2>3 DEF Kept, AllPlausible
  <2>6. Supersedes(CopiesOf(old), CopiesOf(st))
    BY <2>2, <2>3 DEF Follows
  <2>7. ASSUME NEW f \in CopiesOf(old)
        PROVE  f \in Frames /\ f.seq < frame.seq /\ f.at <= frame.at
    <3>1. PICK j \in DOMAIN old.ring : f = old.ring[j].frame
      BY DEF CopiesOf
    <3>2. old.ring \in Seq(Heard)
      BY <2>4 DEF Stations
    <3>3. f \in Frames /\ f.seq \in Nat /\ f.at \in Nat
      BY <3>1, <3>2, RingTypes
    <3>4. f.seq <= s.lastSequence
      BY <2>5, <3>1 DEF Listened
    <3>5. f.at <= now
      BY <2>5, <3>1 DEF Plausible
    <3>6. f.seq < frame.seq
      BY <1>2, <1>5, <1>6, <3>3, <3>4
    <3>7. f.at <= frame.at
      BY <1>2, <3>3, <3>5
    <3>8. QED
      BY <3>3, <3>6, <3>7
  <2>8. PICK F : F = CopiesOf(old)
    OBVIOUS
  <2>9. F \subseteq Frames /\ \A f \in F : f.seq < frame.seq /\ f.at <= frame.at
    BY <2>7, <2>8
  <2>10. Supersedes(F, CopiesOf(Receive(st, frame)))
    BY <1>1, <1>5, <1>7, <2>4, <2>5, <2>6, <2>8, <2>9, ReceiveSupersedes
  <2>11. QED
    BY <1>3, <2>1, <2>2, <2>3, <2>8, <2>10
<1>10. QED
  BY <1>7, <1>8, <1>9 DEF Follows

\* A state with the same stations and the same numbers.
LEMMA SameFollows ==
    ASSUME NEW s, NEW u, Follows(s, u), NEW t, t.active = u.active,
           s.lastSequence <= t.lastSequence
    PROVE  Follows(s, t)
BY DEF Follows, StationsStay

LEMMA ItselfFollows ==
    ASSUME NEW s \in States
    PROVE  Follows(s, s)
<1>1. s.lastSequence \in Nat
  BY DEF States
<1>2. s.lastSequence <= s.lastSequence
  BY <1>1
<1>3. QED
  BY <1>2, NothingSupersedes DEF Follows, StationsStay

\* addAircraft: three reports more, at the instant everything was received by.
LEMMA CreationFollows ==
    ASSUME NEW s \in States, Kept(s), AllPlausible(s, s.elapsed),
           NEW u \in States, Kept(u), Follows(s, u), u.elapsed = s.elapsed,
           TransmissionsSound(u, u.elapsed), NEW t, Created(u, t)
    PROVE  Follows(s, t)
<1> DEFINE ord == u.nextAddress
           at  == u.elapsed
           a   == Record(u, ord, Families[1], FALSE, at)
           b   == Record(a, ord, Families[2], FALSE, at)
           c   == Record(b, ord, Families[3], FALSE, at)
<1>1. /\ 1 \in DOMAIN Families /\ 2 \in DOMAIN Families /\ 3 \in DOMAIN Families
      /\ Families[1] \in Kinds /\ Families[2] \in Kinds /\ Families[3] \in Kinds
      /\ FALSE \in BOOLEAN
  BY ThreeFamilies DEF Kinds
<1>2. /\ a \in States /\ b \in States /\ c \in States /\ ord \in Nat /\ at \in Nat
      /\ t.active = c.active /\ t.lastSequence = u.lastSequence + 3
  BY DEF Created
<1>3. at <= at /\ s.elapsed = at
  BY <1>2
<1>4. a.elapsed = at /\ TransmissionsSound(a, a.elapsed) /\ Kept(a)
  BY <1>1, <1>2, CreationReport, ReportKept
<1>5. Follows(s, a)
  <2> HIDE DEF ord, at
  <2>1. QED
    BY <1>1, <1>2, <1>3, RecordFollows
<1>6. Kept(b)
  <2> HIDE DEF ord, a
  <2>1. b = Record(a, ord, Families[2], FALSE, a.elapsed)
    BY <1>4
  <2> HIDE DEF b
  <2>2. QED
    BY <1>1, <1>2, <1>4, <2>1, ReportKept
<1>7. Follows(s, b)
  <2> HIDE DEF ord, at, a
  <2>1. QED
    BY <1>1, <1>2, <1>3, <1>4, <1>5, RecordFollows
<1>8. Follows(s, c)
  <2> HIDE DEF ord, at, a, b
  <2>1. QED
    BY <1>1, <1>2, <1>3, <1>6, <1>7, RecordFollows
<1>9. s.lastSequence <= t.lastSequence
  <2>1. s.lastSequence \in Nat /\ u.lastSequence \in Nat /\ s.lastSequence <= u.lastSequence
    BY DEF Follows, States
  <2>2. QED
    BY <1>2, <2>1
<1> HIDE DEF c
<1>10. QED
  BY <1>2, <1>8, <1>9, SameFollows

\* What a reader may find of a station it knows: it retains the newest of what it
\* retained and what it received since.
Progress(s, t) ==
    \A j \in DOMAIN t.active :
        t.active[j].id \in ActiveIds(s) =>
            \E i \in DOMAIN s.active :
                /\ s.active[i].id = t.active[j].id
                /\ Supersedes(CopiesOf(s.active[i]), CopiesOf(t.active[j]))

LEMMA SameProgress ==
    ASSUME NEW s, NEW t, t.active = s.active
    PROVE  Progress(s, t)
BY NothingSupersedes DEF Progress

LEMMA FollowsProgress ==
    ASSUME NEW s, NEW u, Follows(s, u), NEW t, t.active = u.active
    PROVE  Progress(s, t)
BY DEF Progress, Follows, StationsStay

\* A mutation that emits nothing: nothing is known of a new station, the others keep
\* their receptions.
LEMMA MutatedProgress ==
    ASSUME NEW s \in States, Registered(s), NEW t, Mutated(s, t)
    PROVE  Progress(s, t)
<1>1. PICK from : Restationed(s, t, from)
  BY DEF Mutated
<1>2. \A id \in ActiveIds(s) : id \in s.reserved
  BY DEF ActiveIds, Registered
<1>3. ASSUME NEW j \in DOMAIN t.active, t.active[j].id \in ActiveIds(s)
      PROVE  /\ from[j] \in DOMAIN s.active /\ s.active[from[j]].id = t.active[j].id
             /\ CopiesOf(t.active[j]) = CopiesOf(s.active[from[j]])
  BY <1>1, <1>2, <1>3 DEF Restationed, Continues, Fresh, CopiesOf
<1>4. QED
  BY <1>3, NothingSupersedes DEF Progress

\* What readers see was received by the committed instant, what the clone holds by
\* the horizon, and the clone is what was committed after some reports.
Shown ==
    /\ AllPlausible(state, state.elapsed)
    /\ AllPlausible(staged, Horizon)
    /\ Follows(state, staged)

LEMMA ShownNext ==
    ASSUME NEW s, state' = s, NEW u, staged' = u, NEW now, Horizon' = now,
           AllPlausible(s, s.elapsed), AllPlausible(u, now), Follows(s, u)
    PROVE  Shown'
<1>1. AllPlausible(state, state.elapsed)' /\ AllPlausible(staged, Horizon)'
  BY DEF AllPlausible, Plausible
<1>2. Follows(state, staged)'
  BY DEF Follows, StationsStay, Supersedes, CopiesOf
<1>3. QED
  BY <1>1, <1>2 DEF Shown

\* A commit shows what it commits.
LEMMA CommitShows ==
    ASSUME NEW u \in States, Commit(u), AllPlausible(u, u.elapsed), Progress(state, u)
    PROVE  Shown' /\ Progress(state, state')
<1>1. state' = u /\ staged' = u /\ Horizon' = u.elapsed
  BY DEF Commit, Horizon
<1>2. Follows(u, u)
  BY ItselfFollows
<1>3. Shown'
  BY <1>1, <1>2, ShownNext
<1>4. QED
  BY <1>1, <1>3

\* runTo's loop and addAircraft's loop.
LEMMA CloneShows ==
    ASSUME IInv, Shown, Fire \/ Create
    PROVE  Shown' /\ state' = state
<1>1. /\ TypeOK /\ Cloned /\ state \in States /\ staged \in States
      /\ Kept(state) /\ Kept(staged) /\ staged.elapsed = state.elapsed
      /\ state.elapsed \in Nat
  BY DEF IInv, LogInv, TypeOK, Cloned, States
<1>2. TransmissionsSound(staged, Horizon) /\ Scheduled(staged, Horizon)
  BY <1>1 DEF Cloned, ClonedLogInOrder
<1>3. /\ AllPlausible(state, state.elapsed) /\ AllPlausible(staged, Horizon)
      /\ Follows(state, staged)
  BY DEF Shown
<1>4. CASE Fire
  <2>1. /\ Horizon = target.elapsed /\ Horizon' = Horizon /\ target.elapsed \in Nat
        /\ state' = state
    BY <1>1, <1>4 DEF Fire, Horizon, TypeOK
  <2>2. PICK e \in Due(staged, target.elapsed) : staged' = Emit(staged, e)
    BY <1>4 DEF Fire
  <2>3. PICK u : u = staged'
    OBVIOUS
  <2>4. /\ e[1] \in DOMAIN staged.fleet
        /\ e[2] \in DOMAIN Families
        /\ staged.fleet[e[1]].due[e[2]] \in Nat
        /\ staged.fleet[e[1]].due[e[2]] <= target.elapsed
    BY <1>1, <2>1, DueFacts
  <2>5. /\ staged.fleet[e[1]].draws[e[2]] \in 0 .. MaxDuration
        /\ staged.fleet[e[1]].due[e[2]] > staged.elapsed
    BY <1>2, <2>4, EngineLimits DEF Scheduled
  <2>6. Fired(staged, e, u)
    BY <1>1, <2>1, <2>2, <2>3, <2>5, EmitFires
  <2> DEFINE craft == staged.fleet[e[1]]
             kind == Families[e[2]]
             odd == kind = "position" /\ craft.odd
             at == craft.due[e[2]]
             sent == Record(staged, craft.ord, kind, odd, at)
  <2>7. /\ kind \in Kinds /\ odd \in BOOLEAN /\ craft.ord \in Nat /\ at \in Nat
        /\ u.active = sent.active /\ u.lastSequence = staged.lastSequence + 1
    BY <2>6, Zenon DEF Fired
  <2>8. at <= target.elapsed /\ state.elapsed <= at
    BY <1>1, <2>4, <2>5
  <2> HIDE DEF kind, odd, craft, at
  <2>9. AllPlausible(sent, target.elapsed)
    BY <1>1, <1>3, <2>1, <2>7, <2>8, RecordStaysPlausible
  <2>10. Follows(state, sent)
    BY <1>1, <1>3, <2>7, <2>8, RecordFollows
  <2>11. state.lastSequence <= u.lastSequence
    <3>1. /\ state.lastSequence \in Nat /\ staged.lastSequence \in Nat
          /\ state.lastSequence <= staged.lastSequence
      BY <1>1, <1>3 DEF Follows, States
    <3>2. QED
      BY <2>7, <3>1
  <2> HIDE DEF sent
  <2>12. AllPlausible(u, target.elapsed) /\ Follows(state, u)
    BY <2>7, <2>9, <2>10, <2>11, SameFollows DEF AllPlausible
  <2>13. QED
    BY <1>3, <2>1, <2>3, <2>12, ShownNext
<1>5. CASE Create
  <2>1. Horizon = staged.elapsed /\ Horizon' = staged'.elapsed /\ state' = state
    BY <1>5 DEF Create, Horizon
  <2>2. staged.nextAddress \in 1 .. MaxAddress
    <3>1. staged.nextAddress \in Nat
      BY <1>1 DEF States
    <3>2. QED
      BY <1>1, <1>5, <3>1, EngineLimits DEF Cloned, Allocated, Create
  <2>3. PICK u : u = AddAircraft(staged)
    OBVIOUS
  <2>4. staged' = u
    BY <1>5, <2>3 DEF Create
  <2>5. Created(staged, u)
    BY <1>1, <2>2, <2>3, AddAircraftCreates
  <2>6. AllPlausible(u, u.elapsed)
    BY <1>1, <1>3, <2>1, <2>5, AdditionStaysPlausible
  <2>7. Follows(state, u)
    BY <1>1, <1>2, <1>3, <2>1, <2>5, CreationFollows
  <2>8. QED
    BY <1>3, <2>1, <2>4, <2>6, <2>7, ShownNext
<1>6. QED
  BY <1>4, <1>5

\* Every step of the engine keeps what is shown.
LEMMA NextShows ==
    IInv /\ IInv' /\ Shown /\ [Next]_vars => Shown' /\ Progress(state, state')
<1> SUFFICES ASSUME IInv, IInv', Shown, [Next]_vars PROVE Shown' /\ Progress(state, state')
  OBVIOUS
<1>1. /\ TypeOK /\ TypeOK' /\ Cloned /\ Cloned' /\ state \in States /\ staged \in States
      /\ Kept(state) /\ state.elapsed \in Nat
      /\ mode = "idle" => staged = state
  BY DEF IInv, LogInv, TypeOK, Underway, States
<1>2. /\ AllPlausible(state, state.elapsed) /\ AllPlausible(staged, Horizon)
      /\ Follows(state, staged)
  BY DEF Shown
<1>3. ASSUME state' = state PROVE Progress(state, state')
  BY <1>3, SameProgress
<1>4. ASSUME mode = "idle", UNCHANGED <<state, staged>>
      PROVE  Shown' /\ Progress(state, state')
  <2>1. Horizon = staged.elapsed /\ Horizon \in Nat
    BY <1>1, <1>4 DEF Horizon
  <2>2. Horizon' \in Nat
    <3>1. target'.elapsed \in Nat /\ staged'.elapsed \in Nat
      BY <1>1, <1>4 DEF TypeOK
    <3>2. QED
      BY <3>1 DEF Horizon
  <2>3. staged.elapsed <= Horizon'
    BY <1>1, <1>4 DEF Cloned
  <2>4. PICK now : now = Horizon'
    OBVIOUS
  <2>5. AllPlausible(staged, now)
    BY <1>1, <1>2, <2>1, <2>2, <2>3, <2>4, LaterIsPlausible
  <2>6. Shown'
    BY <1>2, <1>4, <2>4, <2>5, ShownNext
  <2>7. QED
    BY <1>3, <1>4, <2>6
<1>5. CASE Begins
  BY <1>4, <1>5, BeginsQuietly
<1>6. CASE Fire \/ Create
  BY <1>3, <1>6, CloneShows
<1>7. CASE CommitRun
  <2>1. PICK u : Commit(u) /\ Arrived(staged, target.elapsed, target.carry, u)
    BY <1>1, <1>7, CommitRunArrives
  <2>2. u \in States /\ u.active = staged.active /\ u.elapsed = Horizon
    BY <1>7, <2>1 DEF Arrived, SameRegistry, CommitRun, Horizon
  <2>3. AllPlausible(u, u.elapsed)
    BY <1>2, <2>2 DEF AllPlausible
  <2>4. Progress(state, u)
    BY <1>2, <2>2, FollowsProgress
  <2>5. QED
    BY <2>1, <2>2, <2>3, <2>4, CommitShows
<1>8. CASE CommitGrow
  <2>1. Commit(staged) /\ Horizon = staged.elapsed
    BY <1>8 DEF CommitGrow, Horizon
  <2>2. Progress(state, staged)
    BY <1>2, FollowsProgress
  <2>3. QED
    BY <1>1, <1>2, <2>1, <2>2, CommitShows
<1>9. CASE Abort
  <2>1. Commit(state) /\ Progress(state, state)
    BY <1>9, SameProgress DEF Abort
  <2>2. QED
    BY <1>1, <1>2, <2>1, CommitShows
<1>10. CASE Mutates
  <2>1. PICK u : Commit(u) /\ Mutated(state, u)
    BY <1>10 DEF Mutates, AtOnce
  <2>2. u \in States
    BY <2>1 DEF Mutated, SameLog
  <2>3. AllPlausible(u, u.elapsed)
    BY <1>1, <1>2, <2>1, MutatedStaysPlausible
  <2>4. Progress(state, u)
    BY <1>1, <2>1, MutatedProgress DEF Kept
  <2>5. QED
    BY <2>1, <2>2, <2>3, <2>4, CommitShows
<1>11. CASE UNCHANGED vars
  <2>1. state' = state /\ staged' = staged /\ Horizon' = Horizon
    BY <1>11 DEF vars, Horizon
  <2>2. Shown'
    BY <1>2, <2>1, ShownNext
  <2>3. QED
    BY <1>3, <2>1, <2>2
<1>12. QED
  BY <1>1, <1>5, <1>6, <1>7, <1>8, <1>9, <1>10, <1>11, StepCases

\* One aircraft's part of what is retained.
LEMMA PartSupersedes ==
    ASSUME NEW F, Numbered(F), NEW G, Numbered(G), Supersedes(F, G), NEW ord
    PROVE  /\ Numbered(OfAircraft(F, ord)) /\ Numbered(OfAircraft(G, ord))
           /\ Supersedes(OfAircraft(F, ord), OfAircraft(G, ord))
<1>1. Numbered(OfAircraft(F, ord)) /\ Numbered(OfAircraft(G, ord))
  BY DEF Numbered, OfAircraft
<1>2. Supersedes(OfAircraft(F, ord), OfAircraft(G, ord))
  BY DEF Supersedes, OfAircraft
<1>3. QED
  BY <1>1, <1>2

\* registry.find: identifiers are told apart.
LEMMA FoundOnce ==
    ASSUME NEW s \in States, Registered(s), NEW id \in ActiveIds(s)
    PROVE  /\ Find(s, id) \in DOMAIN s.active /\ s.active[Find(s, id)].id = id
           /\ \A i \in DOMAIN s.active : s.active[i].id = id => i = Find(s, id)
<1> DEFINE n == Find(s, id)
<1>1. n \in DOMAIN s.active /\ s.active[n].id = id
  BY DEF ActiveIds, Find
<1> HIDE DEF n
<1>2. DOMAIN s.active \subseteq Nat
  BY DEF States
<1>3. \A i \in DOMAIN s.active : s.active[i].id = id => ~(i < n) /\ ~(n < i)
  BY <1>1 DEF Registered
<1>4. \A i \in DOMAIN s.active : s.active[i].id = id => i = n
  BY <1>1, <1>2, <1>3
<1>5. QED
  BY <1>1, <1>4 DEF n

\* A reader that finds progress finds no field that went back.
LEMMA ProgressNeverGoesBack ==
    ASSUME NEW s \in States, Kept(s), NEW t \in States, Kept(t), Progress(s, t),
           NEW id \in ActiveIds(s) \cap ActiveIds(t), NEW ord,
           NEW before, before = Observed(Snapshot(s, {id}), ord),
           NEW after, after = Observed(Snapshot(t, {id}), ord)
    PROVE  \A field \in Fields : after[field] # Never => after[field] >= before[field]
<1>1. PICK old : old = s.active[Find(s, id)]
  OBVIOUS
<1>2. PICK new : new = t.active[Find(t, id)]
  OBVIOUS
<1>3. Supersedes(CopiesOf(old), CopiesOf(new))
  <2>1. /\ Find(t, id) \in DOMAIN t.active /\ t.active[Find(t, id)].id = id
        /\ \A i \in DOMAIN s.active : s.active[i].id = id => i = Find(s, id)
    BY FoundOnce DEF Kept
  <2>2. PICK i \in DOMAIN s.active : /\ s.active[i].id = id
                                     /\ Supersedes(CopiesOf(s.active[i]), CopiesOf(new))
    BY <1>2, <2>1 DEF Progress
  <2>3. QED
    BY <1>1, <2>1, <2>2
<1>4. old \in Stations /\ Listened(old, s.lastSequence)
  BY <1>1, OneStationIsGrouped
<1>5. new \in Stations /\ Listened(new, t.lastSequence)
  BY <1>2, OneStationIsGrouped
<1>6. Numbered(CopiesOf(old)) /\ Numbered(CopiesOf(new))
  BY <1>4, <1>5, RetainedAreListed
<1>7. PICK F : F = OfAircraft(CopiesOf(old), ord)
  OBVIOUS
<1>8. PICK G : G = OfAircraft(CopiesOf(new), ord)
  OBVIOUS
<1>9. Numbered(F) /\ Numbered(G) /\ Supersedes(F, G)
  BY <1>3, <1>6, <1>7, <1>8, PartSupersedes
<1>10. PICK snap : snap = Snapshot(s, {id})
  OBVIOUS
<1>11. PICK later : later = Snapshot(t, {id})
  OBVIOUS
<1>12. PICK a : a = Track(snap, ord)
  OBVIOUS
<1>13. PICK b : b = Track(later, ord)
  OBVIOUS
<1>14. Summarizes(a, F) /\ Summarizes(b, G)
  BY <1>1, <1>2, <1>7, <1>8, <1>10, <1>11, <1>12, <1>13, TrackSummarizes
<1>15. \A field \in Fields : /\ a[field] \in Instants /\ b[field] \in Instants
                             /\ b[field] # Never => b[field] >= a[field]
  BY <1>9, <1>14, TracksNeverGoBack
<1>16. \A field \in Fields : before[field] = a[field] \/ before[field] = Never
  BY <1>10, <1>12 DEF Observed
<1>17. \A field \in Fields : after[field] = b[field] \/ after[field] = Never
  BY <1>11, <1>13 DEF Observed
<1>18. \A v \in Instants : v >= Never
  BY DEF Instants, Never
<1>19. ASSUME NEW field \in Fields, after[field] # Never
       PROVE  after[field] >= before[field]
  <2>1. after[field] = b[field] /\ b[field] \in Instants /\ b[field] >= a[field]
    BY <1>15, <1>17, <1>19
  <2>2. QED
    BY <1>16, <1>18, <2>1
<1>20. QED
  BY <1>19

\* history.append and decodeSnapshot: whatever is evicted, lost, edited, aborted or
\* committed, what the display makes of one station never reverts to something
\* received earlier.
THEOREM DisplayNeverGoesBack == Spec => NeverGoesBack
<1>1. Init => Shown
  <2> SUFFICES ASSUME Init PROVE Shown
    OBVIOUS
  <2>1. IInv
    BY InitLogInv, InitKept, InitAlternates DEF IInv, Init, Underway
  <2>2. PICK speed \in Speeds : state = Empty(speed)
    BY DEF Init
  <2>3. staged = state /\ DOMAIN state.active = {}
    BY <2>2 DEF Init, Empty
  <2>4. state \in States
    BY <2>1 DEF IInv, LogInv, TypeOK
  <2>5. QED
    BY <2>3, <2>4, ItselfFollows DEF Shown, AllPlausible
<1>2. IInv /\ IInv' /\ Shown /\ [Next]_vars => Shown'
  BY NextShows
<1>3. IInv /\ IInv' /\ Shown /\ [Next]_vars =>
         [\A id \in ActiveIds(state) \cap ActiveIds(state'), ord \in 1 .. MaxAddress :
            LET before == Observed(Snapshot(state, {id}), ord)
                after  == Observed(Snapshot(state', {id}), ord)
            IN  \A field \in Fields : after[field] # Never => after[field] >= before[field]]_state
  <2> SUFFICES ASSUME IInv, IInv', Shown, [Next]_vars,
                      NEW id \in ActiveIds(state) \cap ActiveIds(state'), NEW ord \in 1 .. MaxAddress
               PROVE  LET before == Observed(Snapshot(state, {id}), ord)
                          after  == Observed(Snapshot(state', {id}), ord)
                      IN  \A field \in Fields :
                             after[field] # Never => after[field] >= before[field]
    OBVIOUS
  <2>1. Progress(state, state')
    BY NextShows
  <2>2. state \in States /\ Kept(state)
    BY DEF IInv, LogInv, TypeOK
  <2>3. state' \in States
    BY DEF IInv, LogInv, TypeOK
  <2>4. Kept(state')
    <3>1. Kept(state)'
      BY DEF IInv
    <3>2. QED
      BY <3>1 DEF Kept, Listened, Registered, Addressed, CopiesAgree, Copies, CopiesOf
  <2>5. QED
    BY <2>1, <2>2, <2>3, <2>4, ProgressNeverGoesBack
<1>4. QED
  BY <1>1, <1>2, <1>3, EngineInvariance, PTL DEF Spec, NeverGoesBack
===============================================================================
