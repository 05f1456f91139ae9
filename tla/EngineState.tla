----------------------------- MODULE EngineState ------------------------------
(***************************************************************************)
(* The state of simulation.Engine and what its operations compute, as      *)
(* operators on state records: engine.go, schedule.go, registry.go,        *)
(* history.go, reception_history.go, clock.go, aircraft.go.                *)
(*                                                                         *)
(* Generators are counted, not computed: a stream is a family, an ordinal  *)
(* and the number of values drawn from it so far, and the constant         *)
(* operators give the value drawn.  Motion, geometry and the link budget   *)
(* are one distance per aircraft and instant.  Frames are not encoded.     *)
(***************************************************************************)
EXTENDS Integers, Sequences, FiniteSets, SequencesExt

CONSTANTS
    StationIds,
    MaxAircraft, MaxStations, MaxAdvance,
    HistoryLimit,           \* transmissions retained
    ReceptionHistoryLimit,  \* receptions retained per station
    MaxBatchFrames,         \* transmissions one mutation may emit
    MaxAddress,             \* the last ICAO address
    MaxElapsed,             \* virtual lifetime planAdvance accepts
    MaxDuration,            \* the largest deadline a duration can hold
    \* Interval(n, k, i): value i of the schedule stream of family k of
    \* aircraft n.  Distance(n, t): from the stations' site to aircraft n at t.
    \* Fraction(n, i): value i of the stream of the station of ordinal n.
    Interval(_, _, _), Distance(_, _), Fraction(_, _),
    Configs,        \* station settings in use
    Durations,      \* virtual durations of Advance
    RealDurations,  \* real durations of Elapse
    Speeds,         \* speeds of SetSpeed
    MaxRevision     \* bound: the largest revision an update creates

\* The elapsed time is itself a duration.
ASSUME EngineLimits ==
    /\ {MaxAircraft, MaxStations, MaxAdvance, MaxBatchFrames, MaxAddress, MaxElapsed,
        MaxDuration} \subseteq Nat
    /\ {HistoryLimit, ReceptionHistoryLimit} \subseteq Nat \ {0}
    /\ MaxElapsed <= MaxDuration

\* Message families in creation and tie-break order.
Families == <<"identification", "position", "velocity">>

Kinds == {Families[k] : k \in DOMAIN Families}

\* intervalBounds: every family's interval is positive.
ASSUME IntervalsArePositive ==
    \A n \in 1 .. MaxAddress, k \in DOMAIN Families, i \in 0 .. MaxDuration :
        Interval(n, k, i) \in Nat \ {0}

\* The observable part of a configuration: whether the station is enabled, how
\* far it hears, and the loss probability its draws are compared with.
Config(enabled, reach, loss) == [enabled |-> enabled, reach |-> reach, loss |-> loss]

Settings == [enabled : BOOLEAN, reach : Nat, loss : Nat]

ASSUME EngineInputs ==
    /\ {Durations, RealDurations, Speeds} \subseteq SUBSET Nat
    /\ Configs \subseteq Settings
    /\ MaxRevision \in Nat \ {0}

\* Transmission, without its encoded frame.
Frames == [seq : Nat, ord : Nat, kind : Kinds, odd : BOOLEAN, at : Nat]

\* Reception, with the receiver's settings at the time.
Heard == [seq : Nat, frame : Frames, rev : Nat, cfg : Settings, created : Nat]

\* aircraft: its ordinal, and for each family its deadline and the values drawn.
Aircraft == [ord   : 1 .. MaxAddress,
             due   : [DOMAIN Families -> Nat],
             draws : [DOMAIN Families -> Nat],
             odd   : BOOLEAN]

Stations == [id : StationIds, cfg : Settings, rev : Nat, created : Nat, ordinal : Nat,
             draws : Nat, last : Nat, ring : Seq(Heard)]

States == [elapsed : Nat, carry : 0 .. 99, speed : Nat, fleet : Seq(Aircraft),
           nextAddress : Nat, lastSequence : Nat, history : Seq(Frames),
           active : Seq(Stations), reserved : SUBSET StationIds, nextStation : Nat]

-------------------------------------------------------------------------------
(***************************************************************************)
(* Rings and receptions.                                                   *)
(***************************************************************************)

\* Mutant: evicts the newest element.
RetainEvictingNewest(ring, x, limit) ==
    IF Len(ring) < limit THEN Append(ring, x) ELSE Append(Front(ring), x)

\* Append to a bounded ring, evicting the oldest element when it is full.
Retain(ring, x, limit) ==
    IF Len(ring) < limit THEN Append(ring, x) ELSE Append(Tail(ring), x)

\* The two deterministic limits: enabled, and in range.
Hears(st, frame) == st.cfg.enabled /\ Distance(frame.ord, frame.at) <= st.cfg.reach

Loses(st) == Fraction(st.ordinal, st.draws) < st.cfg.loss

\* A reception carries the frame and the settings in effect.
Reception(st, frame) ==
    [seq |-> st.last + 1, frame |-> frame, rev |-> st.rev, cfg |-> st.cfg, created |-> st.created]

\* One station evaluates one transmission: it draws exactly one fraction when
\* it hears the frame, and nothing otherwise.
Receive(st, frame) ==
    IF ~Hears(st, frame) THEN st
    ELSE LET drawn == [st EXCEPT !.draws = @ + 1] IN
         IF Loses(st) THEN drawn
         ELSE [drawn EXCEPT !.last = @ + 1,
                            !.ring = Retain(@, Reception(st, frame), ReceptionHistoryLimit)]

Transmission(s, ord, kind, odd, at) ==
    [seq |-> s.lastSequence + 1, ord |-> ord, kind |-> kind, odd |-> odd, at |-> at]

\* Mutant: retains only what some station could hear.
RecordIfListening(s, ord, kind, odd, at) ==
    LET frame == Transmission(s, ord, kind, odd, at) IN
    IF s.active = <<>> THEN s
    ELSE [s EXCEPT !.lastSequence = @ + 1,
                   !.history = Retain(@, frame, HistoryLimit),
                   !.active = [i \in DOMAIN @ |-> Receive(@[i], frame)]]

\* record and deliver: number, retain and hand to every active station.
Record(s, ord, kind, odd, at) ==
    LET frame == Transmission(s, ord, kind, odd, at) IN
    [s EXCEPT !.lastSequence = @ + 1,
              !.history = Retain(@, frame, HistoryLimit),
              !.active = [i \in DOMAIN @ |-> Receive(@[i], frame)]]

-------------------------------------------------------------------------------
(***************************************************************************)
(* Aircraft and their schedules.                                           *)
(***************************************************************************)

\* Mutant: forgets that creation sent the even half.
NewAircraftEven(ord, at) ==
    [ord   |-> ord,
     due   |-> [k \in DOMAIN Families |-> at + Interval(ord, k, 0)],
     draws |-> [k \in DOMAIN Families |-> 1],
     odd   |-> FALSE]

\* newAircraft and scheduleFirst: creation has sent the even half of the
\* position pair, so the first scheduled position is odd.
NewAircraft(ord, at) ==
    [ord   |-> ord,
     due   |-> [k \in DOMAIN Families |-> at + Interval(ord, k, 0)],
     draws |-> [k \in DOMAIN Families |-> 1],
     odd   |-> TRUE]

\* addAircraft for one aircraft: three even creation reports at the committed
\* instant, then the first deadlines.
AddAircraft(s) ==
    LET ord == s.nextAddress
        report(t, k) == Record(t, ord, Families[k], FALSE, s.elapsed)
        reported == report(report(report(s, 1), 2), 3)
    IN  [reported EXCEPT !.nextAddress = @ + 1,
                         !.fleet = Append(@, NewAircraft(ord, s.elapsed))]

\* Emissions due at or before a limit: an index of the fleet and a family.
Due(s, limit) ==
    {e \in (DOMAIN s.fleet) \X (DOMAIN Families) : s.fleet[e[1]].due[e[2]] <= limit}

\* Deadline order, then creation order, then family order.
Precedes(s, e, f) ==
    LET de == s.fleet[e[1]].due[e[2]]
        df == s.fleet[f[1]].due[f[2]]
    IN  \/ de < df
        \/ de = df /\ e[1] < f[1]
        \/ de = df /\ e[1] = f[1] /\ e[2] < f[2]

IsNext(s, limit, e) == \A f \in Due(s, limit) \ {e} : Precedes(s, e, f)

NextEvent(s, limit) == CHOOSE e \in Due(s, limit) : IsNext(s, limit, e)

\* Mutant: draws the same interval again and again.
RescheduleWithoutDraw(craft, k) ==
    [craft EXCEPT !.due[k] = @ + Interval(craft.ord, k, craft.draws[k]),
                  !.odd = IF Families[k] = "position" THEN ~@ ELSE @]

\* rescheduleAfter: from the previous deadline, with one value of the family's
\* own stream; a position report flips the parity of the next one.
Reschedule(craft, k) ==
    [craft EXCEPT !.due[k] = @ + Interval(craft.ord, k, craft.draws[k]),
                  !.draws[k] = @ + 1,
                  !.odd = IF Families[k] = "position" THEN ~@ ELSE @]

\* A deadline that a duration cannot hold fails the whole mutation.
CanReschedule(craft) == \A k \in DOMAIN Families : craft.due[k] <= MaxDuration

\* One iteration of runTo.
Emit(s, e) ==
    LET craft == s.fleet[e[1]]
        kind  == Families[e[2]]
        odd   == kind = "position" /\ craft.odd
        sent  == Record(s, craft.ord, kind, odd, craft.due[e[2]])
    IN  [sent EXCEPT !.fleet[e[1]] = Reschedule(craft, e[2])]

\* runTo's loop: the state after each iteration, the same once nothing is due.
Emissions(s, limit) ==
    LET after[n \in Nat] ==
            IF n = 0 THEN s
            ELSE LET t == after[n - 1] IN
                 IF Due(t, limit) = {} THEN t ELSE Emit(t, NextEvent(t, limit))
    IN  after

\* Everything due, one emission after the other.  One mutation that would emit
\* more than MaxBatchFrames fails, so the loop is followed one step further.
Drain(s, limit) == Emissions(s, limit)[MaxBatchFrames + 1]

-------------------------------------------------------------------------------
(***************************************************************************)
(* The clock.                                                              *)
(***************************************************************************)

Clock(elapsed, carry) == [elapsed |-> elapsed, carry |-> carry]

CanAdvance(s, d) == d <= MaxAdvance /\ s.elapsed + d <= MaxElapsed

PlanAdvance(s, d) == Clock(s.elapsed + d, s.carry)

\* Real time at the current speed: whole ticks are granted, the rest is kept.
Earned(s, real) == real * s.speed + s.carry

CanElapse(s, real) ==
    \/ s.speed = 0
    \/ /\ s.speed > 0
       /\ real <= (MaxAdvance * 100 + 99 - s.carry) \div s.speed
       /\ CanAdvance(s, Earned(s, real) \div 100)

\* Mutant: rounds down.
PlanElapseTruncates(s, real) ==
    IF s.speed = 0 THEN Clock(s.elapsed, s.carry)
    ELSE Clock(s.elapsed + Earned(s, real) \div 100, 0)

PlanElapse(s, real) ==
    IF s.speed = 0 THEN Clock(s.elapsed, s.carry)
    ELSE Clock(s.elapsed + Earned(s, real) \div 100, Earned(s, real) % 100)

-------------------------------------------------------------------------------
(***************************************************************************)
(* Whole mutations.                                                        *)
(***************************************************************************)

\* The clone of runTo: everything due up to the target, then the target clock.
RunTo(s, clock) ==
    [Drain(s, clock.elapsed) EXCEPT !.elapsed = clock.elapsed, !.carry = clock.carry]

\* Neither bound of a mutation is exceeded by what it emitted.
Emittable(s, t) ==
    /\ t.lastSequence - s.lastSequence <= MaxBatchFrames
    /\ \A i \in DOMAIN t.fleet : CanReschedule(t.fleet[i])

\* addAircraft's loop: the state after each aircraft.
Additions(s) ==
    LET after[n \in Nat] == IF n = 0 THEN s ELSE AddAircraft(after[n - 1])
    IN  after

Grow(s, n) == Additions(s)[n]

\* Mutant: gives the addresses back.
ShrinkRecycles(s, n) ==
    [s EXCEPT !.fleet = SubSeq(@, 1, n), !.nextAddress = n + 1]

\* The newest aircraft go first; survivors keep everything.
Shrink(s, n) == [s EXCEPT !.fleet = SubSeq(@, 1, n)]

Resize(s, n) == IF n > Len(s.fleet) THEN Grow(s, n - Len(s.fleet)) ELSE Shrink(s, n)

-------------------------------------------------------------------------------
(***************************************************************************)
(* Stations.                                                               *)
(***************************************************************************)

ActiveIds(s) == {s.active[i].id : i \in DOMAIN s.active}

Find(s, id) == CHOOSE i \in DOMAIN s.active : s.active[i].id = id

CanAddStation(s, id) == id \notin s.reserved /\ Len(s.active) < MaxStations

StationAdded(s, id, cfg) ==
    [s EXCEPT !.active = Append(@, [id |-> id, cfg |-> cfg, rev |-> 1, created |-> s.elapsed,
                                    ordinal |-> s.nextStation, draws |-> 0, last |-> 0,
                                    ring |-> <<>>]),
              !.reserved = @ \cup {id},
              !.nextStation = @ + 1]

\* Both an update and a removal require the revision last observed.
RevisionMatches(s, id, rev) == id \in ActiveIds(s) /\ s.active[Find(s, id)].rev = rev

StationUpdated(s, id, cfg) ==
    LET st == s.active[Find(s, id)] IN
    [s EXCEPT !.active = ReplaceAt(@, Find(s, id), [st EXCEPT !.cfg = cfg, !.rev = st.rev + 1])]

\* The identifier stays reserved; the ring goes with the station.
StationRemoved(s, id) ==
    [s EXCEPT !.active = RemoveAt(@, Find(s, id))]

-------------------------------------------------------------------------------
\* New before its initial aircraft are created.
Empty(speed) ==
    [elapsed |-> 0, carry |-> 0, speed |-> speed, fleet |-> <<>>, nextAddress |-> 1,
     lastSequence |-> 0, history |-> <<>>, active |-> <<>>, reserved |-> {}, nextStation |-> 1]

-------------------------------------------------------------------------------
(***************************************************************************)
(* What is sound about one state.                                          *)
(***************************************************************************)

Least(a, b) == IF a <= b THEN a ELSE b

\* A consumer can rely on sequences: the retained transmissions are the newest
\* ones, without a hole, in the order of their instants, none after a horizon.
TransmissionsSound(s, horizon) ==
    LET h == s.history IN
    /\ Len(h) = Least(s.lastSequence, HistoryLimit)
    /\ \A i \in DOMAIN h : h[i].seq = s.lastSequence - Len(h) + i
    /\ \A i \in DOMAIN h : h[i].at <= horizon
    /\ \A i, j \in DOMAIN h : i < j => h[i].at <= h[j].at

\* Nothing is overdue, and nothing was skipped: the interval that leads to each
\* deadline started at an instant that has been reached.
SchedulesSound(s) ==
    \A i \in DOMAIN s.fleet : \A k \in DOMAIN Families :
        LET craft == s.fleet[i] IN
        /\ craft.due[k] > s.elapsed
        /\ craft.due[k] - Interval(craft.ord, k, craft.draws[k] - 1) <= s.elapsed

Positions(s, ord) ==
    {i \in DOMAIN s.history : s.history[i].kind = "position" /\ s.history[i].ord = ord}

\* Consecutive position reports of one aircraft are the two halves of a CPR
\* pair, across any split of time and any change of count.
ParityAlternates(s) ==
    /\ \A i, j \in DOMAIN s.history :
          LET h == s.history IN
          /\ i < j
          /\ h[i].kind = "position" /\ h[j].kind = "position" /\ h[i].ord = h[j].ord
          /\ \A k \in Positions(s, h[i].ord) : ~(i < k /\ k < j)
          => h[i].odd # h[j].odd
    /\ \A n \in DOMAIN s.fleet : \A i \in Positions(s, s.fleet[n].ord) :
          (\A k \in Positions(s, s.fleet[n].ord) : k <= i) => s.history[i].odd # s.fleet[n].odd

\* Each station numbers what it heard without a hole, retains the newest, heard
\* each transmission at most once, and none from before its creation.
ReceptionsSound(s) ==
    \A n \in DOMAIN s.active :
        LET st == s.active[n]
            ring == st.ring
        IN  /\ Len(ring) = Least(st.last, ReceptionHistoryLimit)
            /\ \A i \in DOMAIN ring : ring[i].seq = st.last - Len(ring) + i
            /\ \A i, j \in DOMAIN ring : i < j => ring[i].frame.seq < ring[j].frame.seq
            /\ \A i \in DOMAIN ring :
                  /\ ring[i].created = st.created
                  /\ ring[i].frame.at >= st.created
                  /\ ring[i].frame.seq <= s.lastSequence

\* Every retained copy of a transmission, of the stations and of the log.
CopiesOf(st) == {st.ring[i].frame : i \in DOMAIN st.ring}

Copies(s) ==
    (UNION {CopiesOf(s.active[n]) : n \in DOMAIN s.active})
        \cup {s.history[i] : i \in DOMAIN s.history}

\* Receptions of one transmission agree with each other and with the history.
CopiesAgree(s) == \A f, g \in Copies(s) : f.seq = g.seq => f = g

\* A station and a revision name one set of settings: a reception under the
\* current revision carries the current settings, and revisions never go back.
ProvenanceSound(s) ==
    \A n \in DOMAIN s.active :
        LET st == s.active[n] IN
        \A i \in DOMAIN st.ring :
            /\ st.ring[i].rev <= st.rev
            /\ st.ring[i].rev = st.rev => st.ring[i].cfg = st.cfg
            /\ \A j \in DOMAIN st.ring :
                  i < j => /\ st.ring[i].rev <= st.ring[j].rev
                           /\ st.ring[i].rev = st.ring[j].rev => st.ring[i].cfg = st.ring[j].cfg

\* A retained reception was possible under the settings it carries.
EvidenceSound(s) ==
    \A n \in DOMAIN s.active : \A i \in DOMAIN s.active[n].ring :
        LET r == s.active[n].ring[i] IN
        r.cfg.enabled /\ Distance(r.frame.ord, r.frame.at) <= r.cfg.reach

\* No two stations and no two aircraft share a random stream or an identifier.
IdentitiesSound(s) ==
    /\ ActiveIds(s) \subseteq s.reserved
    /\ \A i, j \in DOMAIN s.active :
          i < j => /\ s.active[i].id # s.active[j].id
                   /\ s.active[i].ordinal < s.active[j].ordinal
                   /\ s.active[j].ordinal < s.nextStation
    /\ \A i, j \in DOMAIN s.fleet :
          i < j => s.fleet[i].ord < s.fleet[j].ord /\ s.fleet[j].ord < s.nextAddress
===============================================================================
