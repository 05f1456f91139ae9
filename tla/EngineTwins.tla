------------------------------ MODULE EngineTwins -----------------------------
(***************************************************************************)
(* Four engines of one configuration and seed under the same commands, to   *)
(* state what depends on what.  The reference engine receives each          *)
(* duration whole, the split one in any pieces; the quiet one is given no   *)
(* stations; the lossless one has the same stations with a loss of zero.    *)
(* It is the self-composition of the operations of engine.go; the driver    *)
(* relies on the first fact when it delivers elapsed time in chunks.        *)
(***************************************************************************)
EXTENDS ReceivedTracks

\* A split duration is delivered in pieces of at least one.
ASSUME TwinInputs == Durations \cup RealDurations \subseteq Nat \ {0}

VARIABLES
    whole, split, quiet, lossless,
    owed,       \* virtual time the split engine has yet to receive
    owedReal    \* real time the split engine has yet to receive

twins == <<whole, split, quiet, lossless, owed, owedReal>>

Settled == owed = 0 /\ owedReal = 0

Lossless(cfg) == [cfg EXCEPT !.loss = 0]

TwinsInit ==
    \E speed \in Speeds :
        /\ whole = Empty(speed)
        /\ split = Empty(speed)
        /\ quiet = Empty(speed)
        /\ lossless = Empty(speed)
        /\ owed = 0
        /\ owedReal = 0

\* Every engine but the split one takes the duration whole.
Advance(d) ==
    /\ Settled
    /\ CanAdvance(whole, d)
    /\ Emittable(whole, RunTo(whole, PlanAdvance(whole, d)))
    /\ whole' = RunTo(whole, PlanAdvance(whole, d))
    /\ quiet' = RunTo(quiet, PlanAdvance(quiet, d))
    /\ lossless' = RunTo(lossless, PlanAdvance(lossless, d))
    /\ owed' = d
    /\ UNCHANGED <<split, owedReal>>

Elapse(real) ==
    /\ Settled
    /\ CanElapse(whole, real)
    /\ Emittable(whole, RunTo(whole, PlanElapse(whole, real)))
    /\ whole' = RunTo(whole, PlanElapse(whole, real))
    /\ quiet' = RunTo(quiet, PlanElapse(quiet, real))
    /\ lossless' = RunTo(lossless, PlanElapse(lossless, real))
    /\ owedReal' = real
    /\ UNCHANGED <<split, owed>>

AdvancePiece(d) ==
    /\ d <= owed
    /\ split' = RunTo(split, PlanAdvance(split, d))
    /\ owed' = owed - d
    /\ UNCHANGED <<whole, quiet, lossless, owedReal>>

ElapsePiece(real) ==
    /\ real <= owedReal
    /\ split' = RunTo(split, PlanElapse(split, real))
    /\ owedReal' = owedReal - real
    /\ UNCHANGED <<whole, quiet, lossless, owed>>

Command(w, s, q, l) ==
    /\ Settled
    /\ whole' = w
    /\ split' = s
    /\ quiet' = q
    /\ lossless' = l
    /\ UNCHANGED <<owed, owedReal>>

SetCounts(n) ==
    /\ whole.nextAddress + (n - Len(whole.fleet)) <= MaxAddress + 1
    /\ Emittable(whole, Resize(whole, n))
    /\ Command(Resize(whole, n), Resize(split, n), Resize(quiet, n), Resize(lossless, n))

SetSpeeds(v) ==
    Command([whole EXCEPT !.speed = v], [split EXCEPT !.speed = v],
            [quiet EXCEPT !.speed = v], [lossless EXCEPT !.speed = v])

AddStations(id, cfg) ==
    /\ CanAddStation(whole, id)
    /\ Command(StationAdded(whole, id, cfg), StationAdded(split, id, cfg), quiet,
               StationAdded(lossless, id, Lossless(cfg)))

UpdateStations(id, rev, cfg) ==
    /\ rev < MaxRevision
    /\ RevisionMatches(whole, id, rev)
    /\ Command(StationUpdated(whole, id, cfg), StationUpdated(split, id, cfg), quiet,
               StationUpdated(lossless, id, Lossless(cfg)))

RemoveStations(id, rev) ==
    /\ RevisionMatches(whole, id, rev)
    /\ Command(StationRemoved(whole, id), StationRemoved(split, id), quiet,
               StationRemoved(lossless, id))

TwinsNext ==
    \/ \E d \in Durations : Advance(d)
    \/ \E real \in RealDurations : Elapse(real)
    \/ \E d \in 1 .. MaxAdvance : AdvancePiece(d)
    \/ \E real \in 1 .. owedReal : ElapsePiece(real)
    \/ \E n \in 0 .. MaxAircraft : SetCounts(n)
    \/ \E v \in Speeds : SetSpeeds(v)
    \/ \E id \in StationIds, cfg \in Configs : AddStations(id, cfg)
    \/ \E id \in StationIds, rev \in 1 .. MaxRevision, cfg \in Configs : UpdateStations(id, rev, cfg)
    \/ \E id \in StationIds, rev \in 1 .. MaxRevision : RemoveStations(id, rev)

TwinsSpec == TwinsInit /\ [][TwinsNext]_twins

-------------------------------------------------------------------------------
(***************************************************************************)
(* Properties.                                                             *)
(***************************************************************************)

\* planElapse, rescheduleAfter and nextEvent: splitting a duration changes
\* nothing, neither the clock and its carry nor any transmission, schedule,
\* draw or reception.  The driver's chunks, and the ticks at which requests
\* happen to arrive, are therefore invisible in the simulated run.
SplittingIsInvisible == Settled => split = whole

\* deliver and the station commands: stations only listen.  Adding, editing,
\* enabling and removing them never changes what is transmitted, or when.
StationsOnlyListen ==
    [quiet EXCEPT !.active = whole.active, !.reserved = whole.reserved,
                  !.nextStation = whole.nextStation] = whole

\* deliver: a station draws once for each transmission it hears, whatever its
\* loss, so that editing the loss never shifts its stream, and what it then
\* receives is part of what a lossless station receives.
LossNeverShiftsTheStream ==
    /\ Len(lossless.active) = Len(whole.active)
    /\ \A n \in DOMAIN whole.active :
          /\ whole.active[n].draws = lossless.active[n].draws
          /\ lossless.active[n].last = lossless.active[n].draws
          /\ whole.active[n].last <= lossless.active[n].last

\* Adding, updating and removing stations changes neither what is transmitted
\* nor, by an edit of its loss, which transmissions a station draws for.
StreamsAreIndependent == StationsOnlyListen /\ LossNeverShiftsTheStream

\* What simulation.Engine promises of every one of its states, EngineAtomic
\* states; the reference engine is an engine like any other.
Promised == INSTANCE EngineAtomic WITH state <- whole

\* runTo, deliver and update: identities are distinct, position reports alternate
\* between the CPR halves, receptions are numbered per station without a hole, the
\* stations' copies of one transmission agree, revisions identify settings, and
\* every reception was possible under the settings it carries.
EngineInv == Promised!FleetInv /\ Promised!Receptions /\ Promised!Provenance

\* Whatever was evicted, edited, removed or never heard, the display accepts the
\* snapshot of the selected stations: the engine and display/validate.go, which
\* share no code, agree on holes, revisions, copies, truncation and instants.
SnapshotsAreAccepted == Settled => Validates(Snapshot(whole, ActiveIds(whole)))

\* An identifier or an address never means a second station or aircraft.
IdentitiesAreForLife == [][Promised!KeepsIdentities]_whole
===============================================================================
