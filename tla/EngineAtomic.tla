----------------------------- MODULE EngineAtomic -----------------------------
(***************************************************************************)
(* What simulation.Engine promises its callers: every mutation happens at  *)
(* once, completely or not at all.                                         *)
(***************************************************************************)
EXTENDS EngineState

VARIABLE state

-------------------------------------------------------------------------------
Init == \E speed \in Speeds : state = Empty(speed)

Advance(d) ==
    /\ CanAdvance(state, d)
    /\ Emittable(state, RunTo(state, PlanAdvance(state, d)))
    /\ state' = RunTo(state, PlanAdvance(state, d))

Elapse(real) ==
    /\ CanElapse(state, real)
    /\ Emittable(state, RunTo(state, PlanElapse(state, real)))
    /\ state' = RunTo(state, PlanElapse(state, real))

SetCount(n) ==
    /\ n \in 0 .. MaxAircraft
    /\ state.nextAddress + (n - Len(state.fleet)) <= MaxAddress + 1
    /\ Emittable(state, Resize(state, n))
    /\ state' = Resize(state, n)

SetSpeed(speed) == state' = [state EXCEPT !.speed = speed]

AddStation(id, cfg) ==
    /\ CanAddStation(state, id)
    /\ state' = StationAdded(state, id, cfg)

UpdateStation(id, rev, cfg) ==
    /\ rev < MaxRevision
    /\ RevisionMatches(state, id, rev)
    /\ state' = StationUpdated(state, id, cfg)

RemoveStation(id, rev) ==
    /\ RevisionMatches(state, id, rev)
    /\ state' = StationRemoved(state, id)

Next ==
    \/ \E d \in Durations : Advance(d)
    \/ \E real \in RealDurations : Elapse(real)
    \/ \E n \in 0 .. MaxAircraft : SetCount(n)
    \/ \E speed \in Speeds : SetSpeed(speed)
    \/ \E id \in StationIds, cfg \in Configs : AddStation(id, cfg)
    \/ \E id \in StationIds, rev \in 1 .. MaxRevision, cfg \in Configs : UpdateStation(id, rev, cfg)
    \/ \E id \in StationIds, rev \in 1 .. MaxRevision : RemoveStation(id, rev)

Spec == Init /\ [][Next]_state

-------------------------------------------------------------------------------
(***************************************************************************)
(* Properties.                                                             *)
(***************************************************************************)

TypeOK ==
    /\ state \in States
    /\ state.elapsed <= MaxElapsed
    /\ state.speed \in Speeds
    /\ Len(state.fleet) <= MaxAircraft
    /\ Len(state.active) <= MaxStations

\* Neither two stations nor two aircraft share an identifier or a stream.
Identities == IdentitiesSound(state)

\* runTo: position reports alternate between the two CPR halves.
Parity == ParityAlternates(state)

\* What the fleet and the registry keep between mutations: their types, distinct
\* identities, and a parity that fits what was last sent.
FleetInv == TypeOK /\ Identities /\ Parity

\* deliver: each station numbers its receptions without a hole.
Receptions == ReceptionsSound(state) /\ CopiesAgree(state)

\* deliver and update: revisions identify settings, and every reception was
\* possible under the settings it carries.
Provenance == ProvenanceSound(state) /\ EvidenceSound(state)

\* A removed station's identifier never names a station again and a removed
\* aircraft's address is never reissued, so a cursor or a track can only mean
\* the one station or aircraft it was made for.
KeepsIdentities ==
    /\ state.reserved \subseteq state'.reserved
    /\ state.nextAddress <= state'.nextAddress
    /\ \A id \in state.reserved \ ActiveIds(state) : id \notin ActiveIds(state')
    /\ \A i \in DOMAIN state'.fleet :
          \/ state'.fleet[i].ord >= state.nextAddress
          \/ \E j \in DOMAIN state.fleet : state.fleet[j].ord = state'.fleet[i].ord
===============================================================================
