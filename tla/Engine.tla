-------------------------------- MODULE Engine --------------------------------
(***************************************************************************)
(* simulation.Engine step by step (engine.go): a mutation clones the state, *)
(* emits into the clone one report after the other, and commits the clone   *)
(* at the end.  It can be cancelled between any two reports, and it fails   *)
(* when it would emit too much, run out of addresses or schedule beyond     *)
(* what a duration holds.  The mutex is held throughout.                    *)
(***************************************************************************)
EXTENDS EngineState

VARIABLES
    state,   \* Engine.state, what every reader sees
    staged,  \* the clone a mutation works on; the committed state between mutations
    mode,    \* "idle", "run" (runTo) or "grow" (addAircraft)
    target,  \* the clock a run commits
    count    \* the fleet size addAircraft works towards

vars == <<state, staged, mode, target, count>>

Start == Clock(0, 0)

\* New creates its initial aircraft as a first SetCount would.
Init ==
    /\ \E speed \in Speeds : state = Empty(speed)
    /\ staged = state
    /\ mode = "idle"
    /\ target = Start
    /\ count = 0

-------------------------------------------------------------------------------
(***************************************************************************)
(* Mutations that emit.                                                    *)
(***************************************************************************)

Run(clock) ==
    /\ mode = "idle"
    /\ mode' = "run"
    /\ target' = clock
    /\ UNCHANGED <<state, staged, count>>

BeginAdvance(d) == CanAdvance(state, d) /\ Run(PlanAdvance(state, d))

BeginElapse(real) == CanElapse(state, real) /\ Run(PlanElapse(state, real))

BeginGrow(n) ==
    /\ mode = "idle"
    /\ n > Len(state.fleet)
    /\ mode' = "grow"
    /\ count' = n
    /\ UNCHANGED <<state, staged, target>>

\* record refuses before it changes anything.
Emitted == staged.lastSequence - state.lastSequence

\* One iteration of runTo.
Fire ==
    /\ mode = "run"
    /\ Emitted < MaxBatchFrames
    /\ \E e \in Due(staged, target.elapsed) :
          /\ IsNext(staged, target.elapsed, e)
          /\ CanReschedule(Reschedule(staged.fleet[e[1]], e[2]))
          /\ staged' = Emit(staged, e)
    /\ UNCHANGED <<state, mode, target, count>>

\* One iteration of addAircraft: three reports, or none at all.
Create ==
    /\ mode = "grow"
    /\ Len(staged.fleet) < count
    /\ staged.nextAddress <= MaxAddress
    /\ Emitted + 3 <= MaxBatchFrames
    /\ CanReschedule(NewAircraft(staged.nextAddress, staged.elapsed))
    /\ staged' = AddAircraft(staged)
    /\ UNCHANGED <<state, mode, target, count>>

Commit(s) ==
    /\ state' = s
    /\ staged' = s
    /\ mode' = "idle"
    /\ target' = Start
    /\ count' = 0

CommitRun ==
    /\ mode = "run"
    /\ Due(staged, target.elapsed) = {}
    /\ Commit([staged EXCEPT !.elapsed = target.elapsed, !.carry = target.carry])

CommitGrow ==
    /\ mode = "grow"
    /\ Len(staged.fleet) = count
    /\ Commit(staged)

\* Mutant: what was emitted so far is kept.
AbortKeepsClone ==
    /\ mode # "idle"
    /\ Commit(staged)

\* The context is cancelled or a limit is met: the clone is discarded.
Abort ==
    /\ mode # "idle"
    /\ Commit(state)

-------------------------------------------------------------------------------
(***************************************************************************)
(* Mutations that commit in one step.                                      *)
(***************************************************************************)

AtOnce(s) ==
    /\ mode = "idle"
    /\ Commit(s)

SetCount(n) == n \in 0 .. Len(state.fleet) /\ AtOnce(Shrink(state, n))

SetSpeed(speed) == AtOnce([state EXCEPT !.speed = speed])

AddStation(id, cfg) == CanAddStation(state, id) /\ AtOnce(StationAdded(state, id, cfg))

UpdateStation(id, rev, cfg) ==
    /\ rev < MaxRevision
    /\ RevisionMatches(state, id, rev)
    /\ AtOnce(StationUpdated(state, id, cfg))

RemoveStation(id, rev) ==
    /\ RevisionMatches(state, id, rev)
    /\ AtOnce(StationRemoved(state, id))

Next ==
    \/ \E d \in Durations : BeginAdvance(d)
    \/ \E real \in RealDurations : BeginElapse(real)
    \/ \E n \in 1 .. MaxAircraft : BeginGrow(n)
    \/ Fire
    \/ Create
    \/ CommitRun
    \/ CommitGrow
    \/ Abort
    \/ \E n \in 0 .. MaxAircraft : SetCount(n)
    \/ \E speed \in Speeds : SetSpeed(speed)
    \/ \E id \in StationIds, cfg \in Configs : AddStation(id, cfg)
    \/ \E id \in StationIds, rev \in 1 .. MaxRevision, cfg \in Configs : UpdateStation(id, rev, cfg)
    \/ \E id \in StationIds, rev \in 1 .. MaxRevision : RemoveStation(id, rev)

Spec == Init /\ [][Next]_vars

-------------------------------------------------------------------------------
(***************************************************************************)
(* Properties.                                                             *)
(***************************************************************************)

\* What runTo and addAircraft commit is exactly what an uninterrupted mutation
\* computes, and an interrupted one changes nothing a reader or the next
\* mutation could see.
Atomic == INSTANCE EngineAtomic
MutatesAtomically == Atomic!Spec

\* Nothing is later than the committed instant, or than a run's target.
Horizon == IF mode = "run" THEN target.elapsed ELSE staged.elapsed

\* Half-way through a mutation the clone already satisfies what readers rely
\* on: transmissions are numbered without a hole, in chronological order, and
\* the newest are retained.
ClonedLogInOrder == TransmissionsSound(staged, Horizon)

\* So does what readers see.
LogInOrder == TransmissionsSound(state, state.elapsed)

\* No deadline a reader's next advance starts from is overdue or was skipped.
NothingOverdue == SchedulesSound(state)

TypeOK ==
    /\ state \in States
    /\ staged \in States
    /\ mode \in {"idle", "run", "grow"}
    /\ target \in [elapsed : Nat, carry : 0 .. 99]
    /\ count \in Nat

\* Addresses are allocated upwards from 1.
Allocated(s) == s.nextAddress \in 1 .. MaxAddress + 1

\* Each deadline fits a duration, lies ahead of the committed instant and was
\* reached by as many positive intervals as values were drawn, the last of
\* which started no later than the horizon.
Scheduled(s, horizon) ==
    \A i \in DOMAIN s.fleet : \A k \in DOMAIN Families :
        LET craft == s.fleet[i] IN
        /\ craft.due[k] <= MaxDuration
        /\ craft.due[k] > s.elapsed
        /\ craft.draws[k] \in 1 .. craft.due[k]
        /\ craft.due[k] - Interval(craft.ord, k, craft.draws[k] - 1) <= horizon

\* No deadline is earlier than a report already made.
Monotone(s) ==
    \A h \in DOMAIN s.history : \A i \in DOMAIN s.fleet : \A k \in DOMAIN Families :
        s.history[h].at <= s.fleet[i].due[k]

Committed ==
    /\ Allocated(state)
    /\ LogInOrder
    /\ Scheduled(state, state.elapsed)

Cloned ==
    /\ Allocated(staged)
    /\ staged.elapsed = state.elapsed
    /\ staged.elapsed <= Horizon
    /\ ClonedLogInOrder
    /\ Scheduled(staged, Horizon)
    /\ Monotone(staged)

\* The inductive invariant of the log and of the schedules.
LogInv == TypeOK /\ Committed /\ Cloned

\* A station that could hear transmissions up to a number: it numbers what it
\* received without a hole, retains the newest, in the order they were sent and
\* from its creation on, with the settings that were in effect, whose revisions
\* never go back, and only what those settings let it hear.
Listened(st, sent) ==
    /\ Len(st.ring) = Least(st.last, ReceptionHistoryLimit)
    /\ \A i \in DOMAIN st.ring :
          LET r == st.ring[i] IN
          /\ r.seq = st.last - Len(st.ring) + i
          /\ r.created = st.created
          /\ r.frame.at >= st.created
          /\ r.frame.seq <= sent
          /\ r.rev <= st.rev
          /\ r.rev = st.rev => r.cfg = st.cfg
          /\ r.cfg.enabled
          /\ Distance(r.frame.ord, r.frame.at) <= r.cfg.reach
    /\ \A i, j \in DOMAIN st.ring :
          i < j => /\ st.ring[i].frame.seq < st.ring[j].frame.seq
                   /\ st.ring[i].rev <= st.ring[j].rev
                   /\ st.ring[i].rev = st.ring[j].rev => st.ring[i].cfg = st.ring[j].cfg

\* Every active station was registered under an identifier and a stream of its
\* own, and not after the committed instant.
Registered(s) ==
    /\ \A i \in DOMAIN s.active :
          /\ s.active[i].id \in s.reserved
          /\ s.active[i].ordinal < s.nextStation
          /\ s.active[i].created <= s.elapsed
    /\ \A i, j \in DOMAIN s.active :
          i < j => s.active[i].id # s.active[j].id /\ s.active[i].ordinal < s.active[j].ordinal

\* Every aircraft has an address of its own, given out before the next one.
Addressed(s) ==
    /\ \A i \in DOMAIN s.fleet : s.fleet[i].ord < s.nextAddress
    /\ \A i, j \in DOMAIN s.fleet : i < j => s.fleet[i].ord < s.fleet[j].ord

Kept(s) ==
    /\ \A i \in DOMAIN s.active : Listened(s.active[i], s.lastSequence)
    /\ Registered(s)
    /\ Addressed(s)
    /\ CopiesAgree(s)

\* Record i of a log is a position report of an aircraft.
Positional(log, i, ord) == log[i].kind = "position" /\ log[i].ord = ord

\* Consecutive position reports of one aircraft are the two halves of a pair.
Paired(log) ==
    \A i, j \in DOMAIN log :
        (/\ i < j
         /\ log[j].kind = "position"
         /\ Positional(log, i, log[j].ord)
         /\ \A k \in DOMAIN log : i < k /\ k < j => ~Positional(log, k, log[j].ord))
        => log[i].odd # log[j].odd

\* The next half an aircraft sends is not the one it sent last.
Announced(log, ord, odd) ==
    \A i \in DOMAIN log :
        (/\ Positional(log, i, ord)
         /\ \A k \in DOMAIN log : i < k => ~Positional(log, k, ord))
        => log[i].odd # odd

\* Position reports alternate, the scheduled ones included, and nothing was
\* reported under an address yet to be given out.
Alternating(s) ==
    /\ Paired(s.history)
    /\ \A i \in DOMAIN s.fleet : Announced(s.history, s.fleet[i].ord, s.fleet[i].odd)
    /\ \A i \in DOMAIN s.history : s.history[i].ord < s.nextAddress

\* What the mutation under way has done so far is what the uninterrupted one
\* does first: the clone is the committed state after as many iterations.
Running ==
    /\ \/ \E d \in Durations : CanAdvance(state, d) /\ target = PlanAdvance(state, d)
       \/ \E real \in RealDurations : CanElapse(state, real) /\ target = PlanElapse(state, real)
    /\ Emitted \in 0 .. MaxBatchFrames
    /\ staged = Emissions(state, target.elapsed)[Emitted]

Made == Len(staged.fleet) - Len(state.fleet)

Growing ==
    /\ count \in Len(state.fleet) + 1 .. MaxAircraft
    /\ Made \in 0 .. count - Len(state.fleet)
    /\ staged.nextAddress = state.nextAddress + Made
    /\ Emitted = 3 * Made
    /\ Emitted <= MaxBatchFrames
    /\ staged = Additions(state)[Made]

Underway ==
    /\ mode = "idle" => staged = state
    /\ mode = "run" => Running
    /\ mode = "grow" => Growing

\* With what stations received, who is who and which half comes next, of what is
\* committed and of what is being emitted, and with how far the mutation under way
\* has come.
IInv ==
    /\ LogInv
    /\ Kept(state) /\ Kept(staged)
    /\ Alternating(state) /\ Alternating(staged)
    /\ Underway
===============================================================================
