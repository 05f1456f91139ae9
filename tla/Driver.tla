-------------------------------- MODULE Driver --------------------------------
(***************************************************************************)
(* The real-time driver of internal/simdriver/driver.go together with the  *)
(* part of the engine it drives: the virtual clock of simulation/clock.go, *)
(* the speed, the aircraft count and the station registry.                 *)
(*                                                                         *)
(* Processes are the goroutine of Driver.Run and one goroutine per HTTP    *)
(* request that issues a mutation.  They share one mutex, held for a whole *)
(* command or a whole heartbeat.  A settlement measures real time once and *)
(* delivers it to the engine in chunks; between two chunks every variable  *)
(* is visible to readers, real time passes and contexts are cancelled.     *)
(*                                                                         *)
(* Real instants and virtual durations are counted in ticks (the code:     *)
(* nanoseconds), speeds in hundredths.                                     *)
(***************************************************************************)
EXTENDS Integers, FiniteSets

CONSTANTS
    Callers,       \* goroutines that issue commands
    Runner,        \* the goroutine of Driver.Run
    Free,          \* "nobody": the value of the unlocked mutex
    StationIds,    \* station identifiers
    Commands,      \* the commands callers issue
    MaxSpeed,      \* simulation.MaxSpeedHundredths
    MaxAircraft,   \* simulation.MaxAircraft
    MaxStations,   \* simulation.MaxStations
    MaxAdvance,    \* simulation.MaxAdvance: virtual ticks in one Elapse
    MaxCatchUp,    \* MaxCatchUp: virtual ticks one settlement may owe
    MaxElapsed,    \* the virtual lifetime at which planAdvance reports ErrLimit
    MaxNow,        \* bound: the last real instant of a behaviour
    MaxRevision,   \* bound: the largest revision a command may create
    InitialSpeeds, \* the speeds a run may be configured to start at
    Monotonic      \* whether Clock.Now never goes back

Procs == Callers \cup {Runner}

\* SetCount and SetSpeed use arg; the station commands use id, rev and ok,
\* where ok stands for the verdict of ValidateStationConfig.
Operations == {"SetCount", "SetSpeed", "AddStation", "UpdateStation", "RemoveStation"}

CommandType ==
    [op  : Operations,
     arg : Nat, id : StationIds, rev : Nat, ok : BOOLEAN]

ASSUME DriverConstants ==
    /\ Runner \notin Callers
    /\ Free \notin Procs
    /\ Commands \subseteq CommandType
    /\ MaxSpeed \in Nat \ {0}
    /\ MaxAircraft \in Nat
    /\ MaxStations \in Nat
    /\ MaxAdvance \in Nat
    /\ MaxCatchUp \in Nat
    /\ MaxElapsed \in Nat
    /\ MaxNow \in Nat
    /\ MaxRevision \in Nat
    /\ InitialSpeeds \subseteq 0 .. MaxSpeed
    /\ Monotonic \in BOOLEAN

\* One tick at the highest speed fits in one Elapse; otherwise the chunk would
\* be empty and a settlement would never end.
ASSUME ChunkIsPositive == MaxSpeed <= MaxAdvance * 100

VARIABLES
    now,       \* the instant Clock.Now returns
    \* Driver
    baseline,  \* real instant up to which time has been delivered
    stopped,   \* the pacing loop has terminated
    mu,        \* holder of Driver.mu
    \* Engine
    elapsed,   \* virtual ticks since the start
    carry,     \* hundredths of a tick earned and not yet granted
    speed,     \* Config.SpeedHundredths
    count,     \* active aircraft
    stations,  \* per identifier: Unused, Removed, or the revision
    \* goroutines
    pc,        \* where each goroutine is
    cmd,       \* the command of each caller
    live,      \* whether the goroutine's context is not cancelled
    left,      \* the mutex holder's local elapsed: real time still to deliver
    result,    \* what Driver.Run returned
    \* history, read by the properties only
    asked,     \* the instant at which each caller issued its command
    moved,     \* the mutex holder has delivered time
    lateRejects \* commands rejected for their input after delivering time, each with
                \* the registry it was rejected by

engine == <<elapsed, carry, speed, count, stations>>
calls  == <<pc, cmd, live, asked>>
vars   == <<now, baseline, stopped, mu, engine, calls, left, result, moved, lateRejects>>

Unused  == 0
Removed == -1

ActiveIn(registry) == {id \in StationIds : registry[id] > 0}
Full(registry)     == Cardinality(ActiveIn(registry)) >= MaxStations

Active == ActiveIn(stations)

\* The command of an idle caller.
NoCommand == [op |-> "none"]

Least(a, b) == IF a <= b THEN a ELSE b

-------------------------------------------------------------------------------
(***************************************************************************)
(* Arithmetic of settleLocked and planElapse.                              *)
(***************************************************************************)

\* Largest backlog a settlement accepts, and largest chunk it delivers, as
\* real durations at speed s.
RealBacklog(s) == (MaxCatchUp * 100) \div s

\* Mutant: rounds up.
RealChunkRoundsUp(s) == (MaxAdvance * 100 + s - 1) \div s

RealChunk(s) == (MaxAdvance * 100) \div s

\* planElapse: hundredths earned by a real duration, and the longest real
\* duration it accepts.
Scaled(real)  == real * speed + carry
ElapseBound   == (MaxAdvance * 100 + 99 - carry) \div speed

\* planElapse followed by planAdvance succeeds.
CanElapse(real) ==
    /\ real <= ElapseBound
    /\ Scaled(real) \div 100 <= MaxAdvance
    /\ elapsed + Scaled(real) \div 100 <= MaxElapsed

-------------------------------------------------------------------------------
(***************************************************************************)
(* What a command checks, where.                                           *)
(***************************************************************************)

\* Validation that needs no state: a range, or ValidateStationConfig.
InputInvalid(c) ==
    \/ c.op = "SetCount" /\ c.arg > MaxAircraft
    \/ c.op = "SetSpeed" /\ c.arg > MaxSpeed
    \/ c.op \in {"AddStation", "UpdateStation"} /\ ~c.ok

\* Mutant: leaves creations to the engine.
PrecheckIgnoresCreation(c) ==
    /\ c.op \in {"UpdateStation", "RemoveStation"}
    /\ c.id \notin Active \/ stations[c.id] # c.rev

\* The station checks the driver makes before it settles: it sees the active
\* stations of a snapshot only.
PrecheckFails(c) ==
    \/ c.op = "AddStation" /\ (Full(stations) \/ c.id \in Active)
    \/ /\ c.op \in {"UpdateStation", "RemoveStation"}
       /\ c.id \notin Active \/ stations[c.id] # c.rev

\* The checks of the engine itself, which also knows the reserved identifiers.
EngineRejects(c) ==
    \/ InputInvalid(c)
    \/ c.op = "AddStation" /\ (stations[c.id] # Unused \/ Full(stations))
    \/ /\ c.op \in {"UpdateStation", "RemoveStation"}
       /\ c.id \notin Active \/ stations[c.id] # c.rev

-------------------------------------------------------------------------------
TypeOK ==
    /\ now \in 0 .. MaxNow
    /\ baseline \in 0 .. MaxNow
    /\ stopped \in BOOLEAN
    /\ mu \in Procs \cup {Free}
    /\ elapsed \in 0 .. MaxElapsed
    /\ carry \in 0 .. 99
    /\ speed \in 0 .. MaxSpeed
    /\ count \in 0 .. MaxAircraft
    /\ stations \in [StationIds -> Int]
    /\ pc \in [Procs -> {"idle", "loop", "waiting", "settle", "deliver", "apply", "leaving", "returned"}]
    /\ cmd \in [Callers -> Commands \cup {NoCommand}]
    /\ live \in [Procs -> BOOLEAN]
    /\ left \in 0 .. MaxNow
    /\ result \in {"none", "clean", "failed", "ticker"}
    /\ asked \in [Callers -> 0 .. MaxNow]
    /\ moved \in BOOLEAN
    /\ lateRejects \subseteq [cmd : Commands, stations : [StationIds -> Int]]

Init ==
    /\ now = 0
    /\ baseline = 0
    /\ stopped = FALSE
    /\ mu = Free
    /\ elapsed = 0
    /\ carry = 0
    /\ speed \in InitialSpeeds
    /\ count = 0
    /\ stations = [id \in StationIds |-> Unused]
    /\ pc = [p \in Procs |-> "idle"]
    /\ cmd = [p \in Callers |-> NoCommand]
    /\ live = [p \in Procs |-> TRUE]
    /\ left = 0
    /\ result = "none"
    /\ asked = [p \in Callers |-> 0]
    /\ moved = FALSE
    /\ lateRejects = {}

-------------------------------------------------------------------------------
(***************************************************************************)
(* The environment: real time, cancellation, callers.                      *)
(***************************************************************************)

\* Real time moves by any amount (a suspended host wakes up late), and back
\* when the clock is not monotonic.
ClockMoves ==
    /\ \E t \in 0 .. MaxNow :
          /\ t # now
          /\ Monotonic => t > now
          /\ now' = t
    /\ UNCHANGED <<baseline, stopped, mu, engine, calls, left, result, moved, lateRejects>>

\* A request is abandoned by its client, or the runtime's context is cancelled.
Cancel(p) ==
    /\ live[p]
    /\ p \in Callers => pc[p] # "idle"
    /\ live' = [live EXCEPT ![p] = FALSE]
    /\ UNCHANGED <<now, baseline, stopped, mu, engine, pc, cmd, left, result, asked, moved, lateRejects>>

\* A caller issues a command and waits for the mutex.
Call(p) ==
    /\ pc[p] = "idle"
    /\ \E c \in Commands :
          /\ c.op = "UpdateStation" => stations[c.id] < MaxRevision
          /\ cmd' = [cmd EXCEPT ![p] = c]
    /\ pc' = [pc EXCEPT ![p] = "waiting"]
    /\ live' = [live EXCEPT ![p] = TRUE]
    /\ asked' = [asked EXCEPT ![p] = now]
    /\ UNCHANGED <<now, baseline, stopped, mu, engine, left, result, moved, lateRejects>>

-------------------------------------------------------------------------------
(***************************************************************************)
(* Locking, and the end of a command or of a heartbeat.                    *)
(***************************************************************************)

\* A command returns to its caller: the deferred Unlock.
Return(p, outcome) ==
    /\ mu' = Free
    /\ pc' = [pc EXCEPT ![p] = "idle"]
    /\ cmd' = [cmd EXCEPT ![p] = NoCommand]
    /\ live' = [live EXCEPT ![p] = TRUE]
    /\ asked' = [asked EXCEPT ![p] = 0]
    /\ lateRejects' = IF outcome = "rejected" /\ moved
                         THEN lateRejects \cup {[cmd |-> cmd[p], stations |-> stations]}
                         ELSE lateRejects
    /\ moved' = FALSE
    /\ left' = 0
    /\ UNCHANGED result

\* settle returns to Run with an error, which ends the loop; after a
\* cancellation of its context any error counts as a clean stop.
RunEnds ==
    /\ mu' = Free
    /\ pc' = [pc EXCEPT ![Runner] = "leaving"]
    /\ result' = IF live[Runner] THEN "failed" ELSE "clean"
    /\ moved' = FALSE
    /\ left' = 0
    /\ UNCHANGED <<lateRejects, cmd, live, asked>>

Fails(p, outcome) == IF p = Runner THEN RunEnds ELSE Return(p, outcome)

\* The settlement is complete, having delivered time or not: Run goes back to
\* its select, a command goes on to its effect with the mutex still held.
Settled(p, delivered) ==
    /\ mu' = IF p = Runner THEN Free ELSE mu
    /\ pc' = [pc EXCEPT ![p] = IF p = Runner THEN "loop" ELSE "apply"]
    /\ moved' = (p # Runner /\ delivered)
    /\ left' = 0
    /\ UNCHANGED <<result, lateRejects, cmd, live, asked>>

\* Mutant: only the pacing loop knows that it stopped.
RefusalUnlessInvalid(p) ==
    IF InputInvalid(cmd[p]) THEN "rejected"
    ELSE IF cmd[p].op \in {"UpdateStation", "RemoveStation"} /\ ~live[p] THEN "cancelled"
    ELSE IF PrecheckFails(cmd[p]) THEN "rejected"
    ELSE "none"

\* What a command finds once it holds the mutex, in the order of the code.
\* The outcome "none" lets it go on to settle.
Refusal(p) ==
    IF stopped THEN "stopped"
    ELSE IF InputInvalid(cmd[p]) THEN "rejected"
    ELSE IF cmd[p].op \in {"UpdateStation", "RemoveStation"} /\ ~live[p] THEN "cancelled"
    ELSE IF PrecheckFails(cmd[p]) THEN "rejected"
    ELSE "none"

\* A command locks the mutex and is refused at once.
Refuse(p) ==
    /\ pc[p] = "waiting"
    /\ mu = Free
    /\ Refusal(p) # "none"
    /\ Return(p, Refusal(p))
    /\ UNCHANGED <<now, baseline, stopped, engine>>

\* Mutant: the heartbeat settles without the mutex.
AcquireUnlocked(p) ==
    /\ pc[p] = "waiting"
    /\ p \in Callers => mu = Free /\ Refusal(p) = "none"
    /\ mu' = IF mu = Free THEN p ELSE mu
    /\ pc' = [pc EXCEPT ![p] = "settle"]
    /\ UNCHANGED <<now, baseline, stopped, engine, cmd, live, left, result, asked, moved, lateRejects>>

\* A command passes its checks, or Run's heartbeat locks the mutex.
Acquire(p) ==
    /\ pc[p] = "waiting"
    /\ mu = Free
    /\ p \in Callers => Refusal(p) = "none"
    /\ mu' = p
    /\ pc' = [pc EXCEPT ![p] = "settle"]
    /\ UNCHANGED <<now, baseline, stopped, engine, cmd, live, left, result, asked, moved, lateRejects>>

-------------------------------------------------------------------------------
(***************************************************************************)
(* settleLocked.                                                           *)
(***************************************************************************)

Owed == now - baseline

\* Mutant: measures before looking at the context.
NothingOwedAnyway(p) == now <= baseline /\ Settled(p, FALSE) /\ UNCHANGED baseline

\* A clock that went back neither rewinds nor moves the baseline.
NothingOwed(p) == live[p] /\ now <= baseline /\ Settled(p, FALSE) /\ UNCHANGED baseline

\* Mutant: real time that passes while paused stays owed.
PausedForgets(p) == live[p] /\ Owed > 0 /\ speed = 0 /\ Settled(p, FALSE) /\ UNCHANGED baseline

\* Real time that passes while paused is discarded.
Paused(p) == live[p] /\ Owed > 0 /\ speed = 0 /\ Settled(p, FALSE) /\ baseline' = now

\* Mutant: does without the delivery instead of failing.
TooFarBehindSkips(p) ==
    live[p] /\ speed > 0 /\ Owed > RealBacklog(speed) /\ Settled(p, FALSE) /\ UNCHANGED baseline

TooFarBehind(p) ==
    live[p] /\ speed > 0 /\ Owed > RealBacklog(speed) /\ Fails(p, "failed") /\ UNCHANGED baseline

StartDelivery(p) ==
    /\ live[p]
    /\ speed > 0
    /\ 0 < Owed /\ Owed <= RealBacklog(speed)
    /\ left' = Owed
    /\ pc' = [pc EXCEPT ![p] = "deliver"]
    /\ UNCHANGED <<baseline, mu, result, cmd, live, asked, moved, lateRejects>>

\* The one measurement of a settlement.
Measure(p) ==
    /\ pc[p] = "settle"
    /\ \/ ~live[p] /\ Fails(p, "cancelled") /\ UNCHANGED baseline
       \/ NothingOwed(p)
       \/ Paused(p)
       \/ TooFarBehind(p)
       \/ StartDelivery(p)
    /\ UNCHANGED <<now, stopped, engine>>

\* Mutant: rounds every chunk down.
ElapseTruncates(chunk) ==
    /\ elapsed' = elapsed + Scaled(chunk) \div 100
    /\ carry' = 0
    /\ baseline' = baseline + chunk
    /\ UNCHANGED <<speed, count, stations>>

\* Engine.Elapse on one chunk, and the bookkeeping after it.
Elapse(chunk) ==
    /\ elapsed' = elapsed + Scaled(chunk) \div 100
    /\ carry' = Scaled(chunk) % 100
    /\ baseline' = baseline + chunk
    /\ UNCHANGED <<speed, count, stations>>

\* One iteration of the delivery loop.
Deliver(p) ==
    LET chunk == Least(left, RealChunk(speed)) IN
    /\ pc[p] = "deliver"
    /\ \/ /\ ~live[p]
          /\ Fails(p, "cancelled")
          /\ UNCHANGED <<baseline, engine>>
       \/ /\ live[p]
          /\ ~CanElapse(chunk)
          /\ Fails(p, "failed")
          /\ UNCHANGED <<baseline, engine>>
       \/ /\ live[p]
          /\ CanElapse(chunk)
          /\ Elapse(chunk)
          /\ left - chunk > 0
          /\ left' = left - chunk
          /\ moved' = TRUE
          /\ UNCHANGED <<mu, calls, result, lateRejects>>
       \/ /\ live[p]
          /\ CanElapse(chunk)
          /\ Elapse(chunk)
          /\ left - chunk = 0
          /\ Settled(p, TRUE)
    /\ UNCHANGED <<now, stopped>>

-------------------------------------------------------------------------------
(***************************************************************************)
(* The command's own change, made by the engine.                           *)
(***************************************************************************)

SetCount(c) ==
    /\ c.op = "SetCount"
    /\ count' = c.arg
    /\ UNCHANGED <<speed, stations>>

SetSpeed(c) ==
    /\ c.op = "SetSpeed"
    /\ speed' = c.arg
    /\ UNCHANGED <<count, stations>>

AddStation(c) ==
    /\ c.op = "AddStation"
    /\ stations' = [stations EXCEPT ![c.id] = 1]
    /\ UNCHANGED <<speed, count>>

UpdateStation(c) ==
    /\ c.op = "UpdateStation"
    /\ stations' = [stations EXCEPT ![c.id] = @ + 1]
    /\ UNCHANGED <<speed, count>>

RemoveStation(c) ==
    /\ c.op = "RemoveStation"
    /\ stations' = [stations EXCEPT ![c.id] = Removed]
    /\ UNCHANGED <<speed, count>>

Apply(p) ==
    /\ pc[p] = "apply"
    /\ \/ /\ ~live[p]
          /\ Return(p, "cancelled")
          /\ UNCHANGED engine
       \/ /\ live[p]
          /\ EngineRejects(cmd[p])
          /\ Return(p, "rejected")
          /\ UNCHANGED engine
       \/ /\ live[p]
          /\ ~EngineRejects(cmd[p])
          /\ \/ SetCount(cmd[p])
             \/ SetSpeed(cmd[p])
             \/ AddStation(cmd[p])
             \/ UpdateStation(cmd[p])
             \/ RemoveStation(cmd[p])
          /\ Return(p, "ok")
          /\ UNCHANGED <<elapsed, carry>>
    /\ UNCHANGED <<now, baseline, stopped>>

-------------------------------------------------------------------------------
(***************************************************************************)
(* Driver.Run.                                                             *)
(***************************************************************************)

RunStarts ==
    /\ pc[Runner] = "idle"
    /\ pc' = [pc EXCEPT ![Runner] = "loop"]
    /\ UNCHANGED <<now, baseline, stopped, mu, engine, cmd, live, left, result, asked, moved, lateRejects>>

\* A heartbeat is received; settle then waits for the mutex.
Tick ==
    /\ pc[Runner] = "loop"
    /\ pc' = [pc EXCEPT ![Runner] = "waiting"]
    /\ UNCHANGED <<now, baseline, stopped, mu, engine, cmd, live, left, result, asked, moved, lateRejects>>

\* select takes ctx.Done.
RunCancelled ==
    /\ pc[Runner] = "loop"
    /\ ~live[Runner]
    /\ pc' = [pc EXCEPT ![Runner] = "leaving"]
    /\ result' = "clean"
    /\ UNCHANGED <<now, baseline, stopped, mu, engine, cmd, live, left, asked, moved, lateRejects>>

\* A supplied Clock closed its tick channel.
TickerClosed ==
    /\ pc[Runner] = "loop"
    /\ pc' = [pc EXCEPT ![Runner] = "leaving"]
    /\ result' = "ticker"
    /\ UNCHANGED <<now, baseline, stopped, mu, engine, cmd, live, left, asked, moved, lateRejects>>

\* The deferred function of Run: lock, mark the driver stopped, unlock.
RunReturns ==
    /\ pc[Runner] = "leaving"
    /\ mu = Free
    /\ stopped' = TRUE
    /\ pc' = [pc EXCEPT ![Runner] = "returned"]
    /\ UNCHANGED <<now, baseline, mu, engine, cmd, live, left, result, asked, moved, lateRejects>>

-------------------------------------------------------------------------------
Settlement(p) == Acquire(p) \/ Measure(p) \/ Deliver(p)

Command(p) == Refuse(p) \/ Settlement(p) \/ Apply(p)

Run == RunStarts \/ Tick \/ RunCancelled \/ TickerClosed \/ Settlement(Runner) \/ RunReturns

Next ==
    \/ ClockMoves
    \/ \E p \in Procs : Cancel(p)
    \/ \E p \in Callers : Call(p) \/ Command(p)
    \/ Run

Spec == Init /\ [][Next]_vars

\* A goroutine that holds the mutex keeps running; sync.Mutex starves nobody,
\* so a goroutine that waits is eventually the one that locks it.  Run is
\* started by the runtime and its ticker keeps ticking.
Fairness ==
    /\ WF_vars(RunStarts)
    /\ WF_vars(Tick)
    /\ WF_vars(RunCancelled)
    /\ SF_vars(RunReturns)
    /\ \A p \in Procs :
          /\ SF_vars(Acquire(p) \/ (p \in Callers /\ Refuse(p)))
          /\ WF_vars(Measure(p))
          /\ WF_vars(Deliver(p))
    /\ \A p \in Callers : WF_vars(Apply(p))

FairSpec == Spec /\ Fairness

-------------------------------------------------------------------------------
(***************************************************************************)
(* Properties.                                                             *)
(***************************************************************************)

Paced == INSTANCE PacedClock WITH frontier <- baseline, total <- 100 * elapsed + carry

\* Whatever the interleaving of heartbeats, commands, chunks, cancellations,
\* refused backlogs and clock regressions, virtual time is the integral of the
\* speed over the settled real time: nothing is lost to rounding, delivered
\* twice after a cancelled settlement, or paid at a speed set later.
PacesExactly == Paced!Spec

\* The chunk the driver computes from the speed alone never exceeds the bound
\* the engine computes from the speed and its carry, so Elapse refuses a chunk
\* only at the end of the virtual lifetime.
ChunksFit ==
    \A p \in Procs :
        pc[p] = "deliver" =>
            LET chunk == Least(left, RealChunk(speed)) IN
            /\ 0 < chunk
            /\ chunk <= ElapseBound
            /\ Scaled(chunk) \div 100 <= MaxAdvance

\* With a monotonic clock a command takes effect at a settled real instant
\* between the call and the effect: no command is applied to the past, and no
\* real time that passed before the call is still owed when it applies.
EffectInsideCall ==
    Monotonic => \A p \in Callers : pc[p] = "apply" => baseline \in asked[p] .. now

\* Once the driver is stopped nothing moves the engine or the baseline again,
\* not even a command that was waiting for the mutex when Run returned.
StoppedIsFinal == [][stopped => UNCHANGED <<engine, baseline>>]_vars

\* README.md:108-109, "the service validates input before the driver settles any
\* elapsed time", for every input but one.  A command that was rejected after real
\* time was settled for it is a valid creation, for which there was room, under
\* the identifier of a removed station: nothing but the engine's memory of that
\* identifier speaks against it, and the driver sees active stations only.
OnlyReservedIdSettles ==
    \A r \in lateRejects :
        /\ r.cmd.op = "AddStation"
        /\ r.cmd.ok
        /\ r.stations[r.cmd.id] = Removed
        /\ ~Full(r.stations)

\* While Run is not stopped, owed real time is eventually delivered: commands
\* and readers cannot keep the heartbeat from settling.
CatchesUp == pc[Runner] = "loop" ~> (baseline >= now \/ stopped)

\* A cancelled Run returns whatever commands are under way, and every command
\* returns, also one that is waiting for the mutex while Run stops.
CallsReturn ==
    /\ pc[Runner] = "loop" /\ ~live[Runner] ~> pc[Runner] = "returned"
    /\ \A p \in Callers : pc[p] = "waiting" ~> pc[p] = "idle"
-------------------------------------------------------------------------------
(***************************************************************************)
(* The inductive invariant behind the proofs of DriverProofs.              *)
(***************************************************************************)

Holding == {"settle", "deliver", "apply"}

\* Exactly the mutex holder is inside a settlement or about to apply.
MutexHeld == \A p \in Procs : pc[p] \in Holding <=> mu = p

\* Run and the commands each keep to their own steps.
OwnSteps ==
    /\ pc[Runner] # "apply"
    /\ \A p \in Callers :
          /\ pc[p] \in {"idle", "waiting"} \cup Holding
          /\ pc[p] # "idle" => cmd[p] \in Commands

\* A delivery loop has real time left to deliver, all of it measured, at a
\* speed that is not zero.
Delivering ==
    \A p \in Procs :
        pc[p] = "deliver" =>
            /\ left > 0
            /\ baseline + left <= MaxNow
            /\ speed > 0

\* Run marks the driver stopped as its last step, with the mutex free, and
\* reports a clean stop only when its context was cancelled.
StoppedByRun ==
    /\ result = "clean" => ~live[Runner]
    /\ stopped <=> pc[Runner] = "returned"
    /\ stopped => \A p \in Procs : pc[p] \notin Holding

\* With a monotonic clock the settled instant is in the past, and what a
\* holder has measured reaches back at least to its call.
Measured ==
    Monotonic =>
        /\ baseline + left <= now
        /\ \A p \in Callers :
              /\ pc[p] \in {"waiting"} \cup Holding => asked[p] <= now
              /\ pc[p] = "deliver" => asked[p] <= baseline + left
              /\ pc[p] = "apply" => asked[p] <= baseline

IInv == TypeOK /\ MutexHeld /\ OwnSteps /\ Delivering /\ StoppedByRun /\ Measured
===============================================================================
