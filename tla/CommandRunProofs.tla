--------------------------- MODULE CommandRunProofs ---------------------------
(***************************************************************************)
(* Proofs about HTTPServerRun, for every set of connections, and about the *)
(* command that runs it, for every list of stations and every speed.       *)
(***************************************************************************)
EXTENDS CommandRun, SequenceTheorems, TLAPS

Stopping == run \in {"draining", "joinServe", "stopWork", "joinWork", "returned"}
Joined   == run \in {"stopWork", "joinWork", "returned"}

\* Serve refused the configuration.
Refused == run = "returned" /\ serving = "none"

\* How far Run is says what may still be running.
Phases ==
    /\ run = "start" => serving = "none" /\ work = "absent" /\ Active = {} /\ errs = {}
    /\ serving = "none" => (run = "start" \/ Refused) /\ work = "absent" /\ Active = {}
    /\ closing <=> Stopping /\ ~Refused
    /\ serving = "closed" => closing
    /\ workCtx <=> run \in {"joinWork", "returned"} /\ ~Refused
    /\ run \in {"joinServe", "stopWork", "joinWork", "returned"} => Active = {}
    /\ Joined => serving # "serving"
    /\ run = "returned" => work # "running"

\* What made Run stop: unless the work came first, a cancellation or a failure
\* of serving.
Reason ==
    /\ run \notin {"start", "select"} /\ ~Refused =>
           endedFirst \/ canceled \/ serving = "failed"
    /\ endedFirst => work = "ended" /\ early
    /\ work = "ended" /\ ~workCtx => early

\* Every cause that Run joins has happened, and is joined in time.
Causes ==
    /\ "config" \in errs <=> Refused
    /\ "drain" \in errs => expired
    /\ (\E r \in Requests : requests[r] \in {"cut", "abandoned"}) => "drain" \in errs
    /\ "serve" \in errs => serving = "failed"
    /\ Joined /\ serving = "failed" => "serve" \in errs
    /\ "stopped" \in errs => endedFirst
    /\ {"stopped", "work"} \cap errs # {} => run = "returned"
    /\ "work" \in errs => workErr = "failed"
    /\ run = "returned" /\ ~Refused => classifyWork(workErr, endedFirst) \subseteq errs

IInv == TypeOK /\ Phases /\ Reason /\ Causes

-------------------------------------------------------------------------------
\* Run's initial state satisfies the invariant.
LEMMA InitIInv == Init => IInv
  BY DEF Init, IInv, TypeOK, Phases, Reason, Causes, Active, Handling, Stopping, Joined, Refused

\* The environment: cancellation, connections, the goroutines, the timer.
LEMMA EnvironmentIInv ==
    ASSUME IInv,
           \/ Cancel \/ ServeReturns \/ WorkReturns \/ DrainExpires
           \/ \E r \in Requests : Accept(r) \/ Answer(r)
    PROVE  IInv'
  <1> USE DEF IInv, TypeOK, Phases, Reason, Causes, Active, Handling, Stopping, Joined, Refused,
              serverVars, workVars, classifyWork
  <1>1. CASE Cancel
    BY <1>1 DEF Cancel
  <1>2. CASE ServeReturns
    BY <1>2 DEF ServeReturns
  <1>3. CASE WorkReturns
    <2>1. early' \in BOOLEAN /\ (early' <=> ~workCtx)
      BY <1>3 DEF WorkReturns
    <2>2. run # "returned" /\ "work" \notin errs
      BY <1>3 DEF WorkReturns
    <2>3. TypeOK' /\ Phases'
      BY <1>3, <2>1, <2>2 DEF WorkReturns
    <2>4. Reason' /\ Causes'
      BY <1>3, <2>1, <2>2 DEF WorkReturns
    <2> QED
      BY <2>3, <2>4
  <1>4. CASE DrainExpires
    BY <1>4 DEF DrainExpires
  <1>5. ASSUME NEW r \in Requests, Accept(r)
        PROVE  IInv'
    BY <1>5 DEF Accept
  <1>6. ASSUME NEW r \in Requests, Answer(r)
        PROVE  IInv'
    BY <1>6 DEF Answer
  <1> QED
    BY <1>1, <1>2, <1>3, <1>4, <1>5, <1>6

\* Run itself, statement by statement.
LEMMA SuperviseIInv ==
    ASSUME IInv, Supervise
    PROVE  IInv'
  <1> USE DEF IInv, TypeOK, Phases, Reason, Causes, Active, Handling, Stopping, Joined, Refused,
              serverVars, workVars, classifyWork
  <1>1. CASE Refuse
    BY <1>1 DEF Refuse
  <1>2. CASE Start
    BY <1>2 DEF Start
  <1>3. CASE Select
    BY <1>3 DEF Select
  <1>4. CASE BeginShutdown
    BY <1>4 DEF BeginShutdown
  <1>5. CASE Drained
    BY <1>5 DEF Drained
  <1>6. CASE CutShort
    BY <1>6 DEF CutShort
  <1>7. CASE JoinServe
    BY <1>7 DEF JoinServe
  <1>8. CASE StopWork
    BY <1>8 DEF StopWork
  <1>9. CASE JoinWork
    BY <1>9 DEF JoinWork
  <1> QED
    BY <1>1, <1>2, <1>3, <1>4, <1>5, <1>6, <1>7, <1>8, <1>9 DEF Supervise

\* Every step of Run and of its environment keeps the invariant.
LEMMA StepIInv == IInv /\ [Next]_vars => IInv'
  <1> SUFFICES ASSUME IInv, [Next]_vars
               PROVE  IInv'
    OBVIOUS
  <1>1. CASE UNCHANGED vars
    BY <1>1 DEF IInv, TypeOK, Phases, Reason, Causes, Active, Handling, Stopping, Joined, Refused,
                vars, serverVars, workVars
  <1> QED
    BY <1>1, EnvironmentIInv, SuperviseIInv DEF Next

\* Run, and what it has started, are always where the invariant says.
LEMMA Invariant == Spec => []IInv
  BY InitIInv, StepIInv, PTL DEF Spec

-------------------------------------------------------------------------------
\* The invariant says what Run promises of the order of its shutdown.
LEMMA JoinedInTime == IInv => JoinInv
  <1>1. ASSUME IInv
        PROVE  Active = {} /\ Handling # {} => expired /\ "drain" \in errs
    BY <1>1 DEF IInv, Causes, Active, Handling
  <1>2. ASSUME IInv, workCtx \/ run = "returned"
        PROVE  Active = {}
    BY <1>2 DEF IInv, Phases
  <1>3. IInv /\ run = "returned" => serving # "serving" /\ work # "running"
    BY DEF IInv, Phases, Joined
  <1> QED
    BY <1>1, <1>2, <1>3 DEF IInv, JoinInv, WorkOutlivesRequests, NothingLeftBehind

\* "HTTP requests drain while work keeps running ... remaining connections are
\* then force-closed, and only afterwards is work canceled": for any number of
\* connections, whichever of the three ends comes first, work is stopped and Run
\* returns with no connection open, and a handler that still runs then is one that
\* was cut off and reported.
THEOREM JoinsEverything == Spec => []JoinInv
  BY JoinedInTime, Invariant, PTL

\* The invariant tells a clean stop from any other.
LEMMA CleanStop == IInv => NilIsCleanStop
  <1>1. ASSUME IInv, run = "returned", errs = {}
        PROVE  /\ canceled
               /\ serving = "closed"
               /\ \A r \in Requests : requests[r] \in {"none", "answered"}
               /\ workErr # "failed"
               /\ ~endedFirst
    <2>1. ~Refused /\ serving # "failed"
      BY <1>1 DEF IInv, Causes, Refused, Joined
    <2>2. ~endedFirst /\ workErr # "failed"
      BY <1>1, <2>1 DEF IInv, Causes, classifyWork, TypeOK
    <2>3. serving = "closed" /\ canceled
      BY <1>1, <2>1, <2>2 DEF IInv, Phases, Reason, Refused, Joined, TypeOK
    <2> QED
      BY <1>1, <2>2, <2>3 DEF IInv, TypeOK, Phases, Causes, Active
  <1>2. ASSUME IInv, serving = "closed", ~expired, ~early, workErr # "failed"
        PROVE  errs = {}
    BY <1>2 DEF IInv, TypeOK, Reason, Causes, Refused
  <1> QED
    BY <1>1, <1>2 DEF NilIsCleanStop

\* What the result of Run tells, in both directions: nil is a cancellation that
\* every request was answered under, with work that did not fail and that Run did
\* not wake up for; and a stop in time with work that waited to be told is nil.
THEOREM ResultIsTruthful == Spec => []NilIsCleanStop
  BY CleanStop, Invariant, PTL

-------------------------------------------------------------------------------
(***************************************************************************)
(* The command.  Serving takes HTTPServerRun's steps, so what holds of it   *)
(* there holds here; the rest says what run() has done by each of its      *)
(* steps.                                                                  *)
(***************************************************************************)

\* run() has reached httpserver.Serve.
Serves == serving # "none"

\* How far run() is says how far httpserver.Run is, and the other way round.
Stages ==
    /\ run = "start" <=> ~Serves
    /\ Serves => step \in {"serve", "exit"}
    /\ step = "install" => Simulates
    /\ step = "exit" => run \in {"start", "returned"}
    /\ step # "exit" <=> result = "none"
    /\ step = "exit" /\ run = "start" => result = "failed"
    /\ result = "ok" => run = "returned" /\ errs = {}

\* The application is where the goroutine that runs it is.
Workers ==
    /\ app = "none" => step \in {"compose", "exit"}
    /\ step = "compose" => app = "none"
    /\ app \in {"none", "configured"} \/ Serves
    /\ work = "absent" <=> ~Serves
    /\ work = "running" => app \in {"configured", "running"}
    /\ work = "ended" <=> app = "stopped"
    /\ app = "running" => work = "running"
    /\ early => workErr = "failed"

\* Whoever is responsible for the listener has closed it.
Listening ==
    /\ step \in {"compose", "install", "bind"} => listener = "none"
    /\ step = "exit" => listener # "open"
    /\ closing \/ serving \in {"closed", "failed"} => listener = "closed"

\* Nothing is paid for before the speed is restored, and every instant since.
Paced ==
    /\ frontier <= now
    /\ Len(born) <= Len(Stations)
    /\ \A i \in DOMAIN born : born[i] = 0
    /\ step \in {"bind", "start", "serve"} \/ Serves =>
           (Simulates => Len(born) = Len(Stations))
    /\ step = "serve" \/ Serves => (Simulates => restored # Never)
    /\ restored = Never => total = 0 /\ speed = 0
    /\ restored # Never =>
           /\ step \in {"serve", "exit"}
           /\ restored <= frontier
           /\ speed = ConfiguredSpeed
           /\ total = (frontier - restored) * ConfiguredSpeed

CommandIInv == CommandTypeOK /\ IInv /\ Stages /\ Workers /\ Listening /\ Paced

\* Composing, installing stations, binding and pacing leave the server alone.
LEMMA ServerSteps == [CommandNext]_commandVars => [Next]_vars
<1> SUFFICES ASSUME [CommandNext]_commandVars
             PROVE  [Next]_vars
    OBVIOUS
<1> USE DEF vars, serverVars, workVars, server
<1>1. CASE UNCHANGED commandVars
    BY <1>1 DEF commandVars
<1>2. CASE Tick \/ Pace
    BY <1>2 DEF Tick, Pace
<1>3. CASE Interrupt
    BY <1>3 DEF Interrupt, Next
<1>4. CASE Serve
    BY <1>4 DEF Serve, Next, Supervise
<1>5. CASE \/ ComposeFails \/ Compose \/ Install \/ InstallFails \/ Installed \/ BindFails \/ Bind
           \/ Restore \/ RestoreFails \/ AppRuns
    BY <1>5 DEF ComposeFails, Compose, Install, InstallFails, Installed, BindFails, Bind,
                Restore, RestoreFails, AppRuns
<1>6. CASE SuperviseListener
    BY <1>6 DEF SuperviseListener, Next, Supervise
<1>7. CASE ListenerReturns \/ Clients \/ BudgetExpires \/ AppReturns
    BY <1>7 DEF ListenerReturns, Clients, BudgetExpires, AppReturns, Next
<1>8. CASE Served
    BY <1>8 DEF Served
<1>9. QED
    BY <1>1, <1>2, <1>3, <1>4, <1>5, <1>6, <1>7, <1>8 DEF CommandNext, StartUp

\* The invariant holds where the command starts.
LEMMA InitCommandIInv == CommandInit => CommandIInv
<1> SUFFICES ASSUME CommandInit
             PROVE  CommandIInv
    OBVIOUS
<1>1. IInv
    BY InitIInv DEF CommandInit
<1>2. born = << >> /\ born \in Seq(Nat) /\ Len(born) = 0 /\ DOMAIN born = {}
    BY EmptySeq DEF CommandInit
<1>3. Len(Stations) \in Nat /\ MaxNow \in Nat
    BY CommandConstants, LenProperties
<1>4. CommandTypeOK
    BY <1>1, <1>2, <1>3 DEF IInv, CommandTypeOK, CommandInit
<1>5. Stages /\ Workers /\ Listening
    BY DEF Stages, Workers, Listening, Serves, CommandInit, Init
<1>6. Paced
    BY <1>2, <1>3 DEF Paced, Serves, CommandInit, Init
<1>7. QED
    BY <1>1, <1>4, <1>5, <1>6 DEF CommandIInv

\* Settling moves the frontier up to now; at speed 0 it costs nothing.
LEMMA SettleTyped ==
    ASSUME CommandIInv, Settle
    PROVE  /\ frontier' = now
           /\ total' \in Nat
           /\ speed = 0 => total' = total
           /\ restored # Never => total' = (now - restored) * ConfiguredSpeed
<1>1. /\ now \in Nat /\ frontier \in Nat /\ total \in Nat /\ speed \in Nat
      /\ ConfiguredSpeed \in Nat /\ frontier <= now
    BY CommandConstants DEF CommandIInv, CommandTypeOK, Paced
<1>2. ASSUME NEW d \in Nat, NEW v \in Nat
      PROVE  d * v \in Nat /\ (v = 0 => d * v = 0)
    BY <1>2
<1>3. now - frontier \in Nat /\ frontier' = now /\ total' = total + (now - frontier) * speed
    BY <1>1 DEF Settle
<1>4. (now - frontier) * speed \in Nat /\ (speed = 0 => (now - frontier) * speed = 0)
    BY <1>1, <1>2, <1>3
<1>5. ASSUME NEW n \in Nat, NEW f \in Nat, NEW r \in Nat, NEW v \in Nat
      PROVE  (f - r) * v + (n - f) * v = (n - r) * v
    BY <1>5
<1>6. ASSUME restored # Never
      PROVE  total' = (now - restored) * ConfiguredSpeed
    <2>1. restored \in Nat /\ speed = ConfiguredSpeed
          /\ total = (frontier - restored) * ConfiguredSpeed
        BY <1>6, CommandConstants DEF CommandIInv, CommandTypeOK, Paced
    <2>2. QED
        BY <1>1, <1>3, <1>5, <2>1
<1>7. QED
    BY <1>1, <1>3, <1>4, <1>6

\* Time passes, and is paid for.
LEMMA PacingKeeps ==
    ASSUME CommandIInv, Tick \/ Pace \/ Interrupt
    PROVE  CommandTypeOK' /\ Stages' /\ Workers' /\ Listening' /\ Paced'
<1> USE DEF server, command, clock, vars, serverVars, workVars
<1>1. CASE Tick
    <2>1. now \in Nat /\ now + 1 \in 0 .. MaxNow /\ frontier <= now + 1
        BY <1>1, CommandConstants DEF Tick, CommandIInv, CommandTypeOK, Paced
    <2>2. CommandTypeOK'
        BY <1>1, <2>1 DEF Tick, CommandIInv, CommandTypeOK, TypeOK
    <2>3. Stages' /\ Workers' /\ Listening'
        BY <1>1 DEF Tick, CommandIInv, Stages, Workers, Listening, Serves, Simulates
    <2>4. Paced'
        BY <1>1, <2>1 DEF Tick, CommandIInv, Paced, Serves, Simulates, Never
    <2>5. QED
        BY <2>2, <2>3, <2>4
<1>2. CASE Pace
    <2>1. Settle /\ UNCHANGED <<server, command, now, speed, restored>>
        BY <1>2 DEF Pace
    <2>2. /\ frontier' = now
          /\ total' \in Nat
          /\ speed = 0 => total' = total
          /\ restored # Never => total' = (now - restored) * ConfiguredSpeed
        BY <2>1, SettleTyped
    <2>3. CommandTypeOK'
        BY <2>1, <2>2 DEF CommandIInv, CommandTypeOK, TypeOK
    <2>4. Stages' /\ Workers' /\ Listening'
        BY <2>1 DEF CommandIInv, Stages, Workers, Listening, Serves, Simulates
    <2>5. now \in Nat /\ (restored # Never => restored <= now)
        BY CommandConstants DEF CommandIInv, CommandTypeOK, Paced
    <2>6. Paced'
        BY <2>1, <2>2, <2>5 DEF CommandIInv, Paced, Serves, Simulates
    <2>7. QED
        BY <2>3, <2>4, <2>6
<1>3. CASE Interrupt
    <2>1. CommandTypeOK'
        BY <1>3 DEF Interrupt, Cancel, CommandIInv, CommandTypeOK, TypeOK
    <2>2. Stages' /\ Workers' /\ Listening' /\ Paced'
        BY <1>3 DEF Interrupt, Cancel, CommandIInv, Stages, Workers, Listening, Paced, Serves,
                    Simulates
    <2>3. QED
        BY <2>1, <2>2
<1>4. QED
    BY <1>1, <1>2, <1>3

\* Each step before serving leaves what the next one finds, and its failure
\* leaves nothing open.
LEMMA StartUpKeeps ==
    ASSUME CommandIInv, StartUp
    PROVE  CommandTypeOK' /\ Stages' /\ Workers' /\ Listening' /\ Paced'
<1> USE DEF server, command, clock, vars, serverVars, workVars
<1> DEFINE Goal == CommandTypeOK' /\ Stages' /\ Workers' /\ Listening' /\ Paced'
<1>1. CASE ComposeFails \/ BindFails \/ InstallFails
    <2>1. Exit("failed") /\ UNCHANGED <<server, mode, listener, app, born, clock, now>>
          /\ step \in {"compose", "install", "bind"}
        BY <1>1 DEF ComposeFails, BindFails, InstallFails
    <2>2. CommandTypeOK'
        BY <2>1 DEF Exit, CommandIInv, CommandTypeOK, TypeOK
    <2>3. Stages' /\ Workers' /\ Listening' /\ Paced'
        BY <2>1 DEF Exit, CommandIInv, Stages, Workers, Listening, Paced, Serves, Simulates
    <2>4. QED
        BY <2>2, <2>3
<1>2. CASE Compose
    <2>1. CommandTypeOK'
        BY <1>2 DEF Compose, CommandIInv, CommandTypeOK, TypeOK
    <2>2. Stages' /\ Workers' /\ Listening'
        BY <1>2 DEF Compose, CommandIInv, Stages, Workers, Listening, Serves, Simulates
    <2>3. now \in Nat /\ ~Serves /\ restored = Never /\ Len(born) \in Nat
        BY <1>2, CommandConstants, LenProperties
           DEF Compose, CommandIInv, CommandTypeOK, Stages, Paced, Serves
    <2>4. mode # "display" => step' = "install"
        BY <1>2 DEF Compose, Simulates
    <2>5. Paced'
        BY <1>2, <2>3, <2>4 DEF Compose, CommandIInv, Paced, Serves, Simulates
    <2>6. QED
        BY <2>1, <2>2, <2>5
<1>3. CASE Install
    <2>1. /\ Settle
          /\ born' = Append(born, total')
          /\ UNCHANGED <<server, mode, step, listener, result, app, speed, restored, now>>
          /\ step = "install" /\ Len(born) < Len(Stations)
        BY <1>3 DEF Install
    <2>2. frontier' = now /\ total' \in Nat /\ (speed = 0 => total' = total)
        BY <2>1, SettleTyped
    <2>3. ~Serves /\ restored = Never /\ total = 0 /\ speed = 0
        BY <2>1 DEF CommandIInv, Stages, Paced, Serves
    <2>4. born \in Seq(Nat) /\ total' = 0
        BY <2>2, <2>3 DEF CommandIInv, CommandTypeOK
    <2>5. /\ born' \in Seq(Nat) /\ Len(born') = Len(born) + 1
          /\ \A i \in 1 .. Len(born) : born'[i] = born[i]
          /\ born'[Len(born) + 1] = 0
        BY <2>1, <2>4, AppendProperties
    <2>6. Len(born) \in Nat /\ Len(Stations) \in Nat
          /\ DOMAIN born = 1 .. Len(born) /\ DOMAIN born' = 1 .. Len(born')
        BY <2>4, <2>5, CommandConstants, LenProperties
    <2>7. Len(born') <= Len(Stations) /\ \A i \in DOMAIN born' : born'[i] = 0
        BY <2>1, <2>5, <2>6 DEF CommandIInv, Paced
    <2>8. CommandTypeOK'
        BY <2>1, <2>2, <2>5 DEF CommandIInv, CommandTypeOK, TypeOK
    <2>9. Stages' /\ Workers' /\ Listening'
        BY <2>1 DEF CommandIInv, Stages, Workers, Listening, Serves, Simulates
    <2>10. now \in Nat
        BY CommandConstants DEF CommandIInv, CommandTypeOK
    <2>11. Paced'
        BY <2>1, <2>2, <2>3, <2>4, <2>7, <2>10 DEF CommandIInv, Paced, Serves, Simulates
    <2>12. QED
        BY <2>8, <2>9, <2>11
<1>4. CASE Installed \/ Bind \/ AppRuns
    <2>1. CommandTypeOK'
        BY <1>4 DEF Installed, Bind, AppRuns, CommandIInv, CommandTypeOK, TypeOK
    <2>2. Stages' /\ Workers' /\ Listening' /\ Paced'
        BY <1>4 DEF Installed, Bind, AppRuns, CommandIInv, CommandTypeOK, Stages, Workers,
                    Listening, Paced, Serves, Simulates
    <2>3. QED
        BY <2>1, <2>2
<1>5. CASE Restore
    <2>1. ~Serves /\ now \in Nat /\ (restored = Never => total = 0 /\ speed = 0)
        BY <1>5, CommandConstants DEF Restore, CommandIInv, CommandTypeOK, Stages, Paced, Serves
    <2>2. restored = Never
        BY <1>5 DEF Restore, CommandIInv, Paced
    <2>3. Simulates => frontier' = now /\ total' = 0 /\ speed' = ConfiguredSpeed /\ restored' = now
        BY <1>5, <2>1, <2>2, SettleTyped DEF Restore
    <2>4. ~Simulates => UNCHANGED clock
        BY <1>5 DEF Restore
    <2>5. CommandTypeOK'
        BY <1>5, <2>1, <2>3, <2>4, CommandConstants
           DEF Restore, CommandIInv, CommandTypeOK, TypeOK
    <2>6. Stages' /\ Workers' /\ Listening'
        BY <1>5 DEF Restore, CommandIInv, Stages, Workers, Listening, Serves, Simulates
    <2>7. now # Never /\ 0 = (now - now) * ConfiguredSpeed
        BY <2>1, CommandConstants DEF Never
    <2>8. step' = "serve" /\ UNCHANGED <<server, mode, born, now>> /\ step = "start"
        BY <1>5 DEF Restore
    <2>9. Paced'
        <3>1. CASE Simulates
            BY <2>1, <2>3, <2>7, <2>8, <3>1 DEF CommandIInv, Paced, Serves, Simulates
        <3>2. CASE ~Simulates
            BY <2>1, <2>2, <2>4, <2>8, <3>2 DEF CommandIInv, Paced, Serves, Simulates
        <3>3. QED
            BY <3>1, <3>2
    <2>10. QED
        BY <2>5, <2>6, <2>9
<1>6. CASE RestoreFails
    <2>1. CommandTypeOK'
        BY <1>6 DEF RestoreFails, Exit, CommandIInv, CommandTypeOK, TypeOK
    <2>2. Stages' /\ Workers' /\ Listening' /\ Paced'
        BY <1>6 DEF RestoreFails, Exit, CommandIInv, Stages, Workers, Listening, Paced, Serves,
                    Simulates
    <2>3. QED
        BY <2>1, <2>2
<1>7. CASE Serve
    <2>1. CommandTypeOK'
        BY <1>7 DEF Serve, Start, CommandIInv, CommandTypeOK, TypeOK
    <2>2. Stages' /\ Workers' /\ Listening'
        BY <1>7 DEF Serve, Start, CommandIInv, IInv, Phases, TypeOK, Stages, Workers, Listening,
                    Serves, Simulates
    <2>3. Paced'
        BY <1>7 DEF Serve, Start, CommandIInv, Paced, Serves, Simulates
    <2>4. QED
        BY <2>1, <2>2, <2>3
<1>8. QED
    BY <1>1, <1>2, <1>3, <1>4, <1>5, <1>6, <1>7 DEF StartUp

\* While the command serves, the listener and the application end before it does.
LEMMA ServingKeeps ==
    ASSUME CommandIInv,
           \/ SuperviseListener \/ ListenerReturns \/ Clients \/ BudgetExpires \/ AppReturns
           \/ Served
    PROVE  CommandTypeOK' /\ Stages' /\ Workers' /\ Listening' /\ Paced'
<1> USE DEF server, command, clock, vars, serverVars, workVars
<1>1. IInv'
    <2>1. [Next]_vars
        BY ServerSteps DEF CommandNext
    <2>2. QED
        BY <2>1, StepIInv DEF CommandIInv
<1>2. ~Refused
    BY DEF CommandIInv, Stages, Serves, Refused
<1>3. CASE SuperviseListener
    <2>1. /\ listener' = IF closing' THEN "closed" ELSE listener
          /\ UNCHANGED <<mode, step, result, app, born, clock, now>>
          /\ UNCHANGED <<serving, work>>
          /\ UNCHANGED <<early, workErr>>
          /\ run \notin {"start", "returned"} /\ run' # "start" /\ (closing => closing')
        BY <1>3 DEF SuperviseListener, Select, BeginShutdown, Drained, CutShort, JoinServe, StopWork,
                    JoinWork, CommandIInv, IInv, TypeOK
    <2>2. CommandTypeOK'
        BY <1>1, <2>1 DEF CommandIInv, CommandTypeOK, IInv
    <2>3. Stages'
        BY <2>1 DEF CommandIInv, CommandTypeOK, Stages, Serves, Simulates
    <2>4. Workers' /\ Listening' /\ Paced'
        BY <2>1 DEF CommandIInv, Stages, Workers, Listening, Paced, Serves, Simulates
    <2>5. QED
        BY <2>2, <2>3, <2>4
<1>4. CASE ListenerReturns
    <2>1. CommandTypeOK'
        BY <1>1, <1>4 DEF ListenerReturns, CommandIInv, CommandTypeOK, IInv
    <2>2. serving = "serving" /\ serving' \in {"closed", "failed"}
        BY <1>4 DEF ListenerReturns, ServeReturns
    <2>3. Stages' /\ Workers' /\ Listening' /\ Paced'
        BY <1>4, <2>2 DEF ListenerReturns, ServeReturns, CommandIInv, Stages, Workers, Listening,
                          Paced, Serves, Simulates
    <2>4. QED
        BY <2>1, <2>3
<1>5. CASE Clients \/ BudgetExpires
    <2>1. /\ UNCHANGED <<command, clock, now>>
          /\ UNCHANGED <<run, serving, closing, work, workErr, early, errs>>
        BY <1>5 DEF Clients, BudgetExpires, Accept, Answer, DrainExpires
    <2>2. CommandTypeOK'
        BY <1>1, <2>1 DEF CommandIInv, CommandTypeOK, IInv
    <2>3. Stages' /\ Workers' /\ Listening' /\ Paced'
        BY <2>1 DEF CommandIInv, Stages, Workers, Listening, Paced, Serves, Simulates
    <2>4. QED
        BY <2>2, <2>3
<1>6. CASE AppReturns
    <2>1. CommandTypeOK'
        BY <1>1, <1>6 DEF AppReturns, CommandIInv, CommandTypeOK, IInv
    <2>2. Stages' /\ Workers' /\ Listening' /\ Paced'
        BY <1>6 DEF AppReturns, WorkReturns, CommandIInv, Stages, Workers, Listening, Paced,
                    Serves, Simulates
    <2>3. QED
        BY <2>1, <2>2
<1>7. CASE Served
    <2>1. CommandTypeOK'
        BY <1>1, <1>7 DEF Served, Exit, CommandIInv, CommandTypeOK, IInv
    <2>2. closing
        BY <1>2, <1>7 DEF Served, CommandIInv, IInv, Phases, Stopping
    <2>3. Stages' /\ Workers' /\ Listening' /\ Paced'
        BY <1>7, <2>2 DEF Served, Exit, CommandIInv, Stages, Workers, Listening, Paced, Serves,
                          Simulates
    <2>4. QED
        BY <2>1, <2>3
<1>8. QED
    BY <1>3, <1>4, <1>5, <1>6, <1>7

\* Every step of the command keeps the invariant.
LEMMA StepCommandIInv == CommandIInv /\ [CommandNext]_commandVars => CommandIInv'
<1> SUFFICES ASSUME CommandIInv, [CommandNext]_commandVars
             PROVE  CommandIInv'
    OBVIOUS
<1>1. IInv'
    BY ServerSteps, StepIInv DEF CommandIInv
<1>2. CASE UNCHANGED commandVars
    <2>1. UNCHANGED <<server, command, clock, now>>
        BY <1>2 DEF commandVars
    <2>2. CommandTypeOK' /\ Stages' /\ Workers' /\ Listening' /\ Paced'
        BY <2>1 DEF server, vars, serverVars, workVars, command, clock, CommandIInv,
                    CommandTypeOK, TypeOK, Stages, Workers, Listening, Paced, Serves, Simulates
    <2>3. QED
        BY <1>1, <2>2 DEF CommandIInv
<1>3. QED
    BY <1>1, <1>2, PacingKeeps, StartUpKeeps, ServingKeeps DEF CommandNext, CommandIInv

-------------------------------------------------------------------------------
\* run() and what it composed are always where the invariant says.
THEOREM CommandInvariance == CommandSpec => []CommandIInv
<1>1. QED
    BY InitCommandIInv, StepCommandIInv, PTL DEF CommandSpec

\* "Construction and station installation never advance traffic", and whichever
\* step failed or was cancelled, an exited command holds no listener and no
\* connection and has no application running; it reports success only for a
\* cancellation after it had served, with every handler finished.  For any list of
\* stations, any speed and any delays.
THEOREM CommandIsSound == CommandSpec => []CommandInv
<1>1. ASSUME CommandIInv
      PROVE  CommandInv
    <2>1. ~Refused
        BY <1>1 DEF CommandIInv, Stages, Serves, Refused
    <2>2. JoinInv
        BY <1>1, JoinedInTime DEF CommandIInv
    <2>3. StartUpIsFree
        BY <1>1 DEF CommandIInv, Paced, StartUpIsFree, Serves
    <2>4. ASSUME step = "exit"
          PROVE  listener # "open" /\ serving # "serving" /\ Active = {} /\ app # "running"
        BY <1>1, <2>4 DEF CommandIInv, Stages, Workers, Listening, IInv, Phases, Joined, Serves
    <2>5. ASSUME step = "exit", result = "ok"
          PROVE  canceled /\ serving = "closed" /\ app = "stopped" /\ Handling = {} /\ ~early
        <3>1. run = "returned" /\ errs = {}
            BY <1>1, <2>5 DEF CommandIInv, Stages
        <3>2. canceled /\ serving = "closed" /\ Handling = {} /\ workErr # "failed"
            BY <1>1, <3>1, CleanStop DEF CommandIInv, NilIsCleanStop, Handling
        <3>3. work = "ended"
            BY <1>1, <3>1, <3>2 DEF CommandIInv, IInv, TypeOK, Phases, Workers, Serves
        <3>4. QED
            BY <1>1, <3>2, <3>3 DEF CommandIInv, Workers
    <2>6. NothingLeaks
        BY <2>4, <2>5 DEF NothingLeaks
    <2>7. QED
        BY <1>1, <2>2, <2>3, <2>6 DEF CommandInv, CommandIInv
<1>2. QED
    BY <1>1, CommandInvariance, PTL

\* The command reports what its server reported: a clean stop and nothing else.
THEOREM CommandResultIsTruthful == CommandSpec => []NilIsCleanStop
<1>1. CommandIInv => NilIsCleanStop
    BY CleanStop DEF CommandIInv
<1>2. QED
    BY <1>1, CommandInvariance, PTL
===============================================================================
