------------------------------ MODULE CommandRun ------------------------------
(***************************************************************************)
(* One command from its start to its exit (internal/cli/run.go), with the  *)
(* application it composes (testbench/app.go): a simulator is created      *)
(* paused, its stations are installed one by one, the listener is bound,   *)
(* the configured speed is restored, and then httpserver.Run serves and    *)
(* supervises App.Run.  Real time passes all along, and the context may be *)
(* cancelled at any moment.                                                *)
(*                                                                         *)
(* Serving is HTTPServerRun; the pacing driver is reduced to what Driver   *)
(* promises (PacedClock): real time up to a frontier has been paid.        *)
(***************************************************************************)
EXTENDS HTTPServerRun, Integers, Sequences

CONSTANTS
    Stations,         \* the configured stations, in order
    ConfiguredSpeed,  \* in hundredths
    MaxNow            \* bound: the last real instant

ASSUME CommandConstants ==
    /\ Stations \in Seq(STRING)
    /\ ConfiguredSpeed \in Nat
    /\ MaxNow \in Nat

VARIABLES
    \* the command
    mode,      \* "combined", "simulator" or "display"
    step,      \* where run() is
    listener,  \* "none", "open" or "closed"
    result,    \* what Run returned
    app,       \* App.state
    born,      \* virtual instants at which stations were installed
    \* the driver, virtual time in hundredths
    now, frontier, total, speed,
    restored   \* history: the real instant at which the speed was restored

server  == vars
clock   == <<frontier, total, speed, restored>>
command == <<mode, step, listener, result, app, born>>
commandVars == <<server, command, clock, now>>

Never == -1

Simulates == mode # "display"

CommandTypeOK ==
    /\ TypeOK
    /\ mode \in {"combined", "simulator", "display"}
    /\ step \in {"compose", "install", "bind", "start", "serve", "exit"}
    /\ listener \in {"none", "open", "closed"}
    /\ result \in {"none", "ok", "failed"}
    /\ app \in {"none", "configured", "running", "stopped"}
    /\ born \in Seq(Nat)
    /\ {now, frontier} \subseteq 0 .. MaxNow
    /\ {total, speed} \subseteq Nat
    /\ restored \in 0 .. MaxNow \cup {Never}

CommandInit ==
    /\ Init
    /\ mode \in {"combined", "simulator", "display"}
    /\ step = "compose"
    /\ listener = "none"
    /\ result = "none"
    /\ app = "none"
    /\ born = << >>
    /\ now = 0
    /\ frontier = 0
    /\ total = 0
    /\ speed = 0
    /\ restored = Never

-------------------------------------------------------------------------------
(***************************************************************************)
(* Real time, and the driver.                                              *)
(***************************************************************************)

Tick ==
    /\ now < MaxNow
    /\ now' = now + 1
    /\ UNCHANGED <<server, command, clock>>

\* A settlement pays the time since the last one at the speed in force.
Settle ==
    /\ frontier' = now
    /\ total' = total + (now - frontier) * speed

\* The heartbeat of App.Run, or a command of a request.
Pace ==
    /\ Simulates
    /\ app = "running" \/ (app = "configured" /\ Handling # {})
    /\ frontier < now
    /\ Settle
    /\ UNCHANGED <<server, command, now, speed, restored>>

-------------------------------------------------------------------------------
(***************************************************************************)
(* Before serving.                                                         *)
(***************************************************************************)

Exit(outcome) ==
    /\ step' = "exit"
    /\ result' = outcome

\* A file that cannot be read or parsed, no entropy for the run's identity, a
\* constructor that refuses.
ComposeFails ==
    /\ step = "compose"
    /\ Exit("failed")
    /\ UNCHANGED <<server, mode, listener, app, born, clock, now>>

\* The driver measures real time from here on; the engine is paused.
Compose ==
    /\ step = "compose"
    /\ step' = IF Simulates THEN "install" ELSE "bind"
    /\ app' = "configured"
    /\ frontier' = now
    /\ speed' = 0
    /\ UNCHANGED <<server, mode, listener, result, born, total, restored, now>>

\* AddStation settles, which a cancelled context prevents.
Install ==
    /\ step = "install"
    /\ Len(born) < Len(Stations)
    /\ ~canceled
    /\ Settle
    /\ born' = Append(born, total')
    /\ UNCHANGED <<server, mode, step, listener, result, app, speed, restored, now>>

\* A station is invalid, or the context is cancelled.
InstallFails ==
    /\ step = "install"
    /\ Len(born) < Len(Stations)
    /\ Exit("failed")
    /\ UNCHANGED <<server, mode, listener, app, born, clock, now>>

Installed ==
    /\ step = "install"
    /\ Len(born) = Len(Stations)
    /\ step' = "bind"
    /\ UNCHANGED <<server, mode, listener, result, app, born, clock, now>>

BindFails ==
    /\ step = "bind"
    /\ Exit("failed")
    /\ UNCHANGED <<server, mode, listener, app, born, clock, now>>

Bind ==
    /\ step = "bind"
    /\ listener' = "open"
    /\ step' = "start"
    /\ UNCHANGED <<server, mode, result, app, born, clock, now>>

\* A display has nothing to start; SetSpeed settles first.
Restore ==
    /\ step = "start"
    /\ step' = "serve"
    /\ IF Simulates THEN /\ ~canceled
                         /\ Settle
                         /\ speed' = ConfiguredSpeed
                         /\ restored' = now
                    ELSE UNCHANGED clock
    /\ UNCHANGED <<server, mode, listener, result, app, born, now>>

\* The listener is closed here: nobody owns it yet.
RestoreFails ==
    /\ step = "start"
    /\ Simulates
    /\ canceled
    /\ listener' = "closed"
    /\ Exit("failed")
    /\ UNCHANGED <<server, mode, app, born, clock, now>>

-------------------------------------------------------------------------------
(***************************************************************************)
(* Serving.                                                                *)
(***************************************************************************)

\* httpserver.Run has work here, and its inputs were validated by ParseFile.
Serve ==
    /\ step = "serve"
    /\ Start
    /\ work' = "running"
    /\ UNCHANGED <<command, clock, now>>

\* App.Run enters; until then the application is configured only.
AppRuns ==
    /\ work = "running"
    /\ app = "configured"
    /\ app' = "running"
    /\ UNCHANGED <<server, mode, step, listener, result, born, clock, now>>

\* App.Run returns: nil once its context is cancelled, and an error when pacing
\* fails, which a display does not.
AppReturns ==
    /\ app = "running"
    /\ app' = "stopped"
    /\ WorkReturns
    /\ IF workCtx THEN workErr' = "nil" ELSE Simulates /\ workErr' = "failed"
    /\ UNCHANGED <<mode, step, listener, result, born, clock, now>>

\* Shutdown closes the listener, and so does Serve when it returns.
SuperviseListener ==
    /\ Select \/ BeginShutdown \/ Drained \/ CutShort
         \/ JoinServe \/ StopWork \/ JoinWork
    /\ listener' = IF closing' THEN "closed" ELSE listener
    /\ UNCHANGED <<mode, step, result, app, born, clock, now>>

ListenerReturns ==
    /\ ServeReturns
    /\ listener' = "closed"
    /\ UNCHANGED <<mode, step, result, app, born, clock, now>>

Clients ==
    /\ \E r \in Requests : Accept(r) \/ Answer(r)
    /\ UNCHANGED <<command, clock, now>>

BudgetExpires == DrainExpires /\ UNCHANGED <<command, clock, now>>

Interrupt == step # "exit" /\ Cancel /\ UNCHANGED <<command, clock, now>>

Served ==
    /\ step = "serve"
    /\ run = "returned"
    /\ Exit(IF errs = {} THEN "ok" ELSE "failed")
    /\ UNCHANGED <<server, mode, listener, app, born, clock, now>>

StartUp ==
    \/ ComposeFails \/ Compose \/ Install \/ InstallFails \/ Installed \/ BindFails \/ Bind
    \/ Restore \/ RestoreFails \/ Serve \/ AppRuns

CommandNext ==
    \/ Tick \/ Pace \/ Interrupt
    \/ StartUp
    \/ SuperviseListener \/ ListenerReturns \/ Clients \/ BudgetExpires \/ AppReturns \/ Served

CommandSpec == CommandInit /\ [][CommandNext]_commandVars

\* The command's own steps go on, Serve returns once its listener is closed, the
\* drain has a timer, and App.Run returns once its context is cancelled.  A
\* handler need not ever answer.
CommandFairness ==
    /\ WF_commandVars(StartUp)
    /\ WF_commandVars(SuperviseListener)
    /\ WF_commandVars(Served)
    /\ WF_commandVars(closing /\ ListenerReturns)
    /\ WF_commandVars(BudgetExpires)
    /\ WF_commandVars(workCtx /\ AppReturns)

FairCommandSpec == CommandSpec /\ CommandFairness

-------------------------------------------------------------------------------
(***************************************************************************)
(* Properties.                                                             *)
(***************************************************************************)

\* "Construction and station installation never advance traffic" (compose):
\* however long starting up takes, each configured station exists from the first
\* instant, all of them before anyone is served, and virtual time counts from
\* the moment the speed was restored, at that speed, and not before.
StartUpIsFree ==
    /\ \A i \in DOMAIN born : born[i] = 0
    /\ serving # "none" /\ Simulates => Len(born) = Len(Stations) /\ restored # Never
    /\ total = IF restored = Never THEN 0 ELSE (frontier - restored) * ConfiguredSpeed

\* Whichever step failed or was cancelled, an exited command holds no listener
\* and no connection and has no application running (run, "the listener is closed
\* here on every failure before serving starts"); and it reports success only
\* for a cancellation after it had served, with every handler finished and an
\* application that ended because it was told to.
NothingLeaks ==
    step = "exit" =>
        /\ listener # "open"
        /\ serving # "serving"
        /\ Active = {}
        /\ app # "running"
        /\ result = "ok" => /\ canceled
                            /\ serving = "closed"
                            /\ app = "stopped"
                            /\ Handling = {}
                            /\ ~early

CommandInv == CommandTypeOK /\ JoinInv /\ StartUpIsFree /\ NothingLeaks

\* A command exits once it is cancelled, however far it got, and once its server
\* or its application has ended.
CommandExits == canceled \/ serving = "failed" \/ work = "ended" ~> step = "exit"
===============================================================================
