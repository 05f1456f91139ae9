----------------------------- MODULE HTTPServerRun ----------------------------
(***************************************************************************)
(* httpserver.Run (internal/httpserver/server.go): one call supervises the *)
(* serving goroutine, the background work (the pacing driver or the        *)
(* display's refresh loop) and the shutdown.  The processes are Run, the   *)
(* serving goroutine, the work and the requests in flight; net/http's      *)
(* Shutdown and Close are modelled from how Run uses them.                 *)
(***************************************************************************)
EXTENDS FiniteSets

CONSTANTS Requests    \* the connections clients may open

VARIABLES
    run,        \* where Run is
    canceled,   \* its context is canceled
    serving,    \* the serving goroutine: "none", "serving", "closed", "failed"
    closing,    \* Shutdown has closed the listener
    expired,    \* the drain budget is used up
    requests,   \* per connection: "none", "active", "answered"; force-closed, "cut"
                \* while its handler still runs and "abandoned" once it has ended
    work,       \* the work goroutine: "absent", "running" or "ended"
    workErr,    \* what the work returned
    workCtx,    \* whether Run has canceled the work's context
    endedFirst, \* workEndedFirst
    errs,       \* the causes joined so far
    early       \* history: the work returned before Run canceled it

serverVars == <<serving, closing, requests>>
workVars   == <<work, workErr, early>>
vars == <<run, canceled, expired, serverVars, workVars, workCtx, endedFirst, errs>>

\* The connections with a request in flight, and those whose handler runs:
\* closing a connection does not end its handler.
Active   == {r \in Requests : requests[r] = "active"}
Handling == {r \in Requests : requests[r] \in {"active", "cut"}}

TypeOK ==
    /\ run \in {"start", "select", "shutdown", "draining", "joinServe", "stopWork", "joinWork",
                "returned"}
    /\ {canceled, closing, expired, workCtx, endedFirst, early} \subseteq BOOLEAN
    /\ serving \in {"none", "serving", "closed", "failed"}
    /\ requests \in [Requests -> {"none", "active", "answered", "cut", "abandoned"}]
    /\ work \in {"absent", "running", "ended"}
    /\ workErr \in {"nil", "canceled", "failed"}
    /\ errs \subseteq {"config", "drain", "serve", "stopped", "work"}

Init ==
    /\ run = "start"
    /\ canceled = FALSE
    /\ serving = "none"
    /\ closing = FALSE
    /\ expired = FALSE
    /\ requests = [r \in Requests |-> "none"]
    /\ work = "absent"
    /\ workErr = "nil"
    /\ workCtx = FALSE
    /\ endedFirst = FALSE
    /\ errs = {}
    /\ early = FALSE

-------------------------------------------------------------------------------
(***************************************************************************)
(* The environment, the serving goroutine, the work.                       *)
(***************************************************************************)

Cancel ==
    /\ ~canceled
    /\ canceled' = TRUE
    /\ UNCHANGED <<run, expired, serverVars, workVars, workCtx, endedFirst, errs>>

Accept(r) ==
    /\ serving = "serving"
    /\ ~closing
    /\ requests[r] = "none"
    /\ requests' = [requests EXCEPT ![r] = "active"]
    /\ UNCHANGED <<run, canceled, expired, serving, closing, workVars, workCtx, endedFirst, errs>>

\* A handler returns whenever it does, if ever: after Run as well, once its
\* connection is closed.
Answer(r) ==
    /\ r \in Handling
    /\ requests' = [requests EXCEPT ![r] = IF r \in Active THEN "answered" ELSE "abandoned"]
    /\ UNCHANGED <<run, canceled, expired, serving, closing, workVars, workCtx, endedFirst, errs>>

\* Serve returns: ErrServerClosed once the listener is closed, or a failure.
ServeReturns ==
    /\ serving = "serving"
    /\ serving' \in IF closing THEN {"closed"} ELSE {"failed"}
    /\ UNCHANGED <<run, canceled, expired, closing, requests, workVars, workCtx, endedFirst, errs>>

\* The work may return at any moment, with any result.
WorkReturns ==
    /\ work = "running"
    /\ work' = "ended"
    /\ workErr' \in {"nil", "canceled", "failed"}
    /\ early' = ~workCtx
    /\ UNCHANGED <<run, canceled, expired, serverVars, workCtx, endedFirst, errs>>

\* The drain's context has its timeout.
DrainExpires ==
    /\ run = "draining"
    /\ ~expired
    /\ expired' = TRUE
    /\ UNCHANGED <<run, canceled, serverVars, workVars, workCtx, endedFirst, errs>>

-------------------------------------------------------------------------------
(***************************************************************************)
(* Run.                                                                    *)
(***************************************************************************)

\* Serve refuses an invalid configuration before anything is started.
Refuse ==
    /\ run = "start"
    /\ run' = "returned"
    /\ errs' = {"config"}
    /\ UNCHANGED <<canceled, expired, serverVars, workVars, workCtx, endedFirst>>

Start ==
    /\ run = "start"
    /\ run' = "select"
    /\ serving' = "serving"
    /\ work' \in {"absent", "running"}
    /\ UNCHANGED <<canceled, expired, closing, requests, workErr, early, workCtx, endedFirst, errs>>

\* Mutant: a serving failure does not wake Run.
SelectWithoutServer ==
    /\ run = "select"
    /\ \/ canceled /\ endedFirst' = FALSE
       \/ work = "ended" /\ endedFirst' = TRUE
    /\ run' = "shutdown"
    /\ UNCHANGED <<canceled, expired, serverVars, workVars, workCtx, errs>>

\* The select: any arm that is ready may be taken.
Select ==
    /\ run = "select"
    /\ \/ canceled /\ endedFirst' = FALSE
       \/ serving \in {"closed", "failed"} /\ endedFirst' = FALSE
       \/ work = "ended" /\ endedFirst' = TRUE
    /\ run' = "shutdown"
    /\ UNCHANGED <<canceled, expired, serverVars, workVars, workCtx, errs>>

\* http.Server.Shutdown closes the listener, then waits.
BeginShutdown ==
    /\ run = "shutdown"
    /\ run' = "draining"
    /\ closing' = TRUE
    /\ UNCHANGED <<canceled, expired, serving, requests, workVars, workCtx, endedFirst, errs>>

Drained ==
    /\ run = "draining"
    /\ Active = {}
    /\ run' = "joinServe"
    /\ UNCHANGED <<canceled, expired, serverVars, workVars, workCtx, endedFirst, errs>>

\* Mutant: that the drain was cut short is not reported.
CutSilently ==
    /\ run = "draining"
    /\ expired
    /\ run' = "joinServe"
    /\ requests' = [r \in Requests |-> IF r \in Active THEN "cut" ELSE requests[r]]
    /\ UNCHANGED <<canceled, expired, serving, closing, workVars, workCtx, endedFirst, errs>>

\* The budget ran out: Close closes the connections that are left, and does not
\* wait for their handlers.  Shutdown looks at its context between two polls, so
\* this may happen although the last request is answered.
CutShort ==
    /\ run = "draining"
    /\ expired
    /\ run' = "joinServe"
    /\ requests' = [r \in Requests |-> IF r \in Active THEN "cut" ELSE requests[r]]
    /\ errs' = errs \cup {"drain"}
    /\ UNCHANGED <<canceled, expired, serving, closing, workVars, workCtx, endedFirst>>

JoinServe ==
    /\ run = "joinServe"
    /\ serving \in {"closed", "failed"}
    /\ run' = "stopWork"
    /\ errs' = errs \cup IF serving = "failed" THEN {"serve"} ELSE {}
    /\ UNCHANGED <<canceled, expired, serverVars, workVars, workCtx, endedFirst>>

StopWork ==
    /\ run = "stopWork"
    /\ run' = "joinWork"
    /\ workCtx' = TRUE
    /\ UNCHANGED <<canceled, expired, serverVars, workVars, endedFirst, errs>>

\* Mutant: only work that ended first is reported.
ClassifyFirstOnly(err, first) == IF first THEN {"stopped"} ELSE {}

classifyWork(err, first) ==
    IF first THEN {"stopped"}
    ELSE IF err = "failed" THEN {"work"} ELSE {}

JoinWork ==
    /\ run = "joinWork"
    /\ work # "running"
    /\ run' = "returned"
    /\ errs' = errs \cup classifyWork(workErr, endedFirst)
    /\ UNCHANGED <<canceled, expired, serverVars, workVars, workCtx, endedFirst>>

Supervise ==
    \/ Refuse \/ Start \/ Select \/ BeginShutdown \/ Drained \/ CutShort
    \/ JoinServe \/ StopWork \/ JoinWork

Next ==
    \/ Cancel
    \/ \E r \in Requests : Accept(r) \/ Answer(r)
    \/ ServeReturns
    \/ WorkReturns
    \/ DrainExpires
    \/ Supervise

Spec == Init /\ [][Next]_vars

-------------------------------------------------------------------------------
(***************************************************************************)
(* Properties.                                                             *)
(***************************************************************************)

\* "HTTP requests drain while work keeps running ... remaining connections are
\* then force-closed, and only afterwards is work canceled" (Run): no request
\* runs against work that Run has stopped, except a handler whose connection was
\* force-closed when the budget was used up, and Run reports that.
WorkOutlivesRequests ==
    workCtx => Active = {} /\ (Handling # {} => expired /\ "drain" \in errs)

\* When Run returns, no goroutine that it started is left and no connection is
\* open.  A handler may still run, but only one that was cut off: then Run has
\* failed, and its owner knows that what handlers use is still in use.
NothingLeftBehind ==
    run = "returned" =>
        /\ serving # "serving"
        /\ work # "running"
        /\ Active = {}
        /\ Handling # {} => "drain" \in errs

\* The state of Run and of what it started: well typed, drained before the work
\* is stopped, and settled at the end.
JoinInv == TypeOK /\ WorkOutlivesRequests /\ NothingLeftBehind

\* Run returns nil only for a cancellation under which nothing failed: serving
\* ended by the shutdown, every request was answered, so that no handler runs any
\* more, the work did not fail, and it was not its end that Run woke up for.  (It
\* may have ended before Run canceled it, without an error, and have been ready
\* together with the cancellation.)  The other way round, a canceled Run whose
\* requests drained in time, and whose work returned only when it was told to and
\* did not fail, returns nil.
NilIsCleanStop ==
    run = "returned" =>
        /\ errs = {} =>
              /\ canceled
              /\ serving = "closed"
              /\ \A r \in Requests : requests[r] \in {"none", "answered"}
              /\ workErr # "failed"
              /\ ~endedFirst
        /\ serving = "closed" /\ ~expired /\ ~early /\ workErr # "failed" => errs = {}
===============================================================================
