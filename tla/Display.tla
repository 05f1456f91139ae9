-------------------------------- MODULE Display -------------------------------
(***************************************************************************)
(* The display backend (display/display.go) in front of a simulator that   *)
(* can restart: refreshes and history reads from many clients share one    *)
(* published state, and one gate admits one of them at a time.             *)
(*                                                                         *)
(* A refresh passes through three critical sections of the display's       *)
(* mutex: clearing what a run change made obsolete, checking the progress  *)
(* of the source, and publishing or failing.  Readers may run between any  *)
(* two; other refreshes are kept out by the gate.                          *)
(*                                                                         *)
(* Runs are numbered in the order the simulator was started in (their      *)
(* identifiers carry a random suffix and only compare equal or not).       *)
(***************************************************************************)
EXTENDS Integers, FiniteSets

CONSTANTS
    Clients,      \* goroutines of HTTP requests to the display
    StationIds,
    Selections,   \* the selections clients ask for, normalized
    Nothing,      \* no observations
    MaxRun,       \* bound: runs of the simulator
    MaxNow,       \* bound: virtual instants of a run
    MaxSequence   \* bound: receptions of a station

ASSUME DisplayConstants ==
    /\ Selections \subseteq SUBSET StationIds
    /\ MaxRun \in Nat \ {0}
    /\ MaxNow \in Nat
    /\ MaxSequence \in Nat

\* What one snapshot of the source shows: run, selection, instant, and the
\* latest reception of every selected station.
Shown == UNION {[run : 1 .. MaxRun, selection : {S}, now : 0 .. MaxNow,
                 latest : [S -> 0 .. MaxSequence]] : S \in Selections}

\* NoRun: an empty runId.  NoRequest: a client that waits for nothing.
NoRun     == 0
NoRequest == [kind |-> "none", selection |-> {}]

Requests == [kind : {"refresh"}, selection : Selections] \cup [kind : {"history"}, selection : {{}}]

\* What comes back from the source: the run it names, if the failure of a call
\* or an envelope that does not validate leaves one to name, and observations
\* when records and frames validate and decode.
Answers == [run : 0 .. MaxRun, shown : Shown \cup {Nothing}]

NoAnswer == [run |-> NoRun, shown |-> Nothing]

VARIABLES
    \* the simulator
    run,        \* the current run
    now,        \* its virtual time
    latest,     \* per station, the latest reception sequence
    \* Display.state: status, runID, observations with the selection, instant
    \* and sequences kept beside them, and whether lastError is set
    state,
    gate,       \* the gate holds its token
    \* goroutines
    pc,         \* "idle", "waiting", "asking", "identify" or "conclude"
    request,    \* what the client asked for
    answer,     \* what the source answered
    reply,      \* the snapshot the last refresh of the client returned
    \* history
    seen,       \* the run most recently identified
    published   \* the last observations published

source  == <<run, now, latest>>
vars == <<source, state, gate, pc, request, answer, reply, seen, published>>

Blank == [status |-> "unavailable", run |-> NoRun, shown |-> Nothing, failed |-> FALSE]

TypeOK ==
    /\ run \in 1 .. MaxRun
    /\ now \in 0 .. MaxNow
    /\ latest \in [StationIds -> 0 .. MaxSequence]
    /\ state \in [status : {"unavailable", "fresh", "stale"}, run : 0 .. MaxRun,
                  shown : Shown \cup {Nothing}, failed : BOOLEAN]
    /\ gate \in BOOLEAN
    /\ pc \in [Clients -> {"idle", "waiting", "asking", "identify", "conclude"}]
    /\ request \in [Clients -> Requests \cup {NoRequest}]
    /\ answer \in [Clients -> Answers \cup {NoAnswer}]
    /\ reply \in [Clients -> [status : {"unavailable", "fresh", "stale"},
                              shown : Shown \cup {Nothing}, failed : BOOLEAN]]
    /\ seen \in 0 .. MaxRun
    /\ published \in Shown \cup {Nothing}

Unanswered == [status |-> "unavailable", shown |-> Nothing, failed |-> FALSE]
Refused    == [status |-> "unavailable", shown |-> Nothing, failed |-> TRUE]

Init ==
    /\ run = 1
    /\ now = 0
    /\ latest = [s \in StationIds |-> 0]
    /\ state = Blank
    /\ gate = TRUE
    /\ pc = [p \in Clients |-> "idle"]
    /\ request = [p \in Clients |-> NoRequest]
    /\ answer = [p \in Clients |-> NoAnswer]
    /\ reply = [p \in Clients |-> Unanswered]
    /\ seen = NoRun
    /\ published = Nothing

-------------------------------------------------------------------------------
(***************************************************************************)
(* The simulator.                                                          *)
(***************************************************************************)

Advance ==
    /\ now < MaxNow
    /\ now' = now + 1
    /\ \E heard \in SUBSET {s \in StationIds : latest[s] < MaxSequence} :
          latest' = [s \in StationIds |-> IF s \in heard THEN latest[s] + 1 ELSE latest[s]]
    /\ UNCHANGED <<run, state, gate, pc, request, answer, reply, seen, published>>

\* The simulator process is replaced: a fresh run starts from nothing.
Restart ==
    /\ run < MaxRun
    /\ run' = run + 1
    /\ now' = 0
    /\ latest' = [s \in StationIds |-> 0]
    /\ UNCHANGED <<state, gate, pc, request, answer, reply, seen, published>>

\* A snapshot of the run under way, or an earlier one of that run from a source
\* that lags behind (a source is the host's to supply).
Captured(selection) ==
    {x \in Shown :
        /\ x.run = run
        /\ x.selection = selection
        /\ x.now <= now
        /\ \A s \in selection : x.latest[s] <= latest[s]}

-------------------------------------------------------------------------------
(***************************************************************************)
(* Clients and the gate.                                                   *)
(***************************************************************************)

Call(p) ==
    /\ pc[p] = "idle"
    /\ \E r \in Requests : request' = [request EXCEPT ![p] = r]
    /\ pc' = [pc EXCEPT ![p] = "waiting"]
    /\ reply' = [reply EXCEPT ![p] = Unanswered]
    /\ UNCHANGED <<source, state, gate, answer, seen, published>>

\* A context canceled before the call is admitted, or an invalid selection: the
\* call fails with a detached unavailable snapshot and never touches what is
\* published.  (A context canceled while the call waits may lose to the token,
\* and one canceled later shows as a failure of the source.)
Refuse(p) ==
    /\ pc[p] = "waiting"
    /\ pc' = [pc EXCEPT ![p] = "idle"]
    /\ reply' = [reply EXCEPT ![p] = Refused]
    /\ UNCHANGED <<source, state, gate, request, answer, seen, published>>

\* Mutant: no gate.
AdmitAny(p) ==
    /\ pc[p] = "waiting"
    /\ pc' = [pc EXCEPT ![p] = "asking"]
    /\ UNCHANGED <<source, state, gate, request, answer, reply, seen, published>>

admit(p) ==
    /\ pc[p] = "waiting"
    /\ gate
    /\ gate' = FALSE
    /\ pc' = [pc EXCEPT ![p] = "asking"]
    /\ UNCHANGED <<source, state, request, answer, reply, seen, published>>

\* The source answers, from its state at one instant during the call.
Answer(p) ==
    /\ pc[p] = "asking"
    /\ \/ /\ request[p].kind = "refresh"
          /\ \E x \in Captured(request[p].selection) :
                answer' = [answer EXCEPT ![p] = [run |-> run, shown |-> x]]
       \/ \E known \in {NoRun, run} :
             answer' = [answer EXCEPT ![p] = [run |-> known, shown |-> Nothing]]
    /\ pc' = [pc EXCEPT ![p] = "identify"]
    /\ UNCHANGED <<source, state, gate, request, reply, seen, published>>

-------------------------------------------------------------------------------
(***************************************************************************)
(* Handling the answer.                                                    *)
(***************************************************************************)

\* Mutant: clears the fallback only for data that could be published.
InvalidateGoodOnly(p) ==
    IF answer[p].shown = Nothing \/ state.run \in {NoRun, answer[p].run} THEN state ELSE Blank

\* invalidateOnRunChange: an unknown identity changes nothing.
invalidateOnRunChange(p) ==
    IF answer[p].run = NoRun \/ state.run \in {NoRun, answer[p].run} THEN state ELSE Blank

\* A history read ends here: it publishes nothing and returns its page or its
\* failure to the client.
Identify(p) ==
    /\ pc[p] = "identify"
    /\ state' = invalidateOnRunChange(p)
    /\ seen' = IF answer[p].run = NoRun THEN seen ELSE answer[p].run
    /\ IF request[p].kind = "history"
          THEN /\ pc' = [pc EXCEPT ![p] = "idle"]
               /\ answer' = [answer EXCEPT ![p] = NoAnswer]
               /\ gate' = TRUE
          ELSE /\ pc' = [pc EXCEPT ![p] = "conclude"]
               /\ UNCHANGED <<answer, gate>>
    /\ UNCHANGED <<source, request, reply, published>>

\* Mutant: looks at the clock only.
ProgressOfTime(x) ==
    state.shown = Nothing \/ state.run # x.run \/ x.now >= state.shown.now

\* checkProgress: neither the clock nor a station selected before and now may
\* have moved back within a run.
checkProgress(x) ==
    \/ state.shown = Nothing
    \/ state.run # x.run
    \/ /\ x.now >= state.shown.now
       /\ \A s \in x.selection \cap state.shown.selection : x.latest[s] >= state.shown.latest[s]

\* snapshotLocked: what is unavailable shows nothing.
snapshotLocked(s) ==
    [status |-> s.status, failed |-> s.failed,
     shown |-> IF s.status = "unavailable" THEN Nothing ELSE s.shown]

\* Mutant: any last good data will do.
FailShowingAny(selection) ==
    [state EXCEPT !.failed = TRUE,
                  !.status = IF state.shown = Nothing THEN "unavailable" ELSE "stale"]

\* Last good data is shown again only for the selection it was read for.
fail(selection) ==
    [state EXCEPT !.failed = TRUE,
                  !.status = IF state.shown # Nothing /\ state.shown.selection = selection
                                THEN "stale" ELSE "unavailable"]

publish(x) == [status |-> "fresh", run |-> x.run, shown |-> x, failed |-> FALSE]

\* Mutant: a failed refresh keeps the token.
ConcludeKeepingToken(p) ==
    LET a == answer[p]
        accepted == a.shown # Nothing /\ checkProgress(a.shown)
    IN  /\ pc[p] = "conclude"
        /\ state' = IF accepted THEN publish(a.shown) ELSE fail(request[p].selection)
        /\ published' = IF accepted THEN a.shown ELSE published
        /\ reply' = [reply EXCEPT ![p] = snapshotLocked(state')]
        /\ pc' = [pc EXCEPT ![p] = "idle"]
        /\ answer' = [answer EXCEPT ![p] = NoAnswer]
        /\ gate' = accepted
        /\ UNCHANGED <<source, request, seen>>

Conclude(p) ==
    LET a == answer[p]
        accepted == a.shown # Nothing /\ checkProgress(a.shown)
    IN  /\ pc[p] = "conclude"
        /\ state' = IF accepted THEN publish(a.shown) ELSE fail(request[p].selection)
        /\ published' = IF accepted THEN a.shown ELSE published
        /\ reply' = [reply EXCEPT ![p] = snapshotLocked(state')]
        /\ pc' = [pc EXCEPT ![p] = "idle"]
        /\ answer' = [answer EXCEPT ![p] = NoAnswer]
        /\ gate' = TRUE
        /\ UNCHANGED <<source, request, seen>>

-------------------------------------------------------------------------------
Handle(p) == admit(p) \/ Answer(p) \/ Identify(p) \/ Conclude(p)

Next ==
    \/ Advance
    \/ Restart
    \/ \E p \in Clients : Call(p) \/ Refuse(p) \/ Handle(p)

Spec == Init /\ [][Next]_vars

\* A channel hands its value to the goroutine that has waited longest; a call
\* of the source ends, if only at its deadline.
Fairness ==
    \A p \in Clients :
        /\ SF_vars(admit(p))
        /\ WF_vars(Answer(p))
        /\ WF_vars(Identify(p))
        /\ WF_vars(Conclude(p))

FairSpec == Spec /\ Fairness

-------------------------------------------------------------------------------
(***************************************************************************)
(* Properties.                                                             *)
(***************************************************************************)

\* What the source can have answered.
Earlier(x) ==
    /\ x.run <= run
    /\ x.run = run => x.now <= now /\ \A s \in x.selection : x.latest[s] <= latest[s]

Admitted == {"asking", "identify", "conclude"}

\* The gate keeps all clients but one out.
Gated ==
    /\ \A p \in Clients : pc[p] \in Admitted => ~gate
    /\ \A p, q \in Clients : pc[p] \in Admitted /\ pc[q] \in Admitted => p = q

\* What is held is what was last published, or was dropped for a later run.
Held ==
    /\ seen <= run
    /\ state.shown # Nothing => state.shown = published /\ state.shown.run = seen /\ state.run = seen
    /\ state.shown = Nothing => state.run = NoRun
    /\ published # Nothing /\ state.shown = Nothing => published.run < seen
    /\ published # Nothing => Earlier(published)

\* An answer under way names no run before the one last identified.
Answered ==
    \A p \in Clients :
        /\ pc[p] \notin {"identify", "conclude"} => answer[p] = NoAnswer
        /\ answer[p].shown # Nothing =>
               /\ answer[p].run = answer[p].shown.run
               /\ answer[p].shown.selection = request[p].selection
               /\ Earlier(answer[p].shown)
        /\ pc[p] = "identify" => answer[p].run = NoRun \/ answer[p].run \in seen .. run
        /\ pc[p] = "conclude" => answer[p].run \in {NoRun, seen}

NotOlder(x, y) ==
    \/ y.run > x.run
    \/ /\ y.run = x.run
       /\ y.now >= x.now
       /\ \A s \in x.selection \cap y.selection : y.latest[s] >= x.latest[s]

\* What is published never goes back, neither to an earlier run, after however
\* many restarts, nor within a run, whatever the order in which the requests of
\* several clients were issued, delayed, canceled or failed.
NeverShowsOlder ==
    [][published # Nothing /\ published' # published => NotOlder(published, published')]_vars

\* Once any answer, good or bad, of a refresh or of a history read, has named a
\* run, nothing of another run is shown: corrupt data of a new run never falls
\* back to the old one.
OneRunAtATime == state.shown # Nothing => state.shown.run = seen

\* A client is shown its own selection or nothing, although all clients share
\* one published state and each failure may fall back to it.
OwnSelectionOnly ==
    \A p \in Clients :
        pc[p] = "idle" /\ reply[p].shown # Nothing => reply[p].shown.selection = request[p].selection

\* Fresh observations are never reported with a failure, and a failure is never
\* reported as fresh: neither to the client nor in what readers see.
FreshIsSuccess ==
    \A s \in {state} \cup {reply[p] : p \in Clients} :
        /\ s.status = "fresh" => s.shown # Nothing /\ ~s.failed
        /\ s.status = "stale" => s.shown # Nothing /\ s.failed

\* A client that is not canceled is eventually answered: every way out of a
\* refresh or a history read returns the token.
EveryCallEnds == \A p \in Clients : pc[p] = "waiting" ~> pc[p] = "idle"

-------------------------------------------------------------------------------
\* A reply shows what its client asked for, from the moment it is given.
Replied ==
    \A p \in Clients :
        reply[p].shown # Nothing => pc[p] = "idle" /\ reply[p].shown.selection = request[p].selection

\* The inductive invariant.
IInv == TypeOK /\ Gated /\ Held /\ Answered /\ Replied /\ FreshIsSuccess
===============================================================================
