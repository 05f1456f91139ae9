------------------------------ MODULE AircraftView -----------------------------
(***************************************************************************)
(* The aircraft page (aircraft.js) over its poll loop (client.js) and      *)
(* lifecycle (lifecycle.js, component.js): every cycle reads the station   *)
(* catalog and the observations in two requests, which a restart of the    *)
(* simulator can fall between, while the user selects stations and         *)
(* aircraft or the host destroys the page.                                 *)
(*                                                                         *)
(* JavaScript runs to the next await, so everything between two awaits is  *)
(* one action.  A superseded cycle is not gone: its requests are aborted   *)
(* and it still runs to its end.  Runs are numbered in the order they were *)
(* started in.                                                             *)
(***************************************************************************)
EXTENDS Integers

CONSTANTS
    Selections,     \* normalized station selections
    InitialSelection,
    Aircraft,
    NoAircraft,     \* no aircraft is selected
    Cycles,         \* bound: poll cycles that have not ended
    NoCycle,        \* an unused cycle
    NoView,         \* nothing is shown
    MaxRun,         \* bound: runs of the simulator
    MaxGeneration   \* bound: selection changes

ASSUME ViewConstants ==
    /\ {MaxRun, MaxGeneration} \subseteq Nat \ {0}
    /\ InitialSelection \in Selections
    /\ Cycles # {}
    /\ NoCycle \notin Cycles

VARIABLES
    run,         \* the simulator's run
    \* state of mountAircraftDisplay
    known,       \* state.runId
    catalog,     \* the run of state.catalog
    selection,
    view,
    failed,      \* state.transportError: the latest refresh failed
    selected,    \* state.selectedIcao
    generation,
    \* createPoller
    timer,       \* a cycle is scheduled
    running,
    rerun,
    stopped,
    epoch,
    controller,  \* the cycle that stop() would abort
    cycles,      \* the cycles that have not ended, superseded ones included
    \* the component
    busy,        \* the wrapper carries aria-busy
    destroyed,
    newest,      \* history: the latest run that was shown
    answered     \* history: the latest cycle that counted was answered with observations

page   == <<known, catalog, selection, view, failed, selected, generation, newest, answered>>
poller == <<timer, running, rerun, stopped, epoch, controller, cycles, busy>>
vars   == <<run, page, poller, destroyed>>

NoRun == 0

\* A request: under way, answered for a run, or failed with an error that names
\* a run or none.  An answer may hold what the page cannot use.
Asked   == [status |-> "asked", run |-> NoRun, aircraft |-> {}]
Replies == {Asked}
              \cup [status : {"ok", "unusable"}, run : 1 .. MaxRun, aircraft : SUBSET Aircraft]
              \cup [status : {"error"}, run : 0 .. MaxRun, aircraft : {{}}]

CycleStates == [epoch : Nat, generation : Nat, selection : Selections, aborted : BOOLEAN,
                stations : Replies, observed : Replies]

\* A tombstone is what remains of a row for one view: no measurement.
Rows  == [Aircraft -> {"none", "live", "tombstone"}]
Views == [run : 1 .. MaxRun, selection : Selections, rows : Rows]

ASSUME NothingIsNone == NoCycle \notin CycleStates /\ NoView \notin Views

TypeOK ==
    /\ run \in 1 .. MaxRun
    /\ selected \in Aircraft \cup {NoAircraft}
    /\ {known, catalog, newest} \subseteq 0 .. MaxRun
    /\ selection \in Selections
    /\ view \in Views \cup {NoView}
    /\ generation \in 0 .. MaxGeneration
    /\ {failed, answered, timer, running, rerun, stopped, busy, destroyed} \subseteq BOOLEAN
    /\ epoch \in 0 .. MaxGeneration + 1
    /\ controller \in Cycles \cup {NoCycle}
    /\ cycles \in [Cycles -> CycleStates \cup {NoCycle}]

-------------------------------------------------------------------------------
(***************************************************************************)
(* The poll loop.                                                          *)
(***************************************************************************)

\* A new cycle up to the await of its two requests.
Cycle(ep, gen, sel) ==
    [epoch |-> ep, generation |-> gen, selection |-> sel, aborted |-> FALSE,
     stations |-> Asked, observed |-> Asked]

Unused(all) == CHOOSE k \in Cycles : all[k] = NoCycle

Start(all, ep, gen, sel) ==
    /\ running' = TRUE
    /\ busy' = TRUE
    /\ timer' = FALSE
    /\ \E k \in Cycles : all[k] = NoCycle
    /\ controller' = Unused(all)
    /\ cycles' = [all EXCEPT ![Unused(all)] = Cycle(ep, gen, sel)]

\* stop() aborts the cycle under way, if there is one.
Aborted ==
    IF controller = NoCycle \/ cycles[controller] = NoCycle THEN cycles
    ELSE [cycles EXCEPT ![controller].aborted = TRUE]

TimerFires ==
    /\ timer
    /\ ~stopped
    /\ Start(cycles, epoch, generation, selection)
    /\ UNCHANGED <<run, page, rerun, stopped, epoch, destroyed>>

-------------------------------------------------------------------------------
(***************************************************************************)
(* The requests of a cycle.                                                *)
(***************************************************************************)

\* A simulator is replaced.
RestartSimulator ==
    /\ run < MaxRun
    /\ run' = run + 1
    /\ UNCHANGED <<page, poller, destroyed>>

\* Answers name the run they were made in; errors name it or not.
Errors  == [status : {"error"}, run : {NoRun, run}, aircraft : {{}}]
Catalog == [status |-> "ok", run |-> run, aircraft |-> {}]
Answers == [status : {"ok"}, run : {run}, aircraft : SUBSET Aircraft]
              \cup [status : {"unusable"}, run : {run}, aircraft : {{}}]

AnswerStations(k) ==
    /\ cycles[k] # NoCycle
    /\ cycles[k].stations = Asked
    /\ ~cycles[k].aborted
    /\ \E a \in {Catalog} \cup Errors : cycles' = [cycles EXCEPT ![k].stations = a]
    /\ UNCHANGED <<run, page, timer, running, rerun, stopped, epoch, controller, busy, destroyed>>

AnswerObserved(k) ==
    /\ cycles[k] # NoCycle
    /\ cycles[k].observed = Asked
    /\ ~cycles[k].aborted
    /\ \E a \in Answers \cup Errors : cycles' = [cycles EXCEPT ![k].observed = a]
    /\ UNCHANGED <<run, page, timer, running, rerun, stopped, epoch, controller, busy, destroyed>>

-------------------------------------------------------------------------------
(***************************************************************************)
(* What a cycle makes of its answers.                                      *)
(***************************************************************************)

\* The part of the page that answers change, and whether to refresh at once.
Page == [known |-> known, catalog |-> catalog, view |-> view, failed |-> failed,
         selected |-> selected, again |-> FALSE]

\* Mutant: forgets the catalog only.
adoptRunKeepingView(p, r) ==
    IF p.known \in {NoRun, r} THEN [p EXCEPT !.known = r]
    ELSE [p EXCEPT !.known = r, !.catalog = NoRun]

\* A confirmed replacement run clears everything of the previous one.
adoptRun(p, r) ==
    IF p.known \in {NoRun, r} THEN [p EXCEPT !.known = r]
    ELSE [p EXCEPT !.known = r, !.catalog = NoRun, !.view = NoView, !.selected = NoAircraft]

Replaces(p, reply) == reply.run # NoRun /\ p.known \notin {NoRun, reply.run}

handleStations(p, reply) ==
    IF reply.status = "ok" THEN [adoptRun(p, reply.run) EXCEPT !.catalog = reply.run]
    ELSE IF Replaces(p, reply) THEN adoptRun(p, reply.run)
    ELSE p

\* previous is of the same run and selection: anything else was cleared.
buildView(reply, sel, previous) ==
    [run |-> reply.run, selection |-> sel,
     rows |-> [a \in Aircraft |->
                  IF a \in reply.aircraft THEN "live"
                  ELSE IF previous # NoView /\ previous.rows[a] = "live" THEN "tombstone"
                  ELSE "none"]]

\* Observations are never combined with the catalog of another run.
handleObservations(p, reply, sel) ==
    LET adopted == adoptRun(p, reply.run) IN
    CASE reply.status = "error" ->
             IF Replaces(p, reply) THEN [adopted EXCEPT !.failed = TRUE, !.again = TRUE]
             ELSE [p EXCEPT !.failed = TRUE]
      [] reply.status # "error" /\ p.catalog \notin {NoRun, reply.run} ->
             [adopted EXCEPT !.failed = TRUE, !.again = TRUE]
      [] reply.status = "unusable" /\ p.catalog \in {NoRun, reply.run} ->
             [adopted EXCEPT !.failed = TRUE]
      [] OTHER ->
             [adopted EXCEPT !.failed = FALSE, !.view = buildView(reply, sel, adopted.view)]

\* Mutant: an aborted cycle that has its answers counts while the selection is
\* the one it was started for.
IsCurrentBySelection(k) ==
    /\ ~destroyed
    /\ Asked \notin {cycles[k].stations, cycles[k].observed}
    /\ cycles[k].selection = selection

IsCurrent(k) == ~destroyed /\ ~cycles[k].aborted /\ cycles[k].generation = generation

\* renderBanner: what the page says of what it shows.
Banner ==
    IF failed THEN IF view # NoView THEN "stale" ELSE "failed"
    ELSE IF view # NoView THEN "current" ELSE "waiting"

\* Mutant: a refresh that fails forgets what the page showed.
ShownForgetting(k) ==
    IF ~IsCurrent(k) THEN Page
    ELSE LET p == handleObservations(handleStations(Page, cycles[k].stations),
                                     cycles[k].observed, cycles[k].selection)
         IN  IF p.failed THEN [p EXCEPT !.view = NoView] ELSE p

\* The rest of refresh().
Shown(k) ==
    IF IsCurrent(k)
       THEN handleObservations(handleStations(Page, cycles[k].stations), cycles[k].observed,
                               cycles[k].selection)
       ELSE Page

\* busyWhile: a cycle that ends clears the mark, unless the page is gone.
StillBusy == busy /\ destroyed

\* Mutant: a superseded cycle schedules the next one as well.
FinishAnyEpoch(k) ==
    /\ running' = FALSE
    /\ controller' = NoCycle
    /\ timer' = ~stopped
    /\ rerun' = FALSE
    /\ busy' = StillBusy
    /\ cycles' = [cycles EXCEPT ![k] = NoCycle]

\* Mutant: a cycle that was asked to start over neither does nor schedules one.
FinishForgettingTimer(k) ==
    /\ running' = (running /\ cycles[k].epoch # epoch)
    /\ controller' = IF running' THEN controller ELSE NoCycle
    /\ timer' = (~stopped /\ ~running' /\ ~rerun /\ ~Shown(k).again)
    /\ rerun' = FALSE
    /\ busy' = StillBusy
    /\ cycles' = [cycles EXCEPT ![k] = NoCycle]

\* After run(): a superseded cycle leaves the loop to its successor; another one
\* starts over at once if asked to, or schedules the next.
Finish(k) ==
    LET ended == [cycles EXCEPT ![k] = NoCycle] IN
        IF cycles[k].epoch # epoch
           THEN /\ cycles' = ended
                /\ busy' = StillBusy
                /\ UNCHANGED <<timer, running, rerun, controller>>
        ELSE IF rerun \/ Shown(k).again
           THEN /\ rerun' = FALSE
                /\ Start(ended, epoch, generation, selection)
        ELSE /\ running' = FALSE
             /\ controller' = NoCycle
             /\ timer' = ~stopped
             /\ busy' = StillBusy
             /\ cycles' = ended
             /\ UNCHANGED rerun

\* Both requests are settled; an aborted request settles as an error.
Settled(c) == c.aborted \/ (c.stations # Asked /\ c.observed # Asked)

Refresh(k) ==
    LET p == Shown(k) IN
    /\ cycles[k] # NoCycle
    /\ Settled(cycles[k])
    /\ known' = p.known
    /\ catalog' = p.catalog
    /\ view' = p.view
    /\ failed' = p.failed
    /\ selected' = p.selected
    /\ answered' = IF IsCurrent(k) THEN cycles[k].observed.status = "ok" ELSE answered
    /\ newest' = IF p.view # NoView /\ p.view.run > newest THEN p.view.run ELSE newest
    /\ Finish(k)
    /\ UNCHANGED <<run, selection, generation, stopped, epoch, destroyed>>

-------------------------------------------------------------------------------
(***************************************************************************)
(* The user and the host.                                                  *)
(***************************************************************************)

\* changeSelection and poller.restart().
ChangeSelection(sel) ==
    /\ ~destroyed
    /\ generation < MaxGeneration
    /\ sel # selection
    /\ selection' = sel
    /\ generation' = generation + 1
    /\ view' = NoView
    /\ epoch' = epoch + 1
    /\ rerun' = FALSE
    /\ Start(Aborted, epoch', generation', sel)
    /\ failed' = FALSE
    /\ selected' = NoAircraft
    /\ UNCHANGED <<run, known, catalog, newest, answered, stopped, destroyed>>

\* select, by a row of the table or a marker of the map.
Select(a) ==
    /\ ~destroyed
    /\ view # NoView
    /\ view.rows[a] # "none"
    /\ selected' = a
    /\ UNCHANGED <<run, known, catalog, selection, view, failed, generation, newest, answered,
                   poller, destroyed>>

\* Mutant: destroy() leaves the poll loop to itself.
DestroyPolling ==
    /\ ~destroyed
    /\ destroyed' = TRUE
    /\ UNCHANGED <<run, page, poller>>

\* lifecycle.destroy(): aborts the requests and stops the poll loop.
Destroy ==
    /\ ~destroyed
    /\ destroyed' = TRUE
    /\ stopped' = TRUE
    /\ epoch' = epoch + 1
    /\ running' = FALSE
    /\ rerun' = FALSE
    /\ timer' = FALSE
    /\ cycles' = Aborted
    /\ UNCHANGED <<run, page, controller, busy>>

\* mountAircraftDisplay ends with poller.start().
Init ==
    /\ run = 1
    /\ known = NoRun
    /\ catalog = NoRun
    /\ selection = InitialSelection
    /\ view = NoView
    /\ failed = FALSE
    /\ selected = NoAircraft
    /\ generation = 0
    /\ timer = FALSE
    /\ running = TRUE
    /\ rerun = FALSE
    /\ stopped = FALSE
    /\ epoch = 0
    /\ controller = Unused([k \in Cycles |-> NoCycle])
    /\ cycles = [k \in Cycles |-> IF k = controller THEN Cycle(0, 0, selection) ELSE NoCycle]
    /\ busy = TRUE
    /\ destroyed = FALSE
    /\ newest = NoRun
    /\ answered = FALSE

Next ==
    \/ RestartSimulator
    \/ TimerFires
    \/ \E k \in Cycles : AnswerStations(k) \/ AnswerObserved(k) \/ Refresh(k)
    \/ \E sel \in Selections : ChangeSelection(sel)
    \/ \E a \in Aircraft : Select(a)
    \/ Destroy

Spec == Init /\ [][Next]_vars

Succeeds(k) ==
    AnswerObserved(k) /\ cycles'[k].observed.status = "ok"

\* Timers fire, requests settle within their timeout, and what follows an await
\* runs.  Requests for observations do not fail for ever.
Fairness ==
    /\ WF_vars(TimerFires)
    /\ \A k \in Cycles :
          /\ WF_vars(AnswerStations(k))
          /\ WF_vars(AnswerObserved(k))
          /\ WF_vars(Refresh(k))
          /\ SF_vars(Succeeds(k))

FairSpec == Spec /\ Fairness

-------------------------------------------------------------------------------
(***************************************************************************)
(* Properties.                                                             *)
(***************************************************************************)

\* A catalog and observations read in two requests are shown together only when
\* they are of one run, the run the page believes in, and observations only
\* under the selection they were requested for (aircraft.js "Separate reads from
\* different runs: never combine them").  The banner calls what is shown stale
\* exactly when the latest refresh that counted has failed.
ViewIsCoherent ==
    /\ view # NoView =>
          /\ <<view.run, view.selection>> = <<known, selection>>
          /\ Banner = IF answered THEN "current" ELSE "stale"
    /\ catalog # NoRun => catalog = known

\* Whatever stop, restart, refreshNow and superseded cycles did to each other, a
\* poller that was not stopped either has a timer or a cycle under way that
\* will arm the next one, and never both.
PollingIsNeverLost ==
    ~stopped => /\ timer # running
                /\ running => /\ controller # NoCycle
                              /\ cycles[controller] # NoCycle
                              /\ cycles[controller].epoch = epoch
                              /\ ~cycles[controller].aborted

\* "Cycles never overlap": of all cycles that have not ended, at most one may
\* still change the page (client.js createPoller).
CyclesNeverOverlap ==
    \A k, l \in {c \in Cycles : cycles[c] # NoCycle /\ ~cycles[c].aborted} : k = l

\* The poll loop whatever happens to it: well typed, single, and never lost.
PollerInv == TypeOK /\ CyclesNeverOverlap /\ PollingIsNeverLost

\* Answers overtaken by a restart of the simulator, a new selection or a newer
\* cycle never bring back a run older than one the page has shown.
NeverShowsOlderRun ==
    [][view' # view /\ view' # NoView => view'.run >= newest]_vars

\* A cycle that counts ends, and whether one of its answers names another run
\* than the page knows.
Counts(k)          == Refresh(k) /\ IsCurrent(k)
NamesAnotherRun(k) == \E reply \in {cycles[k].stations, cycles[k].observed} : Replaces(Page, reply)

\* An aircraft that disappears between two successful snapshots of one run and
\* selection "becomes a tombstone for exactly one view" (tracks.js): the row of a
\* refresh that succeeds is a tombstone if and only if it was alive in the view of
\* the last one and its aircraft is not in the answer.  However many refreshes
\* failed in between, the view of the last one is still there: nothing but a
\* success, an answer that names another run or a new selection takes it away, and
\* the last two leave nothing of its rows or of a selected aircraft.
TombstonesLastOneView ==
    [][/\ \A k \in Cycles : Counts(k) /\ view' # NoView /\ ~failed' =>
             \A a \in Aircraft :
                 view'.rows[a] = "tombstone" <=>
                     /\ view # NoView
                     /\ <<view.run, view.selection>> = <<view'.run, view'.selection>>
                     /\ view.rows[a] = "live"
                     /\ a \notin cycles[k].observed.aircraft
                     /\ ~NamesAnotherRun(k)
       /\ view' # view =>
             \/ \E k \in Cycles : Counts(k) /\ (~failed' \/ NamesAnotherRun(k))
             \/ generation' # generation
       /\ \/ known \notin {NoRun, known'}
          \/ generation' # generation
          \/ view # NoView /\ view' = NoView => selected' = NoAircraft]_vars

\* A destroyed page is never touched again and starts no cycle, although its
\* aborted cycle still runs to its end (lifecycle.js: "a late response can never
\* change a destroyed component's DOM or start another request").
DestroyedIsFinal ==
    [][destroyed => /\ UNCHANGED <<page, busy>>
                    /\ \A k \in Cycles : cycles[k] = NoCycle => cycles'[k] = NoCycle]_vars

\* Once the simulator stops being replaced, a page whose requests succeed now and
\* then ends up showing its run and keeps showing it, unless it was destroyed.
Converges == <>[](destroyed \/ (view # NoView /\ view.run = run))
===============================================================================
