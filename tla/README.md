# A verification of adsb-testbench

TLA+ models of the simulator, the display and the browser code of this
repository, TLC configurations that check them on small instances, and TLAPS
proofs of what matters most for all sizes. Paths below are relative to `src/`.

Run a check with `tlc -config <cfg> <module>` and a proof with
`tlapm <module>.tla`; `PROJECT.json` lists the runs, the mutants that show that
each property can fail, the source lines of every definition, the hazards and
the theorems.

## 1. The system

A simulator advances a fleet of aircraft in virtual time, encodes their ADS-B
reports, and lets ground stations receive them. A display polls the receptions
over HTTP, validates and decodes them, and serves observations to a page. Both
are served with a manager page by one testbench process, or run as two.

| Component | State | Operations | What makes it hard |
| --- | --- | --- | --- |
| Pacing driver, `internal/simdriver/` | baseline, stopped, one mutex | `Run` (heartbeat), `SetCount`, `SetSpeed`, `AddStation`, `UpdateStation`, `RemoveStation` | commands and heartbeat settle the same real time; cancellation between chunks; a clock that goes back; a host that sleeps |
| Simulation engine, `simulation/` | clock with carry, fleet with deadlines and parity, registry, histories, generators | `Advance`, `Elapse`, `SetCount`, `SetSpeed`, station commands, reads | all-or-nothing mutations; order of simultaneous reports; reproducibility; identity within a run |
| Retained histories, `history.go`, `reception_history.go` | circular buffers | append, clone, snapshot, bounds | wrap-around; storage shared by a clone |
| Reception queries, `reception_query.go`, `reception_snapshot.go` | none of its own | pages with cursors, snapshots | eviction between two pages, cursors of another run |
| Engine observations, `observation_*.go` | none | decoding evidence into tracks | agreement with the display's decoder |
| ADS-B codec, `internal/adsb/` | none | encode and decode frames, CPR | numerics |
| Simulator service, `simulator/` | run identifier | API with run and revision guards, HTTP | commands written for another run |
| Wire contract, `simulatorapi/` | none | types, strict JSON | - |
| Display backend, `display/display.go` | one published state, a gate of one token | `Refresh`, `ReceptionHistory`, `Snapshot` | late, failed and overtaken answers; restarts of the simulator; clients with different selections |
| Validation and decoding, `display/validate.go`, `decode.go` | none | verdicts on snapshots and pages, tracks | must accept all that a correct engine produces |
| HTTP lifecycle, `internal/httpserver/` | goroutines of serving and work | `Run`, `Serve`, `Shutdown` | which of three ends comes first; draining; joining |
| Testbench and command line, `testbench/app.go`, `internal/cli/run.go` | the application's state, the listener | compose paused, install stations, bind, restore the speed, serve, exit | real time passes and anything may fail or be cancelled between two steps, before anyone owns the listener |
| URL paths, page configuration | - | wiring | - |
| Aircraft page, `aircraft.js`, `tracks.js` | confirmed run, catalog, view with tombstones, selected stations and aircraft | refresh cycle, selection | two reads that may be of two runs; aircraft that are lost between two views |
| Polling and lifecycle, `client.js`, `lifecycle.js`, `component.js` | timer, running, rerun, epoch | start, refreshNow, restart, stop, destroy | superseded cycles that still end |
| Inspector, `inspector.js` | generation, pending, loaded rows | load, next, reset | overtaken answers, eviction, trimming |
| Manager page, `manager.js`, `stations.js` | one form and draft per station, one for a new station, one per control; the view of the service's stations; the run under review | edit, submit, reload, reapply, review; the refresh cycle of three reads | other clients; reads and commands that overtake each other; acknowledgements that come late or never; restarts under a draft |

How they interact: HTTP requests call the service, which calls the driver, which
settles real time into the engine and then applies the command, under one mutex.
The display calls the simulator's API (in process or over HTTP), one call at a
time. The pages call the display and the service by `fetch`, each page with one
poll loop. A restart of the simulator gives it a new run identifier; everything
above it has to notice and drop what belongs to the old run.

What makes each component correct, in one sentence: the driver bills real time
once and at the right speed; the engine mutates atomically, in order and
reproducibly; the histories keep exactly the newest; the display never shows
anything older, of another run or of another selection; a command, and
`Run` of the HTTP lifecycle in it, starts without costing virtual time, ends,
cleans up and tells the truth; the pages show one run at a time
and lose neither their poll loop nor, unnoticed, a record or a draft, and no
command of theirs replaces settings that its user was not shown.

## 2. The modules

| Module | Models | State and actions |
| --- | --- | --- |
| `PacedClock` | the promise of the driver | the settled instant, the virtual time earned, the speed in force |
| `Driver` | `driver.go` with the engine's clock, speed, count and registry | `mu`, `baseline`, `stopped` as in the code; a settlement is `Acquire`, `Measure`, one `Deliver` per chunk, then `Apply`; `Refuse` is every early return before settling; `Run...` are the arms of the select |
| `EngineState` | the operators on the engine's state: planning, next event, record, deliver, registry | no variables; a state is a record |
| `EngineAtomic` | the promise of the engine: whole mutations | one action per exported method |
| `Engine` | `engine.go` report by report | `staged` is the clone; `Fire` and `Create` emit, `Commit...` commits, `Abort` is every error return |
| `ReceivedTracks` | `reception_snapshot.go`, the display's verdict on a snapshot (`validate.go`) and the tracks it decodes (`decode.go`) | no variables; operators on a state of the engine |
| `EngineReaders` | `Engine` with a display that reads it | states a property of successive snapshots |
| `EngineTwins` | four engines under one history of commands | self-composition of `EngineState`; its reference engine is also held against `EngineAtomic` and `ReceivedTracks` |
| `Ring` | the circular buffers | headers and the storage they point to, so that sharing is possible |
| `HTTPServerRun` | `server.go` | `Run` statement by statement, the goroutines it starts, the drain budget, and per connection its request and its handler, which closing the connection does not end |
| `CommandRun` | `run.go`, `App.Run` | a command around `HTTPServerRun`: compose, install, bind, restore, serve, each with its failure; the driver is reduced to what `PacedClock` promises |
| `Display` | `display.go` | per client `waiting`, `asking`, `identify`, `conclude`; the gate; the published state |
| `HistoryReader` | `reception_query.go`, the page checks of `validate.go`, `inspector.js` | composes the engine's cut of a page, the display's verdict on it and the inspector's merge of it |
| `AircraftView` | `createPoller`, `aircraft.js`, `tracks.js`, `lifecycle.js`, `busyWhile` | one action per stretch of JavaScript between two awaits |
| `SimulatorService` | the guards of `simulator/api.go`, restarts and other clients | the run, and per station its revision |
| `StationEditor` | `stations.js` | the view, the forms, the commands under way; one action per stretch of JavaScript between two awaits |
| `ManagerPage` | `manager.js` around the editor | the refresh cycle, the controls, the review after a restart |
| `DriverProofs`, `EngineProofs`, `RingProofs`, `DisplayProofs`, `CommandRunProofs`, `HistoryReaderProofs`, `AircraftViewProofs`, `ManagerPageProofs` | - | proofs about the module they are named after |

The `MC...` modules give the constants their values. Operators marked "Mutant"
are the defects that `PROJECT.json` injects; no specification uses them.

Composition: `Driver` implements `PacedClock` (a refinement mapping of baseline
and of `100 * elapsed + carry`); `Engine` implements `EngineAtomic`;
`EngineAtomic`, `Engine` and `EngineTwins` share the operators of `EngineState`,
and `ReceivedTracks` reads the states they reach, so that the display's
validator and decoder are checked against all that the engine can produce.
`CommandRun` extends `HTTPServerRun`, whose steps are steps of the command.
`ManagerPage` extends `StationEditor`, which extends `SimulatorService`: page,
editor and service are checked as one system.
`Driver` keeps only what of the engine its commands read or write. The bounded
sequences that `EngineState` and `HistoryReader` use for histories are what
`Ring` proves of the circular buffers.

### Abstractions

- Frames, motion and the link budget: a transmission is its aircraft, kind,
  instant and parity; whether a station can hear it is a distance, an arbitrary
  function of aircraft and instant, against the station's reach. Random
  generators are streams indexed by the number of draws, as arbitrary functions.
- `New` creates its initial aircraft as a first `SetCount` would. Sequence
  exhaustion at 2^64, `MaxBatchReceptions` (the product of two limits that are
  both enforced) and encoding errors, which the code treats as the other errors
  of `runTo`, are left out.
- `EngineTwins` runs each mutation in one step. One that would exceed the bounds
  of a batch, which the code refuses without a trace, does not happen.
- `ReceivedTracks`: a decoded field is the instant it was received at. Whether
  two halves of a position lie in one latitude zone is an arbitrary function.
- `CommandRun`: reading and checking of the configuration, the run's identity and
  the constructors are one step, which may fail. A command always passes work to
  `Run`, and `App.Run` returns nil only when it was told to return; without work,
  or with work of any other result, `Run` is covered by the proofs alone.
- `Display`: runs are numbered in the order they are started; an answer of the
  source may be of any earlier moment of the call. The read of `checkProgress`
  is merged with the write of `publish`; both happen under the gate.
  Cancellation is a refusal while waiting or a failed answer.
- `HistoryReader`: a reception is its sequence. A click that invalidates and
  loads moves the generation once instead of twice; only inequality matters.
  Disabled buttons are guards. Resetting and choosing another station are one
  action, since both drop the history.
- `AircraftView`: decoded values and drawing are left out; rows, tombstones, the
  selected aircraft and the banner are kept. An aborted request settles as an
  error.
- `SimulatorService`: a station's run and revision stand for its settings. A
  refusal other than a revision conflict, and an answer that is lost or late,
  are one failure, since the page treats them alike; whether the command was
  applied is left open.
- `StationEditor`: what a user was shown is the run and revision it came from
  (`seen`). Drafts are valid: an invalid one is refused before it is sent and
  changes no state. Whether a station in the view has its coverage is kept,
  because rendering throws without it (section 6).
- `ManagerPage`: metadata and truth are requested together; the model answers
  metadata first, since only whether their runs agree is looked at. The answers
  of a cycle that a control's command has overtaken are dropped, as in the code,
  and are not modelled. The clock and truth display are left out.

## 3. What the runs check

| Run | Question | Bounds and why they are enough |
| --- | --- | --- |
| `driver` | Do a heartbeat and a caller of every command, with cancellations, oversleeping and a clock that may go back, pay time exactly? | speeds 0, 1.3 and 2.5; chunks of at most 3 virtual ticks, backlog of 5, so that a settlement takes several chunks, leaves a carry, and can be refused; four real instants; one station through creation, edits, removal and re-creation |
| `driver_live` | Do two competing callers delay the heartbeat, cancellation or each other for ever? Does a command take effect within its own call? | a backlog that can be refused, and two callers, so that the mutex is contended by three |
| `engine_steps` | Can an interruption between two reports be seen? Does what a display decodes from one station ever go back? | two aircraft, one of which crosses a latitude zone and fades in and out of reach; batches that can overflow, an address space that can run out, a ring of two that evicts one half of a position pair; advances of up to three ticks in all |
| `engine_twins` | Are splitting, listening and losing invisible to what is transmitted? Are identities, parity, numbering and provenance right, and does the display accept every snapshot? | two stations, two addresses, three configurations (near, lossy and far, disabled); durations of two and three in all their splits, two speeds with different carries; rings that wrap |
| `ring` | Do wrap-around and cloning keep exactly the newest? | three slots, eight appends (more than two turns), two arrays (the committed and the cloned) |
| `http_run` | In every order of failures of its steps, cancellation, end of serving, end of work and expiry, what has a command cost, return and leave behind? | two stations, so that time can pass between their installations; two requests: one can finish and one can hang, or be cut off while its handler goes on, also after the exit; four real instants |
| `display` | What can two clients see of a simulator that restarts, lags and fails? | two runs, two virtual instants, two selections |
| `reader` | Are rows of a history complete, marked or accounted for? Do engine, display and inspector agree on cursors and pages? | two stations, two overlapping requests, retention two and pages of one, six receptions: enough for two holes between pages, to trim the record above the first one, and, with one marker, to drop the marker that is left there |
| `view` | Which runs, selections and poll loops can a page confuse? Is a lost aircraft shown lost in exactly one view? | two runs, two changes of the selection, a current and a superseded cycle, one aircraft |
| `editor` | Can a command of the manager page replace what its user was not shown, reach a new run unreviewed, or can a draft be lost, but for the cases of section 6? | one station, since forms share nothing but the view and the run; one control with two texts, so that a newer text can be told from the one sent; two runs, so that equal revision numbers can mean different settings, two revisions, two commands of the page beside any of other clients |
| `editor_live` | Does the page end up showing the stations there are? | as `editor`, without texts: controls have no part in the convergence but to overtake and to ask for cycles |
| `editor_waits` | Does a form or a control ever wait with nothing under way? | as `editor`, one text. Expects a violation (section 6) |

Every bound is a constant of its module, marked "bound". The others are the
program's own limits, made small.

Deadlock is checked for the driver, the engine, the ring, the display and the
manager page. It is not for the command (it exits), the reader (its
user may stop) and the aircraft page (it may be destroyed).

### Fairness

- Driver: a goroutine that holds the mutex continues (weak); one that waits for
  it is served in the end (strong: `sync.Mutex` goes into starvation mode after
  a millisecond); the ticker ticks; `Run` has been started. Callers need not
  call and nobody need be canceled.
- Display: the token of the gate, a channel, goes to the goroutine that waited
  longest (strong); a call of the source ends, if only at its deadline (weak).
- Command and HTTP lifecycle: their own steps are taken, `Serve` returns once its
  listener is closed, the drain has a timer, and the work returns once its
  context is canceled, which `Run` requires. Handlers need not answer.
- Aircraft page: timers fire, requests end at their timeout (weak). `Converges`
  assumes further that requests do not fail for ever (strong, on success); that
  is an assumption on the network, without which no page can converge.
- Manager page: timers fire, requests settle within their timeout, and what
  follows an await runs (weak). Its `Converges` assumes likewise that from some
  moment on reads do not fail (`<>[][~Fail]`); commands may fail for ever. The
  user, the simulator and its other clients come to rest because of the bounds.

## 4. What is proved

The theorems hold for every value of the constants under the assumptions named
in each module. Each module's proof goes through one inductive invariant, called
`IInv` there, which contains what of the types the proof needs. The runs of the
driver, the engine and the display check theirs as well; the others check the
properties, and the invariant only served to prove them.

- **Driver** (`DriverProofs`). `IInv` adds to the types: the mutex holder is the
  one goroutine inside a settlement; `Run` and the commands keep to their own
  steps; a delivery has measured time left at a positive speed; the driver is
  stopped exactly when `Run` has returned, and reports a clean stop only after a
  cancellation; and, with a monotonic clock, what is settled lies in the past.
  From it: `TypeOK`, `ChunksFit` (with the arithmetic that a chunk computed from
  the speed alone fits the bound the engine computes with its carry;
  `ChunkIsPositive` is the assumption), `EffectInsideCall`, `StoppedIsFinal`,
  and that `Driver` implements `PacedClock`. `OnlyReservedIdSettles` needs one
  fact more (`Checked`): while a command holds the mutex, what its checks found
  stays true up to its mutation, whoever else runs. So whatever the engine still
  rejects is a valid creation, with room for it, under a removed identifier.
- **Engine** (`EngineProofs`). `IInv` has two parts, each said of the committed
  state and of the clone. `LogInv`: addresses are allocated upwards,
  transmissions are numbered without a hole and in order, every deadline lies
  ahead of the committed instant and was reached by as many positive intervals
  as values were drawn, and, of the clone, no deadline precedes a report already
  made. The last is what makes the order inductive: without it the next event
  could precede the last. `Kept`: every station `Listened` (numbers, order,
  settings and possibility of what it retains), stations are `Registered` and
  aircraft `Addressed` in the order they were created, and all copies of one
  transmission agree. That a report gets a number above all those retained, and
  an instant after every creation of a station, is what makes it inductive.
  `Alternating`: an aircraft's next half is the opposite of the newest position
  of it that the log retains, which makes parity inductive. `Underway` says of
  the clone what it is: the committed state after as many iterations of the loop
  as were made, with exactly the reports they make. From it: `LogInOrder` and
  `NothingOverdue`, and `Receptions`, `Provenance`, `Identities` and `Parity` of
  `EngineAtomic`, at every step, whatever is abandoned half-way; and that every
  commit is the whole mutation of `EngineAtomic` (`MutatesAtomically`). For the
  last, the loops of `runTo` and `addAircraft` are recursive functions; that
  they exist, and that one iteration unfolds them, is proved by induction over
  sets of numbers (`EveryNumber`, `LeastNumber`, from the well-foundedness of
  the order), since the provers cannot be given the library's induction over
  predicates. Assumed: intervals are positive.
- **Engines** (also `EngineProofs`, of `EngineTwins`). `Regular` is the
  engine's invariant as it stands between whole mutations; from it `EngineInv`
  and `IdentitiesAreForLife` of the reference engine. Two engines are `InStep`
  if they have the same fleet and the same log: then they make the same reports,
  whatever their clocks, speeds and stations. The quiet engine is in step and has
  none; a station of the lossless one `Overhears` its twin: it has drawn as
  often, and received every time. From it: `StreamsAreIndependent`,
  with the hypothesis that random fractions are not negative
  (`FractionsAreNatural`, true of `rand.Float64`), so that a certain reception
  is received whatever is drawn. The split engine is `Behind`: running it on by
  what it still has to receive makes it the reference engine. That a run to an
  earlier limit is the beginning of a run to a later one (`RunAgain`), and that
  carries add up (`CarryIsKept`, `PlansCompose`), keeps it so; from it:
  `SplittingIsInvisible`. `AllPlausible` says of every retained reception that
  it has a number, a revision and an instant that has passed; with `Kept`, every
  check of the display follows. A history is in the order sent already, so that
  sorting moves nothing (`SortedStays`). From it: `SnapshotsAreAccepted`.
- **What a display sees** (`EngineProofs`). The loop of `decodeSnapshot` is a
  recursive function too. A track `Summarizes` the transmissions it was made
  from (`DecodingSummarizes`, by induction over them): each field was received
  with the last transmission of its kind, and the position with the last report
  that made a pair with the other half sent last before it (`Fixes`). `Shown`
  adds to `IInv` that what is retained is plausible and that the clone `Follows`
  the committed state: what each station retains `Supersedes` what it retained,
  that is, what it lost was sent first, and what is new was sent after and
  received no earlier than all it had. Every commit is such a step, or leaves
  what a station retains alone (`Progress`), and then no field goes back: the
  last transmission of a kind that is retained before and after is the last one
  retained, and a fix whose halves are both retained is still a fix
  (`FixesStay`). From it: `NeverGoesBack`.
- **Ring** (`RingProofs`). `IInv` says of both headers which element each slot
  holds, by its distance from `next`, and that during a mutation they point to
  different storage. From it: snapshots are the newest elements in order, and
  bounds are theirs (`BoundsMatchSnapshot`).
- **Display** (`DisplayProofs`). `IInv` says that the gate admits one client,
  that what is held is what was last published or was dropped for a later run,
  that an answer under way is no older than the run last identified, and that
  what is reported as fresh is a success and a failure never is. From
  it: `NeverShowsOlder`, `OneRunAtATime`, `OwnSelectionOnly`.
- **Commands** (`CommandRunProofs`). `IInv` says which of the goroutines,
  requests and handlers may still run at each step of `Run`, what made it stop,
  and that every error it has joined has happened and is joined in time: a
  handler that runs without its connection has a drain that is reported cut
  short. `CommandIInv`
  adds the command around it: what was acquired before `Run` is held, or was
  closed by the error path that left, and `Run` has not moved before it was
  called. From them: `CommandInv`, and `NilIsCleanStop` for the command as for
  `Run` alone, with any work or none. `http.Server`'s `Shutdown` and `Close` are
  external; they are modelled at their documented word (section 6 says what it
  leaves open).
- **Reader** (`HistoryReaderProofs`). Two facts make the protocol inductive. A
  cursor, wherever it is, in a request, in a page under way or in the loaded
  history, is never beyond what its station received in the current run; a
  removal does not reset that number and a restart makes the cursor one of an
  older run, which is refused before its number is looked at. And there is at
  most one request of the current generation, for the loaded history. From
  them: `ProtocolAgrees`, for which the page that the engine cuts is shown to
  pass each check of the display, and `OneCurrentRequest`. `HInv` says what the
  rows hold: the records ascend and are of the history's run, the last row is
  the record that the cursor names, a marker stands above all records or right
  above one, two adjacent records are consecutive, and without a marker the
  records count from the first one offered plus what was trimmed. It is kept
  because a page follows upon its cursor, directly or with a marker (`Fits`,
  proved of what the engine cuts); because the records that are trimmed are
  those up to one position, so that no two that stay become adjacent; and
  because, when there are more markers than `MaxGapRows`, the oldest stands
  above all records. The last needs `MaxGapRows >= MaxRecords - 1`: otherwise a
  marker between records would be the next to go (see section 6), so this is a
  hypothesis of `NothingIsSkippedSilently`, and of nothing else. From it:
  `NoSilentSkip`, `MissingIsAccounted` and the rows of `InspectorInv`. Assumed:
  `NothingIsAsked` and `NothingIsLoaded`, that the values for "no request" and
  "no history" are not a request and a history.
- **Aircraft page** (`AircraftViewProofs`). `IInv` says that a cycle that was
  not aborted is the poller's own and of the latest epoch, generation and
  selection, that every other one is of an earlier epoch, and that what the live
  cycle has observed is of a run no older than any the page has shown; and that
  the view, if there is one, is of the page's run and selection, so that a
  successful answer of both finds the rows it has to compare with. From it:
  `PollerInv`, `ViewIsCoherent`, `NeverShowsOlderRun`, `TombstonesLastOneView`,
  `DestroyedIsFinal`. Assumed: `NothingIsNone`, that "no cycle" and "no view"
  are neither.
- **Manager page** (`ManagerPageProofs`). `IInv` relates, per station, the entry
  of the view, the form and the command under way. An entry is of the page's
  run, or it is `late`, stored by an acknowledgement from another one. A form's
  base is the revision its user was shown (`seen`), and what was shown was of
  the form's run or late; a command names that revision and that run, so that
  the service's guards stop every command whose user saw another one. A draft
  was begun, or reapplied, in its form's run or a later one (`written`), and an
  update under way for a form with a draft carries it, or the draft is the
  `newer`. Whoever sent what is under way waits for it. Outside a review,
  whatever is drafted for a control or a new station was written, or reviewed,
  for the run the page knows, or the review of that run was `waved` through by
  the note of another (`noted`). From it: `PageInv`, `NoSilentOverwrite`,
  `ReviewedBeforeSent`, `DraftsSurvive`. Assumed: `NothingIsNone` and `NoPut`,
  that the values for "nothing" are not entries, forms or commands.

Only model-checked is all liveness (`CatchesUp`, `CallsReturn`, `EveryCallEnds`,
`CommandExits`, both `Converges`), which the prover does not reach. Every
invariant and action property of the runs is stated by a theorem.

## 5. What is not modelled

- The codec: bit layouts and floating point are out of reach of both tools.
- The engine's own observations (`observation_*.go`): the fold that
  `ReceivedTracks` models from the display's decoder is the same fold over the
  same evidence, and a second copy of it would agree with the first by
  construction.
- HTTP and JSON encoding, URL paths and route tables, the contents of flags and
  configuration files, the checks of the page's configuration (`config.js`), and
  the arithmetic of instants (`time.js`): no state.
- Drawing, the map with its markers, geography, formatting, the evidence tables
  of the inspector and the clock display of the manager page: they follow the
  state that is modelled and nothing is read back from them.
- `destroy` of the manager page: the lifecycle is the one of `AircraftView`.
- Leaflet, a vendored library, more than three quarters of the JavaScript lines
  of the repository; examples and tooling. This is why the share of the lines
  that the definitions cover is small although the pages' own state machines
  are modelled.

## 6. Divergences

One run shows a divergence:

- `editor_waits` (`NothingWaitsForNothing`). An update is acknowledged after its
  station has left the view, because a read saw its removal or because a new run
  cleared the view (`stations.js:467`). The acknowledgement stores the station
  with no coverage, and `renderForm` throws on it. `send` and `submit` set
  `pending` and render before they request, so the next command, of a control
  as well, throws before anything is sent, and stays pending. The view itself
  recovers with the next cycle, and with it the later commands; the one that
  threw does not.

The following were met while modelling and are not runs of their own:

- When work has returned by itself and another arm of `Run`'s select is ready as
  well, `ErrWorkStopped` may not be reported (`server.go:139-140,161`), although
  `server.go:16-18` says that such a return is joined into the result.
  `NilIsCleanStop` leaves exactly that open: after a nil the work did not fail,
  but it may have returned early without an error. In `http_run` it does not,
  since `App.Run` returns nil only when told to; there nothing is open
  (`NothingLeaks`).
- A handler whose connection was force-closed may outlive `Run`, and run against
  work that has stopped: `http.Server.Close` does not wait for handlers
  (`server.go:120`), although `Run`'s comment has requests drain "while work keeps
  running" and work cancelled "only afterwards". `JoinInv` and `NothingLeaks` say
  what holds: it happens only after the drain budget ran out, and then `Run`
  fails with the drain's error.
- A command that is cancelled before it serves exits with a failure when it has a
  simulator (`AddStation` and `SetSpeed` refuse the cancelled context,
  `run.go:204,285`) and cleanly when it is a display.
- `restart()` starts a cycle, which sets `aria-busy`, before the aborted one has
  ended; the aborted one then removes it (`component.js:66`). `ui/doc.go:114` and
  `component.js:48` say the wrapper carries it while a cycle runs.
- The creation of a station under a removed identifier settles elapsed time
  before the registry rejects it (`driver.go:150`); the repository's README
  (lines 108-109) says that input is validated first. `OnlyReservedIdSettles`
  says that this is the only such case: every rejected command that settled is a
  valid creation, with room for it, of an identifier that was removed.
- Beyond `MAX_GAP_ROWS` (1000) the inspector drops the oldest gap marker while
  rows on both sides of its hole may stay, so `NoSilentSkip` holds only up to
  that many gaps; `ui/doc.go` calls the markers persistent.
- A form stays editable while its command is under way, and the acknowledgement
  fills it from the server (`stations.js:465-470`): what was typed meanwhile is
  overwritten. The controls guard against the same (`manager.js:348`).
  `DraftsSurvive` excepts exactly that: besides a reload, a removal and an
  accepted update that carries the draft, only an accepted update that was under
  way when the draft was begun ends it (`newer`). The form of a new station is
  dropped with what was typed on in it after it was submitted.
- An acknowledgement of the old run that comes after the new one was adopted is
  merged into the new run's view, against `stations.js:528` ("Never mix runs"),
  until the next read; a form it fills is the new run's then, with a revision of
  the old one. If the numbers agree, a command replaces settings that its user
  was not shown, against `stations.js:15-16`. `NoSilentOverwrite` excepts exactly
  these entries (`late`).
- `acceptRun` changes the run under review before the stations of the new run are
  read, and does not render: until the read ends, the page shows the note of the
  run before, and a click on it ends the review of the new one
  (`manager.js:238-254,285-297`). With two runs there is only one review, so this
  takes three; `ReviewedBeforeSent` excepts exactly a run whose review was
  clicked away by the note of another (`waved`). A one-off check of the page with
  three runs, one revision and one command finds the property to hold there and
  the exception to be needed; the `editor` run has two runs, and the theorem
  covers any number.
- When the catalog fails with an error that names a new run, while the
  observations of the same cycle are still of the old one, the page drops its
  view before it shows those observations (`aircraft.js:320-326,351-353`), and
  so forgets which aircraft were lost: `TombstonesLastOneView` excepts such an
  answer.
- A read that was answered before a command and arrives after its
  acknowledgement marks the form as changed, and the mark stays when the next
  read is as before (`stations.js:244`).
- A form with a draft whose station was removed offers no way to discard it.
- The inspector redraws its evidence when the run, the instant or the aircraft
  changes (`inspector.js:210`), so it keeps showing what a new aircraft's first
  reports have evicted while the simulator is paused.
- With two or more selected stations, a shown field may revert to an older
  reception: one station still retains what another has evicted the successor
  of. Nothing in the sources excludes it; `NeverGoesBack` is stated for one.

## 7. Plan

Done, in this order: `PacedClock` and `Driver` with proofs; `EngineState`,
`EngineAtomic`, `Engine`, `EngineTwins` with proofs; `Ring` with proofs;
`HTTPServerRun`; `Display` with proofs; `HistoryReader`; `AircraftView`; then
`ReceivedTracks` and `EngineReaders` (the contract of snapshots and the decoding
of tracks, which the first plan kept apart); `SimulatorService`,
`StationEditor` and `ManagerPage` with proofs; proofs of `HTTPServerRun`,
`AircraftView` and `HistoryReader`; `CommandRun`, which composes a whole command
around `HTTPServerRun`; proofs of the receptions, identities and parity of
`Engine` and of its atomicity; proofs of `CommandRun`, of the rows of
`HistoryReader`, of `EngineTwins` and of `NeverGoesBack`.

Left:

1. Larger instances of the editor: a second station would show only the sharing
   of the run and of the view between forms, at ten times the states.
2. The evidence tables of the inspector, and two selected stations in
   `NeverGoesBack`, once the sources say what they promise.
