--------------------------- MODULE AircraftViewProofs --------------------------
(***************************************************************************)
(* Proofs about AircraftView, for every set of selections, aircraft and    *)
(* cycles and every value of the bounds.                                   *)
(***************************************************************************)
EXTENDS AircraftView, TLAPS

\* A cycle that has not ended and was not aborted.
Live(k) == cycles[k] # NoCycle /\ ~cycles[k].aborted

\* A live cycle is the one that stop() would abort, and of the latest epoch and
\* selection; every other one is of an earlier epoch.
Single ==
    /\ stopped <=> destroyed
    /\ epoch = IF destroyed THEN generation + 1 ELSE generation
    /\ \A k \in Cycles : cycles[k] # NoCycle =>
          /\ cycles[k].aborted => cycles[k].epoch < epoch
          /\ ~cycles[k].aborted =>
                /\ k = controller
                /\ running
                /\ ~destroyed
                /\ cycles[k].epoch = epoch
                /\ cycles[k].generation = generation
                /\ cycles[k].selection = selection

\* What a live cycle was answered is no older than what is shown.
Fresh ==
    /\ newest <= run
    /\ view # NoView => view.run <= newest
    /\ \A k \in Cycles : Live(k) /\ cycles[k].observed.status = "ok" =>
          cycles[k].observed.run \in newest .. run

IInv == TypeOK /\ Single /\ PollingIsNeverLost /\ Fresh /\ ViewIsCoherent

-------------------------------------------------------------------------------
(***************************************************************************)
(* What answers make of the page.                                          *)
(***************************************************************************)

PageStates == [known : 0 .. MaxRun, catalog : 0 .. MaxRun, view : Views \cup {NoView},
               failed : BOOLEAN, selected : Aircraft \cup {NoAircraft}, again : BOOLEAN]

\* View and catalog are of the run the page believes in, and of one selection.
Coherent(p, sel) ==
    /\ p.view # NoView => p.view.run = p.known /\ p.view.selection = sel
    /\ p.catalog # NoRun => p.catalog = p.known

\* q is p with nothing new to see, and nothing left of a run that was replaced.
Kept(p, q) ==
    /\ q.view \in {p.view, NoView}
    /\ q.selected \in {p.selected, NoAircraft}
    /\ p.known \notin {NoRun, q.known} => q.selected = NoAircraft

\* A replacement run clears what there was; anything else leaves it alone.
LEMMA AdoptFacts ==
    ASSUME NEW sel, NEW p \in PageStates, Coherent(p, sel), NEW r \in 1 .. MaxRun,
           NEW q, q = adoptRun(p, r)
    PROVE  /\ q \in PageStates
           /\ Coherent(q, sel)
           /\ Kept(p, q)
           /\ p.known \in {NoRun, r} => q.view = p.view
           /\ p.known \notin {NoRun, r} => q.view = NoView /\ q.selected = NoAircraft
           /\ q.known = r
           /\ q.failed = p.failed
           /\ q.catalog = IF p.catalog = r THEN r ELSE NoRun
  <1>1. CASE p.known = NoRun
    <2>1. p.view = NoView /\ p.catalog = NoRun
      BY <1>1, ViewConstants DEF Coherent, PageStates, Views, NoRun
    <2>2. q = [p EXCEPT !.known = r]
      BY <1>1 DEF adoptRun
    <2> QED
      BY <1>1, <2>1, <2>2 DEF Coherent, PageStates, Kept, NoRun
  <1>2. CASE p.known = r
    <2>1. q = [p EXCEPT !.known = r]
      BY <1>2 DEF adoptRun
    <2> QED
      BY <1>2, <2>1 DEF Coherent, PageStates, Kept, NoRun
  <1>3. CASE p.known \notin {NoRun, r}
    <2>1. q = [p EXCEPT !.known = r, !.catalog = NoRun, !.view = NoView, !.selected = NoAircraft]
      BY <1>3 DEF adoptRun
    <2>2. q = [known |-> r, catalog |-> NoRun, view |-> NoView, failed |-> p.failed,
               selected |-> NoAircraft, again |-> p.again]
      BY <2>1 DEF PageStates
    <2>3. p.catalog # r
      BY <1>3, ViewConstants DEF Coherent, PageStates, NoRun
    <2>4. q \in PageStates
      BY <2>2, ViewConstants DEF PageStates, NoRun
    <2> QED
      BY <1>3, <2>2, <2>3, <2>4 DEF Coherent, Kept
  <1> QED
    BY <1>1, <1>2, <1>3

\* The catalog may be replaced, and with it the run.
LEMMA StationsFacts ==
    ASSUME NEW sel, NEW p \in PageStates, Coherent(p, sel),
           NEW reply \in Replies, NEW q, q = handleStations(p, reply)
    PROVE  /\ q \in PageStates
           /\ Coherent(q, sel)
           /\ Kept(p, q)
           /\ Replaces(p, reply) => q.view = NoView /\ q.selected = NoAircraft
           /\ ~Replaces(p, reply) => q.view = p.view /\ (p.known # NoRun => q.known = p.known)
           /\ q.failed = p.failed
  <1> DEFINE adopted == adoptRun(p, reply.run)
  <1>1. /\ reply.run # NoRun => reply.run \in 1 .. MaxRun
        /\ reply.status \in {"ok", "unusable"} => reply.run \in 1 .. MaxRun
    BY ViewConstants DEF Replies, Asked, NoRun
  <1>2. CASE reply.status = "ok"
    <2>1. reply.run \in 1 .. MaxRun
      BY <1>1, <1>2
    <2>2. /\ adopted \in PageStates
          /\ Coherent(adopted, sel)
          /\ Kept(p, adopted)
          /\ p.known \in {NoRun, reply.run} => adopted.view = p.view
          /\ p.known \notin {NoRun, reply.run} =>
                 adopted.view = NoView /\ adopted.selected = NoAircraft
          /\ adopted.known = reply.run
          /\ adopted.failed = p.failed
      BY <2>1, AdoptFacts
    <2>3. q = [adopted EXCEPT !.catalog = reply.run]
      BY <1>2 DEF handleStations
    <2>4. Replaces(p, reply) <=> p.known \notin {NoRun, reply.run}
      BY <2>1, ViewConstants DEF Replaces, NoRun
    <2> HIDE DEF adopted
    <2> QED
      BY <2>1, <2>2, <2>3, <2>4 DEF Coherent, PageStates, Kept
  <1>3. CASE reply.status # "ok" /\ Replaces(p, reply)
    <2>1. q = adopted /\ reply.run \in 1 .. MaxRun
      BY <1>1, <1>3 DEF handleStations, Replaces
    <2> QED
      BY <1>3, <2>1, AdoptFacts DEF Replaces
  <1>4. CASE reply.status # "ok" /\ ~Replaces(p, reply)
    <2>1. q = p
      BY <1>4 DEF handleStations
    <2> QED
      BY <1>4, <2>1 DEF Kept
  <1> QED
    BY <1>2, <1>3, <1>4

\* A view is of the answer it was built from; a tombstone was alive in the
\* view before, and is not in the answer.
LEMMA BuildFacts ==
    ASSUME NEW sel \in Selections, NEW reply \in Replies, reply.run \in 1 .. MaxRun,
           NEW previous \in Views \cup {NoView}, NEW v, v = buildView(reply, sel, previous)
    PROVE  /\ v \in Views
           /\ v # NoView
           /\ v.run = reply.run
           /\ v.selection = sel
           /\ \A a \in Aircraft : v.rows[a] = "tombstone" <=>
                  /\ previous # NoView
                  /\ previous.rows[a] = "live"
                  /\ a \notin reply.aircraft
  BY NothingIsNone DEF buildView, Views, Rows

\* The view is replaced by the one of a usable answer, or there is a failure.
LEMMA ObservationsFacts ==
    ASSUME NEW sel \in Selections, NEW p \in PageStates, Coherent(p, sel),
           NEW reply \in Replies \ {Asked},
           NEW q, q = handleObservations(p, reply, sel)
    PROVE  /\ q \in PageStates
           /\ Coherent(q, sel)
           /\ q.selected \in {p.selected, NoAircraft}
           /\ p.known \notin {NoRun, q.known} => q.selected = NoAircraft
           /\ q.view # NoView => (q.failed <=> reply.status # "ok")
           /\ q.failed => /\ q.view \in {p.view, NoView}
                          /\ q.view = p.view \/ Replaces(p, reply)
           /\ q.view = NoView /\ p.view # NoView => q.selected = NoAircraft
           /\ ~q.failed => /\ reply.status = "ok"
                           /\ q.view # NoView
                           /\ \E v \in {p.view, NoView} :
                                 /\ v = IF Replaces(p, reply) THEN NoView ELSE p.view
                                 /\ q.view = buildView(reply, sel, v)
                                 /\ v # NoView => v.run = reply.run
  <1> DEFINE adopted == adoptRun(p, reply.run)
  <1>1. /\ reply.run # NoRun => reply.run \in 1 .. MaxRun
        /\ reply.status \in {"ok", "unusable"} => reply.run \in 1 .. MaxRun
    BY ViewConstants DEF Replies, Asked, NoRun
  <1>2. reply.status \in {"ok", "unusable", "error"}
    BY DEF Replies, Asked
  <1>3. CASE reply.status = "error" /\ ~Replaces(p, reply)
    <2>1. q = [p EXCEPT !.failed = TRUE]
      BY <1>3 DEF handleObservations
    <2> QED
      BY <1>3, <2>1 DEF Coherent, PageStates
  <1>4. CASE reply.status # "error" \/ Replaces(p, reply)
    <2>1. reply.run \in 1 .. MaxRun
      BY <1>1, <1>2, <1>4 DEF Replaces
    <2>2. /\ adopted \in PageStates
          /\ Coherent(adopted, sel)
          /\ Kept(p, adopted)
          /\ p.known \in {NoRun, reply.run} => adopted.view = p.view
          /\ p.known \notin {NoRun, reply.run} =>
                 adopted.view = NoView /\ adopted.selected = NoAircraft
          /\ adopted.known = reply.run
          /\ adopted.failed = p.failed
          /\ adopted.catalog = IF p.catalog = reply.run THEN reply.run ELSE NoRun
      BY <2>1, AdoptFacts
    <2>. Replaces(p, reply) <=> p.known \notin {NoRun, reply.run}
      BY <2>1, ViewConstants DEF Replaces, NoRun
    <2>3. CASE reply.status = "error"
      <3>1. q = [adopted EXCEPT !.failed = TRUE, !.again = TRUE]
        BY <1>4, <2>3 DEF handleObservations
      <3> HIDE DEF adopted
      <3> QED
        BY <2>2, <2>3, <3>1 DEF Coherent, PageStates, Kept
    <2>4. CASE reply.status # "error" /\ p.catalog \notin {NoRun, reply.run}
      <3>1. q = [adopted EXCEPT !.failed = TRUE, !.again = TRUE]
        BY <2>4 DEF handleObservations
      <3>2. p.known \notin {NoRun, reply.run}
        BY <2>4 DEF Coherent
      <3> HIDE DEF adopted
      <3> QED
        BY <2>2, <3>1, <3>2 DEF Coherent, PageStates, Kept
    <2>5. CASE reply.status = "unusable" /\ p.catalog \in {NoRun, reply.run}
      <3>1. q = [adopted EXCEPT !.failed = TRUE]
        BY <2>5 DEF handleObservations
      <3> HIDE DEF adopted
      <3> QED
        BY <2>2, <2>5, <3>1 DEF Coherent, PageStates, Kept
    <2>6. CASE reply.status = "ok" /\ p.catalog \in {NoRun, reply.run}
      <3> DEFINE v == buildView(reply, sel, adopted.view)
      <3>1. q = [adopted EXCEPT !.failed = FALSE, !.view = v]
        BY <2>6 DEF handleObservations
      <3>2. v \in Views /\ v # NoView /\ v.run = reply.run /\ v.selection = sel
        BY <2>1, <2>2, BuildFacts DEF PageStates
      <3>3. adopted.view # NoView => adopted.view.run = reply.run
        BY <2>2 DEF Coherent
      <3> HIDE DEF adopted
      <3>4. q.view = buildView(reply, sel, adopted.view)
        BY <2>2, <3>1 DEF PageStates
      <3> HIDE DEF v
      <3> QED
        BY <2>2, <2>6, <3>1, <3>2, <3>3, <3>4 DEF Coherent, PageStates, Kept
    <2> QED
      BY <1>2, <2>3, <2>4, <2>5, <2>6
  <1> QED
    BY <1>2, <1>3, <1>4

\* What a cycle that counts makes of the page.
LEMMA ShownFacts ==
    ASSUME IInv, NEW k \in Cycles, Refresh(k), IsCurrent(k), NEW q, q = Shown(k)
    PROVE  /\ Live(k)
           /\ q \in PageStates
           /\ Coherent(q, selection)
           /\ known \notin {NoRun, q.known} => q.selected = NoAircraft
           /\ q.view # NoView => (q.failed <=> cycles[k].observed.status # "ok")
           /\ q.failed => /\ q.view \in {view, NoView}
                          /\ q.view = view \/ NamesAnotherRun(k)
           /\ q.view = NoView /\ view # NoView => q.selected = NoAircraft
           /\ ~q.failed =>
                 /\ cycles[k].observed.status = "ok"
                 /\ q.view # NoView
                 /\ q.view.run = cycles[k].observed.run
                 /\ \A a \in Aircraft : q.view.rows[a] = "tombstone" <=>
                       /\ view # NoView
                       /\ <<view.run, view.selection>> = <<q.view.run, q.view.selection>>
                       /\ view.rows[a] = "live"
                       /\ a \notin cycles[k].observed.aircraft
                       /\ ~NamesAnotherRun(k)
  <1> DEFINE s == cycles[k].stations
             o == cycles[k].observed
             p == handleStations(Page, s)
  <1>1. /\ cycles[k] \in CycleStates /\ cycles[k] # NoCycle
        /\ Live(k) /\ Settled(cycles[k])
    BY DEF Refresh, IsCurrent, Live, IInv, TypeOK
  <1>2. /\ s \in Replies /\ o \in Replies
        /\ cycles[k].selection = selection /\ selection \in Selections
    BY <1>1 DEF IInv, TypeOK, Single, Fresh, Live, CycleStates
  <1>3. o # Asked
    BY <1>1 DEF Settled, Live
  <1>4. Page \in PageStates /\ Coherent(Page, selection)
    BY DEF Page, PageStates, Coherent, IInv, TypeOK, ViewIsCoherent
  <1>5. /\ p \in PageStates
        /\ Coherent(p, selection)
        /\ Kept(Page, p)
        /\ Replaces(Page, s) => p.view = NoView /\ p.selected = NoAircraft
        /\ ~Replaces(Page, s) => p.view = view /\ (known # NoRun => p.known = known)
    BY <1>2, <1>4, StationsFacts DEF Page
  <1>6. q = handleObservations(p, o, selection)
    BY <1>2 DEF Shown
  <1>names. NamesAnotherRun(k) <=> Replaces(Page, s) \/ Replaces(Page, o)
    BY DEF NamesAnotherRun
  <1>unknown. known = NoRun => view = NoView
    BY ViewConstants DEF IInv, ViewIsCoherent, TypeOK, Views, NoRun
  <1> HIDE DEF s, o, p
  <1>7. /\ q \in PageStates
        /\ Coherent(q, selection)
        /\ q.selected \in {p.selected, NoAircraft}
        /\ p.known \notin {NoRun, q.known} => q.selected = NoAircraft
        /\ q.view # NoView => (q.failed <=> o.status # "ok")
        /\ q.failed => /\ q.view \in {p.view, NoView}
                       /\ q.view = p.view \/ Replaces(p, o)
        /\ q.view = NoView /\ p.view # NoView => q.selected = NoAircraft
        /\ ~q.failed => /\ o.status = "ok"
                        /\ q.view # NoView
                        /\ \E v \in {p.view, NoView} :
                              /\ v = IF Replaces(p, o) THEN NoView ELSE p.view
                              /\ q.view = buildView(o, selection, v)
                              /\ v # NoView => v.run = o.run
    BY <1>2, <1>3, <1>5, <1>6, ObservationsFacts
  <1>8. /\ p.view \in {view, NoView}
        /\ p.selected \in {selected, NoAircraft}
        /\ known \notin {NoRun, p.known} => p.selected = NoAircraft
    BY <1>5 DEF Kept, Page
  <1>same. ~Replaces(Page, s) /\ known # NoRun => (Replaces(p, o) <=> Replaces(Page, o))
    BY <1>5 DEF Replaces, Page
  <1>9. known \notin {NoRun, q.known} => q.selected = NoAircraft
    BY <1>7, <1>8, <1>5 DEF PageStates
  <1>10. ASSUME ~q.failed
         PROVE  /\ q.view # NoView
                /\ q.view.run = o.run
                /\ \A a \in Aircraft : q.view.rows[a] = "tombstone" <=>
                      /\ view # NoView
                      /\ <<view.run, view.selection>> = <<q.view.run, q.view.selection>>
                      /\ view.rows[a] = "live"
                      /\ a \notin o.aircraft
                      /\ ~NamesAnotherRun(k)
    <2>1. PICK v \in {p.view, NoView} :
             /\ v = IF Replaces(p, o) THEN NoView ELSE p.view
             /\ q.view = buildView(o, selection, v)
             /\ v # NoView => v.run = o.run
      BY <1>7, <1>10
    <2>2. v \in Views \cup {NoView} /\ o.run \in 1 .. MaxRun
      BY <1>2, <1>3, <1>5, <1>7, <1>10 DEF PageStates, Replies
    <2>3. v # NoView => v = view /\ v.selection = selection
      BY <1>8, <2>1 DEF IInv, ViewIsCoherent
    <2>4. v # NoView <=> view # NoView /\ ~NamesAnotherRun(k)
      BY <1>5, <1>8, <1>same, <1>names, <1>unknown, <2>1
    <2>5. /\ q.view # NoView
          /\ q.view.run = o.run
          /\ q.view.selection = selection
          /\ \A a \in Aircraft : q.view.rows[a] = "tombstone" <=>
                v # NoView /\ v.rows[a] = "live" /\ a \notin o.aircraft
      BY <1>2, <2>1, <2>2, BuildFacts
    <2> QED
      BY <2>1, <2>3, <2>4, <2>5
  <1>11. q.failed => q.view = view \/ NamesAnotherRun(k)
    BY <1>5, <1>7, <1>8, <1>same, <1>names, <1>unknown
  <1>12. q.view = NoView /\ view # NoView => q.selected = NoAircraft
    BY <1>5, <1>7, <1>8
  <1> QED
    BY <1>1, <1>7, <1>8, <1>9, <1>10, <1>11, <1>12 DEF o

-------------------------------------------------------------------------------
(***************************************************************************)
(* The poll loop.                                                          *)
(***************************************************************************)

\* A cycle starts with nothing answered.
LEMMA CycleFacts ==
    ASSUME NEW ep \in Nat, NEW gen \in Nat, NEW sel \in Selections, NEW c, c = Cycle(ep, gen, sel)
    PROVE  /\ c \in CycleStates
           /\ c # NoCycle
           /\ c.epoch = ep /\ c.generation = gen /\ c.selection = sel /\ ~c.aborted
           /\ c.observed.status # "ok"
  <1>1. Asked \in Replies
    BY DEF Replies
  <1>2. Asked.status # "ok"
    BY DEF Asked
  <1>3. c \in CycleStates
    BY <1>1 DEF Cycle, CycleStates
  <1> QED
    BY <1>2, <1>3, NothingIsNone DEF Cycle

\* stop() leaves no cycle alive.
LEMMA AbortedFacts ==
    ASSUME IInv
    PROVE  /\ Aborted \in [Cycles -> CycleStates \cup {NoCycle}]
           /\ \A k \in Cycles :
                 /\ Aborted[k] = NoCycle <=> cycles[k] = NoCycle
                 /\ Aborted[k] # NoCycle => /\ Aborted[k].aborted
                                            /\ Aborted[k].epoch \in Nat
                                            /\ Aborted[k].epoch <= epoch
  <1>1. \A k \in Cycles : cycles[k] # NoCycle =>
           /\ cycles[k] \in CycleStates
           /\ cycles[k].epoch \in Nat
           /\ cycles[k].epoch <= epoch
           /\ ~cycles[k].aborted => k = controller
    BY DEF IInv, TypeOK, Single, CycleStates
  <1>2. CASE controller = NoCycle \/ cycles[controller] = NoCycle
    <2>1. Aborted = cycles
      BY <1>2 DEF Aborted
    <2>2. \A k \in Cycles : cycles[k] # NoCycle => cycles[k].aborted
      BY <1>1, <1>2, ViewConstants
    <2> QED
      BY <1>1, <2>1, <2>2 DEF IInv, TypeOK
  <1>3. CASE controller # NoCycle /\ cycles[controller] # NoCycle
    <2> DEFINE c == [cycles[controller] EXCEPT !.aborted = TRUE]
    <2>1. Aborted = [cycles EXCEPT ![controller] = c]
      BY <1>3 DEF Aborted
    <2>2. controller \in Cycles /\ cycles[controller] \in CycleStates
      BY <1>3 DEF IInv, TypeOK
    <2>3. c \in CycleStates /\ c.aborted /\ c.epoch = cycles[controller].epoch
      BY <2>2 DEF CycleStates
    <2>4. c # NoCycle
      BY <2>3, NothingIsNone
    <2> HIDE DEF c
    <2> QED
      BY <1>1, <1>3, <2>1, <2>2, <2>3, <2>4 DEF IInv, TypeOK
  <1> QED
    BY <1>2, <1>3

\* A cycle starts among others that are all of an earlier epoch.
LEMMA StartFacts ==
    ASSUME IInv, NEW all \in [Cycles -> CycleStates \cup {NoCycle}],
           NEW ep \in Nat, NEW gen \in Nat, NEW sel \in Selections,
           Start(all, ep, gen, sel)
    PROVE  /\ running' = TRUE /\ busy' = TRUE /\ timer' = FALSE
           /\ controller' \in Cycles
           /\ cycles' \in [Cycles -> CycleStates \cup {NoCycle}]
           /\ cycles'[controller'] = Cycle(ep, gen, sel)
           /\ \A k \in Cycles \ {controller'} : cycles'[k] = all[k]
  <1>1. Unused(all) \in Cycles
    BY DEF Start, Unused
  <1>2. Cycle(ep, gen, sel) \in CycleStates
    BY CycleFacts
  <1>3. cycles' = [all EXCEPT ![Unused(all)] = Cycle(ep, gen, sel)] /\ controller' = Unused(all)
    BY DEF Start
  <1> QED
    BY <1>1, <1>2, <1>3 DEF Start

\* An answer changes nothing of its cycle but the request.
LEMMA AnswerFacts ==
    ASSUME IInv, NEW k \in Cycles, AnswerStations(k) \/ AnswerObserved(k)
    PROVE  \E c \in CycleStates :
              /\ cycles' = [cycles EXCEPT ![k] = c]
              /\ c.epoch = cycles[k].epoch /\ c.generation = cycles[k].generation
              /\ c.selection = cycles[k].selection /\ c.aborted = cycles[k].aborted
              /\ cycles[k] # NoCycle
              /\ c.observed \in {cycles[k].observed} \cup Answers \cup Errors
              /\ UNCHANGED <<run, page, timer, running, rerun, stopped, epoch, controller, busy,
                             destroyed>>
  <1>1. cycles[k] \in CycleStates /\ cycles[k] # NoCycle
    BY DEF IInv, TypeOK, AnswerStations, AnswerObserved
  <1>2. {Catalog} \cup Errors \cup Answers \subseteq Replies
    <2>1. run \in 1 .. MaxRun /\ {NoRun, run} \subseteq 0 .. MaxRun
      BY ViewConstants DEF IInv, TypeOK, NoRun
    <2>2. Errors \subseteq Replies
      BY <2>1 DEF Errors, Replies
    <2>3. Catalog \in Replies
      BY <2>1 DEF Catalog, Replies
    <2>4. Answers \subseteq Replies
      BY <2>1 DEF Answers, Replies
    <2> QED
      BY <2>2, <2>3, <2>4
  <1>3. CASE AnswerStations(k)
    <2>1. PICK a \in {Catalog} \cup Errors : cycles' = [cycles EXCEPT ![k].stations = a]
      BY <1>3 DEF AnswerStations
    <2> DEFINE c == [cycles[k] EXCEPT !.stations = a]
    <2>2. cycles' = [cycles EXCEPT ![k] = c]
      BY <2>1
    <2>3. /\ c \in CycleStates
          /\ c.epoch = cycles[k].epoch /\ c.generation = cycles[k].generation
          /\ c.selection = cycles[k].selection /\ c.aborted = cycles[k].aborted
          /\ c.observed = cycles[k].observed
      BY <1>1, <1>2 DEF CycleStates
    <2> HIDE DEF c
    <2> QED
      BY <1>1, <1>3, <2>2, <2>3 DEF AnswerStations
  <1>4. CASE AnswerObserved(k)
    <2>1. PICK a \in Answers \cup Errors : cycles' = [cycles EXCEPT ![k].observed = a]
      BY <1>4 DEF AnswerObserved
    <2> DEFINE c == [cycles[k] EXCEPT !.observed = a]
    <2>2. cycles' = [cycles EXCEPT ![k] = c]
      BY <2>1
    <2>3. /\ c \in CycleStates
          /\ c.epoch = cycles[k].epoch /\ c.generation = cycles[k].generation
          /\ c.selection = cycles[k].selection /\ c.aborted = cycles[k].aborted
          /\ c.observed = a
      BY <1>1, <1>2 DEF CycleStates
    <2> HIDE DEF c
    <2> QED
      BY <1>1, <1>4, <2>2, <2>3 DEF AnswerObserved
  <1> QED
    BY <1>3, <1>4

\* The part of the invariant that is about the poll loop.
Loop ==
    /\ {timer, running, rerun, stopped, busy, destroyed} \subseteq BOOLEAN
    /\ epoch \in 0 .. MaxGeneration + 1
    /\ controller \in Cycles \cup {NoCycle}
    /\ cycles \in [Cycles -> CycleStates \cup {NoCycle}]
    /\ Single
    /\ PollingIsNeverLost

\* A new cycle is the only one that is alive, whatever it starts for.
LEMMA StartKeepsLoop ==
    ASSUME IInv, NEW all \in [Cycles -> CycleStates \cup {NoCycle}],
           Start(all, epoch', generation', selection'),
           generation' \in 0 .. MaxGeneration, selection' \in Selections,
           epoch' = generation', rerun' \in BOOLEAN,
           ~destroyed, UNCHANGED <<stopped, destroyed>>,
           \A k \in Cycles : all[k] # NoCycle => all[k].aborted /\ all[k].epoch < epoch'
    PROVE  Loop'
  <1> DEFINE c == Cycle(epoch', generation', selection')
  <1>1. epoch' \in Nat /\ generation' \in Nat /\ epoch' \in 0 .. MaxGeneration + 1
    BY ViewConstants
  <1>2. /\ running' = TRUE /\ busy' = TRUE /\ timer' = FALSE
        /\ controller' \in Cycles
        /\ cycles' \in [Cycles -> CycleStates \cup {NoCycle}]
        /\ cycles'[controller'] = c
        /\ \A k \in Cycles \ {controller'} : cycles'[k] = all[k]
    BY <1>1, StartFacts
  <1>3. /\ c # NoCycle /\ ~c.aborted
        /\ c.epoch = epoch' /\ c.generation = generation' /\ c.selection = selection'
    BY <1>1, CycleFacts
  <1> HIDE DEF c
  <1>4. ~destroyed' /\ ~stopped'
    BY DEF IInv, Single
  <1>5. Single'
    <2>1. epoch' = IF destroyed' THEN generation' + 1 ELSE generation'
      BY <1>1, <1>4
    <2>2. ASSUME NEW k \in Cycles, cycles'[k] # NoCycle
          PROVE  /\ cycles'[k].aborted => cycles'[k].epoch < epoch'
                 /\ ~cycles'[k].aborted =>
                       /\ k = controller' /\ running' /\ ~destroyed'
                       /\ cycles'[k].epoch = epoch'
                       /\ cycles'[k].generation = generation'
                       /\ cycles'[k].selection = selection'
      <3>1. CASE k = controller'
        BY <1>2, <1>3, <1>4, <3>1
      <3>2. CASE k # controller'
        BY <1>2, <2>2, <3>2
      <3> QED
        BY <3>1, <3>2
    <2> QED
      BY <1>4, <2>1, <2>2 DEF Single
  <1>6. PollingIsNeverLost'
    BY <1>2, <1>3, ViewConstants DEF PollingIsNeverLost
  <1> QED
    BY <1>1, <1>2, <1>5, <1>6 DEF Loop, IInv, TypeOK

\* A cycle that ends frees its slot.  If it was superseded its successor is left
\* alone; otherwise it starts over or arms the timer.
LEMMA RefreshKeepsLoop ==
    ASSUME IInv, NEW k \in Cycles, Refresh(k)
    PROVE  Loop'
  <1> DEFINE ended == [cycles EXCEPT ![k] = NoCycle]
  <1>1. /\ cycles[k] # NoCycle
        /\ Finish(k)
        /\ UNCHANGED <<selection, generation, stopped, epoch, destroyed>>
    BY DEF Refresh
  <1>2. /\ ended \in [Cycles -> CycleStates \cup {NoCycle}]
        /\ ended[k] = NoCycle
        /\ \A l \in Cycles \ {k} : ended[l] = cycles[l]
    BY DEF IInv, TypeOK
  <1> HIDE DEF ended
  <1>3. CASE cycles[k].epoch # epoch
    <2>1. /\ cycles' = ended
          /\ busy' = StillBusy
          /\ UNCHANGED <<timer, running, rerun, controller>>
      BY <1>1, <1>3 DEF Finish, ended
    <2>2. cycles[k].aborted
      BY <1>1, <1>3 DEF IInv, TypeOK, Single
    <2>3. Single'
      BY <1>1, <1>2, <2>1 DEF IInv, Single
    <2>4. PollingIsNeverLost'
      BY <1>1, <1>2, <2>1, <2>2 DEF IInv, PollingIsNeverLost, TypeOK
    <2> QED
      BY <1>1, <1>2, <2>1, <2>3, <2>4 DEF Loop, IInv, TypeOK, StillBusy
  <1>4. CASE cycles[k].epoch = epoch
    <2>1. k = controller /\ running /\ ~destroyed /\ ~stopped /\ epoch = generation
      BY <1>1, <1>4 DEF IInv, Single, TypeOK
    <2>2. \A l \in Cycles : ended[l] # NoCycle => ended[l].aborted /\ ended[l].epoch < epoch
      BY <1>2, <2>1 DEF IInv, Single
    <2>3. CASE rerun \/ Shown(k).again
      <3>1. rerun' = FALSE /\ Start(ended, epoch, generation, selection)
        BY <1>1, <1>4, <2>3 DEF Finish, ended
      <3>2. Start(ended, epoch', generation', selection')
        BY <1>1, <3>1
      <3> QED
        BY <1>1, <1>2, <2>1, <2>2, <3>1, <3>2, StartKeepsLoop DEF IInv, TypeOK
    <2>4. CASE ~(rerun \/ Shown(k).again)
      <3>1. /\ running' = FALSE /\ controller' = NoCycle /\ timer' = ~stopped
            /\ busy' = StillBusy /\ cycles' = ended /\ rerun' = rerun
        BY <1>1, <1>4, <2>4 DEF Finish, ended
      <3>2. Single'
        BY <1>1, <1>2, <2>2, <3>1 DEF IInv, Single
      <3>3. timer' /\ timer' \in BOOLEAN
        BY <2>1, <3>1
      <3>4. PollingIsNeverLost'
        BY <3>1, <3>3 DEF PollingIsNeverLost
      <3> QED
        BY <1>1, <1>2, <3>1, <3>2, <3>3, <3>4 DEF Loop, IInv, TypeOK, StillBusy
    <2> QED
      BY <2>3, <2>4
  <1> QED
    BY <1>3, <1>4

\* The other steps of the loop: a timer, an answer, a new selection, the end.
LEMMA OthersKeepLoop ==
    ASSUME IInv,
           \/ TimerFires \/ Destroy \/ RestartSimulator
           \/ \E k \in Cycles : AnswerStations(k) \/ AnswerObserved(k)
           \/ \E sel \in Selections : ChangeSelection(sel)
           \/ \E a \in Aircraft : Select(a)
    PROVE  Loop'
  <1>1. CASE TimerFires
    <2>1. /\ timer /\ ~stopped
          /\ Start(cycles, epoch, generation, selection)
          /\ UNCHANGED <<generation, selection, rerun, stopped, epoch, destroyed>>
      BY <1>1 DEF TimerFires, page
    <2>2. Start(cycles, epoch', generation', selection')
      BY <2>1
    <2>3. \A k \in Cycles : cycles[k] # NoCycle => cycles[k].aborted /\ cycles[k].epoch < epoch
      BY <2>1 DEF IInv, Single, PollingIsNeverLost, TypeOK
    <2> QED
      BY <2>1, <2>2, <2>3, StartKeepsLoop DEF IInv, TypeOK, Single
  <1>2. CASE Destroy
    <2>1. /\ destroyed' = TRUE /\ stopped' = TRUE /\ epoch' = epoch + 1 /\ ~destroyed
          /\ running' = FALSE /\ rerun' = FALSE /\ timer' = FALSE
          /\ cycles' = Aborted
          /\ UNCHANGED <<generation, selection, controller, busy>>
      BY <1>2 DEF Destroy, page
    <2>2. epoch' \in 0 .. MaxGeneration + 1
      BY <2>1, ViewConstants DEF IInv, TypeOK, Single
    <2>3. Single'
      <3>1. epoch' = IF destroyed' THEN generation' + 1 ELSE generation'
        BY <2>1 DEF IInv, Single
      <3>2. \A k \in Cycles : cycles'[k] # NoCycle => cycles'[k].aborted /\ cycles'[k].epoch < epoch'
        BY <2>1, AbortedFacts DEF IInv, TypeOK
      <3> QED
        BY <2>1, <3>1, <3>2 DEF Single
    <2> QED
      BY <2>1, <2>2, <2>3, AbortedFacts DEF Loop, PollingIsNeverLost, IInv, TypeOK
  <1>3. ASSUME NEW k \in Cycles, AnswerStations(k) \/ AnswerObserved(k)
        PROVE  Loop'
    <2>1. PICK c \in CycleStates :
             /\ cycles' = [cycles EXCEPT ![k] = c]
             /\ c.epoch = cycles[k].epoch /\ c.generation = cycles[k].generation
             /\ c.selection = cycles[k].selection /\ c.aborted = cycles[k].aborted
             /\ cycles[k] # NoCycle
             /\ UNCHANGED <<page, timer, running, rerun, stopped, epoch, controller, busy, destroyed>>
      BY <1>3, AnswerFacts
    <2>2. c # NoCycle
      BY NothingIsNone
    <2>3. UNCHANGED <<generation, selection>>
      BY <2>1 DEF page
    <2>4. /\ cycles' \in [Cycles -> CycleStates \cup {NoCycle}]
          /\ cycles'[k] = c
          /\ \A l \in Cycles \ {k} : cycles'[l] = cycles[l]
      BY <2>1 DEF IInv, TypeOK
    <2>5. Single'
      BY <2>1, <2>2, <2>3, <2>4 DEF IInv, Single
    <2>6. PollingIsNeverLost'
      BY <2>1, <2>2, <2>4 DEF IInv, PollingIsNeverLost, TypeOK
    <2> QED
      BY <2>1, <2>4, <2>5, <2>6 DEF Loop, IInv, TypeOK
  <1>4. ASSUME NEW sel \in Selections, ChangeSelection(sel)
        PROVE  Loop'
    <2>1. /\ ~destroyed /\ generation < MaxGeneration
          /\ selection' = sel /\ generation' = generation + 1 /\ epoch' = epoch + 1
          /\ rerun' = FALSE
          /\ Start(Aborted, epoch', generation', sel)
          /\ UNCHANGED <<stopped, destroyed>>
      BY <1>4 DEF ChangeSelection
    <2>2. epoch' = generation' /\ generation' \in 0 .. MaxGeneration
      BY <2>1, ViewConstants DEF IInv, Single, TypeOK
    <2>3. \A k \in Cycles : Aborted[k] # NoCycle => Aborted[k].aborted /\ Aborted[k].epoch < epoch'
      BY <2>1, AbortedFacts DEF IInv, TypeOK
    <2> QED
      BY <2>1, <2>2, <2>3, AbortedFacts, StartKeepsLoop
  <1>5. CASE RestartSimulator \/ \E a \in Aircraft : Select(a)
    BY <1>5 DEF RestartSimulator, Select, page, poller, Loop, Single, PollingIsNeverLost,
                IInv, TypeOK
  <1> QED
    BY <1>1, <1>2, <1>3, <1>4, <1>5

-------------------------------------------------------------------------------
(***************************************************************************)
(* The page.                                                               *)
(***************************************************************************)

\* The part of the invariant that is about what the page shows.
Shows ==
    /\ run \in 1 .. MaxRun
    /\ selected \in Aircraft \cup {NoAircraft}
    /\ {known, catalog, newest} \subseteq 0 .. MaxRun
    /\ selection \in Selections
    /\ view \in Views \cup {NoView}
    /\ generation \in 0 .. MaxGeneration
    /\ {failed, answered} \subseteq BOOLEAN
    /\ Fresh
    /\ ViewIsCoherent

LEMMA LoopAndShows == IInv <=> Loop /\ Shows
  BY DEF IInv, TypeOK, Loop, Shows

\* The cycles a step leaves alive were alive before and have their answers, or
\* have none.
Inherits ==
    \A k \in Cycles : Live(k)' =>
        \/ cycles'[k].observed.status # "ok"
        \/ Live(k) /\ cycles'[k].observed = cycles[k].observed

\* What the page shows changes only when a cycle that counts ends.
LEMMA SamePageKeepsShows ==
    ASSUME IInv, Inherits, UNCHANGED <<run, page>>
    PROVE  Shows'
  BY DEF IInv, TypeOK, Shows, Fresh, ViewIsCoherent, Banner, Inherits, page

\* A superseded cycle ends without a trace; one that counts replaces the view,
\* the run or nothing.
LEMMA RefreshKeepsShows ==
    ASSUME IInv, NEW k \in Cycles, Refresh(k)
    PROVE  Shows'
  <1>1. /\ cycles[k] # NoCycle /\ cycles[k] \in CycleStates
        /\ Finish(k)
        /\ UNCHANGED <<run, selection, generation>>
    BY DEF Refresh, IInv, TypeOK
  <1>2. \A l \in Cycles : Live(l)' =>
           \/ cycles'[l].observed.status # "ok"
           \/ l # k /\ cycles'[l] = cycles[l]
    <2> DEFINE ended == [cycles EXCEPT ![k] = NoCycle]
    <2>1. /\ ended \in [Cycles -> CycleStates \cup {NoCycle}]
          /\ ended[k] = NoCycle
          /\ \A l \in Cycles \ {k} : ended[l] = cycles[l]
      BY DEF IInv, TypeOK
    <2>2. CASE cycles' = ended
      BY <2>1, <2>2 DEF Live
    <2>3. CASE Start(ended, epoch, generation, selection)
      <3>1. epoch \in Nat /\ generation \in Nat /\ selection \in Selections
        BY ViewConstants DEF IInv, TypeOK
      <3>2. /\ cycles'[controller'] = Cycle(epoch, generation, selection)
            /\ \A l \in Cycles \ {controller'} : cycles'[l] = ended[l]
        BY <2>1, <2>3, <3>1, StartFacts
      <3>3. cycles'[controller'].observed.status # "ok"
        BY <3>1, <3>2, CycleFacts
      <3> HIDE DEF ended
      <3> QED
        BY <2>1, <3>2, <3>3 DEF Live
    <2> QED
      BY <1>1, <2>2, <2>3 DEF Finish
  <1>3. CASE ~IsCurrent(k)
    <2>1. Shown(k) = Page
      BY <1>3 DEF Shown
    <2>2. UNCHANGED <<known, catalog, view, failed, selected, answered>>
      BY <1>3, <2>1 DEF Refresh, Page
    <2>3. newest' = newest
      BY <2>1 DEF Refresh, Page, IInv, Fresh, TypeOK, Views
    <2>4. Inherits
      BY <1>2 DEF Inherits, Live
    <2> QED
      BY <1>1, <2>2, <2>3, <2>4, SamePageKeepsShows DEF page
  <1>4. CASE IsCurrent(k)
    <2> DEFINE q == Shown(k)
               o == cycles[k].observed
    <2>1. /\ known' = q.known /\ catalog' = q.catalog /\ view' = q.view
          /\ failed' = q.failed /\ selected' = q.selected
          /\ answered' = (o.status = "ok")
          /\ newest' = IF q.view # NoView /\ q.view.run > newest THEN q.view.run ELSE newest
      BY <1>4 DEF Refresh
    <2>2. /\ Live(k)
          /\ q \in PageStates
          /\ Coherent(q, selection)
          /\ q.view # NoView => (q.failed <=> o.status # "ok")
          /\ q.failed => q.view \in {view, NoView}
          /\ ~q.failed => o.status = "ok" /\ q.view # NoView /\ q.view.run = o.run
      BY <1>4, ShownFacts
    <2> HIDE DEF q, o
    <2>3. q.view # NoView => q.view.run \in 1 .. run
      <3>1. q.view # NoView => q.view.run \in 1 .. MaxRun
        BY <2>2, ViewConstants DEF PageStates, Views
      <3>2. q.failed \in BOOLEAN
        BY <2>2 DEF PageStates
      <3> QED
        BY <2>2, <3>1, <3>2, ViewConstants DEF IInv, Fresh, TypeOK, o
    <2>4. /\ newest' \in 0 .. MaxRun /\ newest' <= run /\ newest <= newest'
          /\ view' # NoView => view'.run <= newest'
      BY <2>1, <2>3, ViewConstants DEF IInv, TypeOK, Fresh
    <2>5. \A l \in Cycles : Live(l)' => cycles'[l].observed.status # "ok"
      <3>1. \A l \in Cycles : Live(l) => l = k
        BY <2>2 DEF IInv, Single, Live
      <3> QED
        BY <1>2, <3>1 DEF Live
    <2>6. Fresh'
      BY <1>1, <2>4, <2>5 DEF Fresh
    <2>7. ViewIsCoherent'
      <3>1. /\ view' # NoView => view'.run = known' /\ view'.selection = selection'
            /\ catalog' # NoRun => catalog' = known'
        BY <1>1, <2>1, <2>2 DEF Coherent
      <3>2. view' # NoView => (failed' <=> ~answered')
        BY <2>1, <2>2
      <3> QED
        BY <3>1, <3>2 DEF ViewIsCoherent, Banner
    <2>8. answered' \in BOOLEAN
      BY <2>1
    <2> QED
      BY <1>1, <2>1, <2>2, <2>4, <2>6, <2>7, <2>8 DEF Shows, PageStates, IInv, TypeOK
  <1> QED
    BY <1>3, <1>4

\* The other steps: what is shown stays, or is cleared with its selection.
LEMMA OthersKeepShows ==
    ASSUME IInv,
           \/ TimerFires \/ Destroy \/ RestartSimulator
           \/ \E k \in Cycles : AnswerStations(k) \/ AnswerObserved(k)
           \/ \E sel \in Selections : ChangeSelection(sel)
           \/ \E a \in Aircraft : Select(a)
    PROVE  Shows'
  <1>1. CASE TimerFires
    <2>1. /\ Start(cycles, epoch, generation, selection)
          /\ UNCHANGED <<run, page>>
          /\ epoch \in Nat /\ generation \in Nat /\ selection \in Selections
          /\ cycles \in [Cycles -> CycleStates \cup {NoCycle}]
      BY <1>1, ViewConstants DEF TimerFires, IInv, TypeOK
    <2>2. /\ cycles'[controller'] = Cycle(epoch, generation, selection)
          /\ \A l \in Cycles \ {controller'} : cycles'[l] = cycles[l]
      BY <2>1, StartFacts
    <2>3. cycles'[controller'].observed.status # "ok"
      BY <2>1, <2>2, CycleFacts
    <2>4. Inherits
      BY <2>2, <2>3 DEF Inherits, Live
    <2> QED
      BY <2>1, <2>4, SamePageKeepsShows
  <1>2. CASE Destroy
    <2>1. cycles' = Aborted /\ UNCHANGED <<run, page>>
      BY <1>2 DEF Destroy
    <2>2. Inherits
      BY <2>1, AbortedFacts DEF Inherits, Live
    <2> QED
      BY <2>1, <2>2, SamePageKeepsShows
  <1>3. ASSUME NEW k \in Cycles, AnswerStations(k) \/ AnswerObserved(k)
        PROVE  Shows'
    <2>1. PICK c \in CycleStates :
             /\ cycles' = [cycles EXCEPT ![k] = c]
             /\ c.aborted = cycles[k].aborted
             /\ cycles[k] # NoCycle
             /\ c.observed \in {cycles[k].observed} \cup Answers \cup Errors
             /\ UNCHANGED <<run, page>>
      BY <1>3, AnswerFacts
    <2>2. /\ cycles'[k] = c
          /\ \A l \in Cycles \ {k} : cycles'[l] = cycles[l]
      BY <2>1 DEF IInv, TypeOK
    <2>3. c.observed = cycles[k].observed \/ (c.observed.status = "ok" => c.observed.run = run)
      BY <2>1 DEF Answers, Errors
    <2>4. newest \in Nat /\ run \in Nat /\ newest <= run
      BY ViewConstants DEF IInv, TypeOK, Fresh
    <2>5. UNCHANGED <<known, catalog, selection, view, failed, selected, generation, newest, answered>>
      BY <2>1 DEF page
    <2>6. \A l \in Cycles : Live(l)' /\ cycles'[l].observed.status = "ok" =>
             cycles'[l].observed.run \in newest .. run
      <3>1. ASSUME Live(k)', cycles'[k].observed.status = "ok"
            PROVE  cycles'[k].observed.run \in newest .. run
        BY <2>1, <2>2, <2>3, <2>4, <3>1 DEF Live, IInv, Fresh
      <3>2. ASSUME NEW l \in Cycles \ {k}, Live(l)', cycles'[l].observed.status = "ok"
            PROVE  cycles'[l].observed.run \in newest .. run
        BY <2>2, <3>2 DEF Live, IInv, Fresh
      <3> QED
        BY <3>1, <3>2
    <2>7. Fresh'
      BY <2>1, <2>5, <2>6 DEF IInv, Fresh
    <2> QED
      BY <2>1, <2>5, <2>7 DEF IInv, TypeOK, Shows, ViewIsCoherent, Banner
  <1>4. ASSUME NEW sel \in Selections, ChangeSelection(sel)
        PROVE  Shows'
    <2>1. /\ generation < MaxGeneration
          /\ selection' = sel /\ generation' = generation + 1 /\ epoch' = epoch + 1
          /\ view' = NoView /\ failed' = FALSE /\ selected' = NoAircraft
          /\ Start(Aborted, epoch', generation', sel)
          /\ UNCHANGED <<run, known, catalog, newest, answered>>
      BY <1>4 DEF ChangeSelection
    <2>2. epoch' \in Nat /\ generation' \in 0 .. MaxGeneration /\ generation' \in Nat
      BY <2>1, ViewConstants DEF IInv, TypeOK
    <2>3. /\ cycles'[controller'] = Cycle(epoch', generation', sel)
          /\ \A l \in Cycles \ {controller'} : cycles'[l] = Aborted[l]
      BY <2>1, <2>2, AbortedFacts, StartFacts
    <2>4. cycles'[controller'].observed.status # "ok"
      BY <2>2, <2>3, CycleFacts
    <2>5. \A l \in Cycles : Live(l)' => cycles'[l].observed.status # "ok"
      BY <2>3, <2>4, AbortedFacts DEF Live
    <2>6. Fresh'
      BY <2>1, <2>5 DEF IInv, Fresh
    <2>7. ViewIsCoherent'
      BY <2>1 DEF IInv, ViewIsCoherent
    <2> QED
      BY <2>1, <2>2, <2>6, <2>7 DEF IInv, TypeOK, Shows
  <1>5. ASSUME NEW a \in Aircraft, Select(a)
        PROVE  Shows'
    BY <1>5 DEF Select, poller, IInv, TypeOK, Shows, Fresh, Live, ViewIsCoherent, Banner
  <1>6. CASE RestartSimulator
    <2>1. run' \in 1 .. MaxRun /\ run' = run + 1 /\ UNCHANGED <<page, poller>>
      BY <1>6, ViewConstants DEF RestartSimulator, IInv, TypeOK
    <2>2. Fresh'
      <3>1. newest \in Nat /\ run \in Nat /\ newest <= run
        BY ViewConstants DEF IInv, TypeOK, Fresh
      <3>2. ASSUME NEW k \in Cycles, Live(k), cycles[k].observed.status = "ok"
            PROVE  cycles[k].observed.run \in newest .. run'
        BY <2>1, <3>1, <3>2 DEF IInv, Fresh
      <3> QED
        BY <2>1, <3>1, <3>2 DEF IInv, Fresh, Live, page, poller
    <2> QED
      BY <2>1, <2>2 DEF IInv, TypeOK, Shows, ViewIsCoherent, Banner, page
  <1> QED
    BY <1>1, <1>2, <1>3, <1>4, <1>5, <1>6

-------------------------------------------------------------------------------
(***************************************************************************)
(* The theorems.                                                           *)
(***************************************************************************)

\* A page that was just mounted has one cycle under way and shows nothing.
LEMMA InitIInv ==
    ASSUME Init
    PROVE  IInv
  <1>1. controller \in Cycles
    BY ViewConstants DEF Init, Unused
  <1> DEFINE c == Cycle(0, 0, selection)
  <1>2. selection \in Selections /\ cycles = [k \in Cycles |-> IF k = controller THEN c ELSE NoCycle]
    BY ViewConstants DEF Init
  <1>3. /\ c \in CycleStates /\ c # NoCycle
        /\ c.epoch = 0 /\ c.generation = 0 /\ c.selection = selection /\ ~c.aborted
        /\ c.observed.status # "ok"
    BY <1>2, CycleFacts
  <1> HIDE DEF c
  <1>4. TypeOK
    <2>1. cycles \in [Cycles -> CycleStates \cup {NoCycle}]
      BY <1>2, <1>3
    <2>2. 1 \in 1 .. MaxRun /\ 0 \in 0 .. MaxRun /\ 0 \in 0 .. MaxGeneration /\ 0 \in 0 .. MaxGeneration + 1
      BY ViewConstants
    <2> QED
      BY <1>1, <1>2, <2>1, <2>2 DEF Init, TypeOK, NoRun
  <1>5. Single
    <2>1. \A k \in Cycles : cycles[k] # NoCycle => k = controller /\ cycles[k] = c
      BY <1>2
    <2>2. epoch = 0 /\ generation = 0 /\ ~destroyed /\ ~stopped /\ running
      BY DEF Init
    <2> QED
      BY <1>3, <2>1, <2>2 DEF Single
  <1>6. PollingIsNeverLost
    BY <1>1, <1>2, <1>3, ViewConstants DEF Init, PollingIsNeverLost
  <1>7. Fresh
    BY <1>1, <1>2, <1>3 DEF Init, Fresh, Live, NoRun
  <1>8. ViewIsCoherent
    BY DEF Init, ViewIsCoherent
  <1> QED
    BY <1>4, <1>5, <1>6, <1>7, <1>8 DEF IInv

\* The inductive invariant: one cycle at a time is alive, of the latest epoch and
\* selection, and what it was answered is no older than what is shown.
THEOREM Invariance == Spec => []IInv
  <1>1. IInv /\ [Next]_vars => IInv'
    <2> SUFFICES ASSUME IInv, [Next]_vars
                 PROVE  IInv'
      OBVIOUS
    <2>1. CASE UNCHANGED vars
      BY <2>1 DEF vars, page, poller, IInv, TypeOK, Single, PollingIsNeverLost, Fresh, Live,
                  ViewIsCoherent, Banner
    <2>2. CASE Next
      <3>1. Loop'
        BY <2>2, RefreshKeepsLoop, OthersKeepLoop DEF Next
      <3>2. Shows'
        BY <2>2, RefreshKeepsShows, OthersKeepShows DEF Next
      <3> QED
        BY <3>1, <3>2 DEF Loop, Shows, IInv, TypeOK
    <2> QED
      BY <2>1, <2>2
  <1> QED
    BY <1>1, InitIInv, PTL DEF Spec

\* Cycles never overlap and polling is never lost, however often and in whatever
\* order selections change, cycles are superseded and requests are answered.
THEOREM PollingGoesOn == Spec => []PollerInv
  <1>1. IInv => PollerInv
    BY DEF IInv, Single, PollerInv, CyclesNeverOverlap
  <1> QED
    BY <1>1, Invariance, PTL

\* What is shown is of one run and one selection, and called stale exactly when
\* the latest refresh failed.
THEOREM ViewAlwaysCoherent == Spec => []ViewIsCoherent
  <1>1. IInv => ViewIsCoherent
    BY DEF IInv
  <1> QED
    BY <1>1, Invariance, PTL

\* No answer, however late, brings back a run that was superseded on the page.
THEOREM NoOlderRunIsShown == Spec => NeverShowsOlderRun
  <1>1. ASSUME IInv, [Next]_vars, view' # view, view' # NoView
        PROVE  view'.run >= newest
    <2>1. PICK k \in Cycles : Refresh(k)
      BY <1>1 DEF Next, vars, page, TimerFires, Destroy, RestartSimulator, AnswerStations,
                  AnswerObserved, ChangeSelection, Select
    <2>2. IsCurrent(k)
      BY <1>1, <2>1 DEF Refresh, Shown, Page
    <2>3. view' = Shown(k).view
      BY <2>1 DEF Refresh
    <2>4. /\ Live(k) /\ Shown(k) \in PageStates
          /\ Shown(k).failed => Shown(k).view \in {view, NoView}
          /\ ~Shown(k).failed => /\ cycles[k].observed.status = "ok"
                                 /\ Shown(k).view.run = cycles[k].observed.run
      BY <1>1, <2>1, <2>2, ShownFacts
    <2> QED
      BY <1>1, <2>3, <2>4, ViewConstants DEF IInv, Fresh, TypeOK
  <1>2. IInv /\ [Next]_vars => [view' # view /\ view' # NoView => view'.run >= newest]_vars
    BY <1>1
  <1> QED
    BY <1>2, Invariance, PTL DEF Spec, NeverShowsOlderRun

\* A row is a tombstone for exactly the view after the one it was lost from,
\* whatever failed in between, and neither a row nor a selected aircraft outlives
\* its run or its selection.
THEOREM TombstonesAreBrief == Spec => TombstonesLastOneView
  <1> USE DEF Counts
  <1>1. ASSUME IInv, NEW k \in Cycles, Counts(k), view' # NoView, ~failed', NEW a \in Aircraft
        PROVE  view'.rows[a] = "tombstone" <=>
                   /\ view # NoView
                   /\ <<view.run, view.selection>> = <<view'.run, view'.selection>>
                   /\ view.rows[a] = "live"
                   /\ a \notin cycles[k].observed.aircraft
                   /\ ~NamesAnotherRun(k)
    <2>1. view' = Shown(k).view /\ failed' = Shown(k).failed
      BY <1>1 DEF Refresh
    <2> QED
      BY <1>1, <2>1, ShownFacts
  <1>2. ASSUME IInv, [Next]_vars
        PROVE  /\ view' # view =>
                      \/ \E k \in Cycles : Counts(k) /\ (~failed' \/ NamesAnotherRun(k))
                      \/ generation' # generation
               /\ \/ known \notin {NoRun, known'}
                  \/ generation' # generation
                  \/ view # NoView /\ view' = NoView => selected' = NoAircraft
    <2>1. CASE \E sel \in Selections : ChangeSelection(sel)
      <3>1. generation' = generation + 1 /\ selected' = NoAircraft /\ generation \in Int
        BY <1>2, <2>1, ViewConstants DEF ChangeSelection, IInv, TypeOK
      <3> QED
        BY <3>1
    <2>2. CASE \E k \in Cycles : Refresh(k)
      <3>1. PICK k \in Cycles : Refresh(k)
        BY <2>2
      <3>2. /\ known' = Shown(k).known /\ selected' = Shown(k).selected
            /\ view' = Shown(k).view /\ failed' = Shown(k).failed
            /\ generation' = generation
        BY <3>1 DEF Refresh
      <3>3. CASE ~IsCurrent(k)
        BY <3>2, <3>3 DEF Shown, Page
      <3>4. CASE IsCurrent(k)
        <4>1. /\ known \notin {NoRun, known'} => selected' = NoAircraft
              /\ view # NoView /\ view' = NoView => selected' = NoAircraft
              /\ failed' => view' = view \/ NamesAnotherRun(k)
          BY <1>2, <3>1, <3>2, <3>4, ShownFacts
        <4> QED
          BY <3>1, <3>2, <3>4, <4>1
      <3> QED
        BY <3>3, <3>4
    <2>3. CASE ~(\E sel \in Selections : ChangeSelection(sel)) /\ ~(\E k \in Cycles : Refresh(k))
      <3>1. UNCHANGED <<known, view, generation>>
        BY <1>2, <2>3 DEF Next, vars, page, TimerFires, Destroy, RestartSimulator,
                          AnswerStations, AnswerObserved, Select
      <3> QED
        BY <3>1
    <2> QED
      BY <2>1, <2>2, <2>3
  <1>3. IInv /\ [Next]_vars =>
          [/\ \A k \in Cycles : Counts(k) /\ view' # NoView /\ ~failed' =>
                 \A a \in Aircraft :
                     view'.rows[a] = "tombstone" <=>
                         /\ view # NoView
                         /\ <<view.run, view.selection>> = <<view'.run, view'.selection>>
                         /\ view.rows[a] = "live"
                         /\ a \notin cycles[k].observed.aircraft
                         /\ ~NamesAnotherRun(k)
           /\ view' # view =>
                 \/ \E k \in Cycles : Counts(k) /\ (~failed' \/ NamesAnotherRun(k))
                 \/ generation' # generation
           /\ \/ known \notin {NoRun, known'}
              \/ generation' # generation
              \/ view # NoView /\ view' = NoView => selected' = NoAircraft]_vars
    <2> HIDE DEF Counts
    <2> QED
      BY <1>1, <1>2
  <1> HIDE DEF Counts
  <1> QED
    BY <1>3, Invariance, PTL DEF Spec, TombstonesLastOneView

\* Nothing touches a destroyed page, and no request is started for it.
THEOREM DestroyedForGood == Spec => DestroyedIsFinal
  <1>1. ASSUME IInv, Next, destroyed
        PROVE  /\ UNCHANGED <<page, busy>>
               /\ \A k \in Cycles : cycles[k] = NoCycle => cycles'[k] = NoCycle
    <2>1. CASE \E k \in Cycles : Refresh(k)
      <3>1. PICK k \in Cycles : Refresh(k)
        BY <2>1
      <3>2. ~IsCurrent(k) /\ Shown(k) = Page
        BY <1>1 DEF IsCurrent, Shown
      <3>3. UNCHANGED page
        <4>1. UNCHANGED <<known, catalog, view, failed, selected, answered, selection, generation>>
          BY <3>1, <3>2 DEF Refresh, Page
        <4>2. newest' = newest
          BY <3>1, <3>2, <1>1 DEF Refresh, Page, IInv, Fresh, TypeOK, Views
        <4> QED
          BY <4>1, <4>2 DEF page
      <3>4. cycles[k].epoch # epoch
        BY <1>1, <3>1 DEF Refresh, IInv, Single, TypeOK
      <3>5. cycles' = [cycles EXCEPT ![k] = NoCycle] /\ busy' = (busy /\ destroyed)
        BY <3>1, <3>4 DEF Refresh, Finish, StillBusy
      <3> QED
        BY <1>1, <3>3, <3>5 DEF IInv, TypeOK
    <2>2. ASSUME NEW k \in Cycles, AnswerStations(k) \/ AnswerObserved(k)
          PROVE  /\ UNCHANGED <<page, busy>>
                 /\ \A l \in Cycles : cycles[l] = NoCycle => cycles'[l] = NoCycle
      <3>1. PICK c \in CycleStates : /\ cycles' = [cycles EXCEPT ![k] = c]
                                     /\ cycles[k] # NoCycle
                                     /\ UNCHANGED <<page, busy>>
        BY <1>1, <2>2, AnswerFacts
      <3> QED
        BY <1>1, <3>1 DEF IInv, TypeOK
    <2>3. CASE RestartSimulator
      BY <2>3 DEF RestartSimulator, poller
    <2>4. ~TimerFires /\ ~Destroy
          /\ (\A sel \in Selections : ~ChangeSelection(sel)) /\ (\A a \in Aircraft : ~Select(a))
      BY <1>1 DEF TimerFires, Destroy, ChangeSelection, Select, IInv, Single
    <2> QED
      BY <1>1, <2>1, <2>2, <2>3, <2>4 DEF Next
  <1>2. IInv /\ [Next]_vars =>
          [destroyed => /\ UNCHANGED <<page, busy>>
                        /\ \A k \in Cycles : cycles[k] = NoCycle => cycles'[k] = NoCycle]_vars
    BY <1>1
  <1> QED
    BY <1>2, Invariance, PTL DEF Spec, DestroyedIsFinal
===============================================================================
