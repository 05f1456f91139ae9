--------------------------- MODULE ManagerPageProofs ---------------------------
(***************************************************************************)
(* Proofs about ManagerPage, for any number of stations, controls, runs,   *)
(* revisions and commands.                                                 *)
(***************************************************************************)
EXTENDS ManagerPage, TLAPS

\* The host and its poll loop know of no run that is yet to come.
HostInv ==
    /\ {known, reviewRun} \subseteq 0 .. MaxRun
    /\ {stale, rerun} \subseteq BOOLEAN
    /\ cycle \in Cycles
    /\ sent \in 0 .. MaxCommands
    /\ known <= run
    /\ cycle.truth.run <= run
    /\ cycle.truth.status = "ok" => known <= cycle.truth.run

\* The settings the user was shown are of a run, or of an earlier one whose
\* acknowledgement came late.
ShownOf(seen, r) == seen.run = r \/ seen.late

\* An entry of the view, a form and a command of one station fit together: the
\* form's base and the command's revision are those the user was shown, a draft
\* is not older than the run its form is filled for, and whatever is under way
\* is awaited and carries the draft that was there when it was sent.
Agree(id, entry, form, call) ==
    /\ entry \in Entries \cup {NoEntry}
    /\ form \in Forms \cup {NoForm}
    /\ call \in Calls \cup {NoCall}
    /\ known = NoRun => entry = NoEntry /\ call = NoCall
    /\ entry # NoEntry => ShownOf(entry, known) /\ form # NoForm
    /\ form # NoForm =>
          /\ form.base = form.seen.rev
          /\ ShownOf(form.seen, form.runId)
          /\ form.runId <= known
          /\ form.dirty => form.runId <= form.written /\ form.written <= known
    /\ call # NoCall =>
          /\ form # NoForm /\ form.pending
          /\ call.id = id
          /\ call.rev = call.seen.rev
          /\ ShownOf(call.seen, call.run)
          /\ call.kind = "update" /\ form.dirty => call.carries \/ form.newer
          /\ call.kind = "update" /\ call.outcome = "ok" => call.rev < MaxRevision

\* A form that has another one's place, settings and draft.
Keeps(f, form) ==
    /\ f \in Forms /\ f # NoForm
    /\ f.runId = form.runId /\ f.base = form.base /\ f.seen = form.seen
    /\ f.dirty = form.dirty /\ f.written = form.written

Stations ==
    /\ view \in [StationIds -> Entries \cup {NoEntry}]
    /\ forms \in [StationIds -> Forms \cup {NoForm}]
    /\ calls \in [StationIds -> Calls \cup {NoCall}]
    /\ \A id \in StationIds : Agree(id, view[id], forms[id], calls[id])

NewStation ==
    /\ create \in Creates \cup {NoForm}
    /\ post \in Posts \cup {NoCall}
    /\ create # NoForm => known # NoRun /\ create.written <= known

ControlInv ==
    /\ text \in [Controls -> Texts \cup {NoText}]
    /\ pending \in [Controls -> BOOLEAN]
    /\ written \in [Controls -> 0 .. MaxRun]
    /\ puts \in [Controls -> Puts \cup {NoCall}]
    /\ \A k \in Controls : puts[k] # NoCall => pending[k]
    /\ {noted, waved} \subseteq 0 .. MaxRun
    /\ noted <= known

\* Outside a review, whatever is drafted was written or reviewed for the run that
\* is known, or that run's review was clicked away.
Waved == waved = known /\ known # NoRun

Reviews ==
    reviewRun = NoRun =>
        /\ create # NoForm /\ create.dirty => create.written = known \/ Waved
        /\ \A k \in Controls : text[k] # NoText => written[k] \in {NoRun, known} \/ Waved

IInv == ServiceTypeOK /\ HostInv /\ Stations /\ NewStation /\ ControlInv /\ Reviews

-------------------------------------------------------------------------------
(***************************************************************************)
(* Values.                                                                 *)
(***************************************************************************)

\* The bounds, as numbers.
LEMMA Bounds == MaxRun \in Nat \ {0} /\ MaxRevision \in Nat \ {0} /\ MaxCommands \in Nat \ {0}
  BY ServiceConstants, EditorConstants

\* Cycles that have read nothing.
LEMMA CycleFacts ==
    /\ Idle \in Cycles /\ Reading \in Cycles /\ Overtaken \in Cycles
    /\ [Idle EXCEPT !.phase = "stations"] \in Cycles
    /\ Idle.truth.run = NoRun /\ Reading.truth.run = NoRun /\ Overtaken.truth.run = NoRun
    /\ Idle.truth.status # "ok" /\ Reading.truth.status # "ok" /\ Overtaken.truth.status # "ok"
    /\ [Idle EXCEPT !.phase = "stations"].truth.run = NoRun
    /\ [Idle EXCEPT !.phase = "stations"].truth.status # "ok"
  <1>1. Asked \in Reads
    BY DEF Asked, Reads
  <1>2. Unread \in Lists
    <2>1. [id \in StationIds |-> NoRevision] \in [StationIds -> NoRevision .. MaxRevision]
      BY Bounds DEF NoRevision
    <2> QED
      BY <2>1 DEF Unread, Lists
  <1>3. Asked.run = NoRun /\ Asked.status # "ok"
    BY DEF Asked
  <1> QED
    BY <1>1, <1>2, <1>3 DEF Idle, Reading, Overtaken, Cycles

\* A form that was filled from the server's values of a run.
LEMMA FillFacts ==
    ASSUME known \in 1 .. MaxRun, NEW e \in Entries, NEW f, f = fillFromServer(e)
    PROVE  /\ f \in Forms /\ f # NoForm
           /\ f.base = f.seen.rev /\ f.runId = known
           /\ ShownOf(e, known) => ShownOf(f.seen, f.runId)
           /\ ~f.pending /\ ~f.dirty
  <1>1. f \in Forms
    BY Bounds DEF fillFromServer, Seen, Forms, Entries, Settings, Attentions, NoRun
  <1> QED
    BY <1>1, NothingIsNone DEF fillFromServer, Seen, ShownOf

\* A form that keeps another one's draft fits where that one did, if it still
\* waits or has nothing to wait for.
LEMMA KeepsFacts ==
    ASSUME NEW id, NEW e, NEW form, NEW c, Agree(id, e, form, c), form # NoForm,
           NEW f, Keeps(f, form),
           NEW d \in {c, NoCall},
           d # NoCall => f.pending = form.pending /\ f.newer = form.newer
    PROVE  Agree(id, e, f, d)
  BY DEF Agree, Keeps

\* A form keeps its place and what it awaits through a refresh, and a draft stays
\* a draft.
LEMMA ReconciledFacts ==
    ASSUME NEW id \in StationIds, NEW e, NEW form, NEW c, Agree(id, e, form, c),
           known \in 1 .. MaxRun,
           NEW entry \in Entries \cup {NoEntry}, entry # NoEntry => ShownOf(entry, known),
           NEW f, f = Reconciled(form, entry)
    PROVE  /\ Agree(id, entry, f, c)
           /\ form # NoForm /\ form.dirty => f # NoForm /\ f.dirty
  <1>1. form \in Forms \cup {NoForm} /\ known # NoRun
    BY DEF Agree, NoRun
  <1>2. CASE form = NoForm
    <2>1. f = IF entry = NoEntry THEN NoForm ELSE fillFromServer(entry)
      BY <1>2 DEF Reconciled
    <2> QED
      BY <1>1, <1>2, <2>1, FillFacts DEF Agree
  <1>3. CASE form # NoForm /\ form.pending
    <2>1. f = form
      BY <1>3 DEF Reconciled
    <2> QED
      BY <1>1, <1>3, <2>1 DEF Agree
  <1>4. CASE form # NoForm /\ ~form.pending
    <2>1. c = NoCall /\ form \in Forms
      BY <1>1, <1>4 DEF Agree
    <2>2. \A a \in Attentions : Keeps([form EXCEPT !.attention = a], form)
      <3> TAKE a \in Attentions
      <3>1. [form EXCEPT !.attention = a] \in Forms
        BY <2>1 DEF Forms
      <3> QED
        BY <2>1, <3>1, NothingIsNone DEF Forms, Keeps
    <2>3. {"none", "conflict", "changed", "run", "removed"} = Attentions
      BY DEF Attentions
    <2>4. CASE entry = NoEntry
      <3>1. f = IF form.dirty THEN [form EXCEPT !.attention = "removed"] ELSE NoForm
        BY <1>4, <2>4 DEF Reconciled
      <3> QED
        BY <1>1, <1>4, <2>1, <2>2, <2>3, <2>4, <3>1 DEF Agree, Keeps
    <2>5. CASE entry # NoEntry
      <3>1. \/ f = form
            \/ ~form.dirty /\ f = fillFromServer(entry)
            \/ \E a \in Attentions : f = [form EXCEPT !.attention = a]
        BY <1>4, <2>3, <2>5 DEF Reconciled
      <3>2. CASE f = form
        BY <1>1, <1>4, <2>1, <2>5, <3>2 DEF Agree
      <3>3. CASE ~form.dirty /\ f = fillFromServer(entry)
        BY <1>1, <1>4, <2>1, <2>5, <3>3, FillFacts DEF Agree
      <3>4. CASE \E a \in Attentions : f = [form EXCEPT !.attention = a]
        BY <1>1, <1>4, <2>1, <2>2, <2>5, <3>4 DEF Agree, Keeps
      <3> QED
        BY <3>1, <3>2, <3>3, <3>4
    <2> QED
      BY <2>4, <2>5
  <1> QED
    BY <1>2, <1>3, <1>4

-------------------------------------------------------------------------------
(***************************************************************************)
(* Steps that leave a part alone.                                          *)
(***************************************************************************)

\* The stations stay in agreement until another run than the page's is known.
LEMMA StationsStay ==
    ASSUME IInv, UNCHANGED <<view, forms, calls>>,
           \/ known' = known
           \/ known = NoRun /\ known' \in 1 .. MaxRun
    PROVE  Stations'
  <1>1. ASSUME NEW id \in StationIds
        PROVE  Agree(id, view[id], forms[id], calls[id])'
    <2>1. Agree(id, view[id], forms[id], calls[id])
      BY DEF IInv, Stations
    <2>2. CASE known' = known
      BY <2>1, <2>2 DEF Agree, ShownOf
    <2>3. CASE known = NoRun
      <3>1. forms[id] = NoForm /\ view[id] = NoEntry /\ calls[id] = NoCall
        BY <2>1, <2>3, Bounds DEF Agree, Forms, NoRun
      <3> QED
        BY <3>1 DEF Agree
    <2> QED
      BY <2>2, <2>3
  <1> QED
    BY <1>1 DEF IInv, Stations

\* A step about one station.
LEMMA OneStation ==
    ASSUME IInv, UNCHANGED known, NEW id \in StationIds, NEW e, NEW f, NEW c,
           Agree(id, e, f, c),
           view' = [view EXCEPT ![id] = e],
           forms' = [forms EXCEPT ![id] = f],
           calls' = [calls EXCEPT ![id] = c]
    PROVE  Stations'
  <1>1. /\ e \in Entries \cup {NoEntry} /\ f \in Forms \cup {NoForm} /\ c \in Calls \cup {NoCall}
    BY DEF Agree
  <1>2. ASSUME NEW j \in StationIds
        PROVE  Agree(j, view[j], forms[j], calls[j])'
    <2>1. CASE j = id
      BY <2>1 DEF Agree, ShownOf, IInv, Stations
    <2>2. CASE j # id
      BY <2>2 DEF Agree, ShownOf, IInv, Stations
    <2> QED
      BY <2>1, <2>2
  <1> QED
    BY <1>1, <1>2 DEF IInv, Stations

\* Whatever the poll loop and the new form do.
LEMMA HostStays ==
    ASSUME IInv, UNCHANGED <<service, host>>, sent' \in 0 .. MaxCommands,
           rerun' \in BOOLEAN, cycle' \in Cycles, cycle'.truth.run <= run,
           cycle'.truth.status = "ok" => known <= cycle'.truth.run
    PROVE  ServiceTypeOK' /\ HostInv'
  BY DEF IInv, ServiceTypeOK, HostInv, service, host

\* The review note that a render leaves.
LEMMA NotedFacts == ASSUME IInv PROVE Noted \in 0 .. MaxRun /\ Noted <= known
  BY Bounds DEF Noted, IInv, HostInv, NoRun

\* Drafts of controls and of a new station that nobody touches.
LEMMA DraftsStay ==
    ASSUME IInv, UNCHANGED <<known, reviewRun, create, post, text, pending, written, puts, waved>>,
           noted' \in {noted, Noted}
    PROVE  NewStation' /\ ControlInv' /\ Reviews'
  BY NotedFacts DEF IInv, NewStation, ControlInv, Reviews, Waved

\* A step that asks for another cycle.
LEMMA RefreshFacts ==
    ASSUME IInv, refreshNow
    PROVE  /\ rerun' \in BOOLEAN /\ cycle' \in Cycles /\ cycle'.truth.run <= run
           /\ cycle'.truth.status = "ok" => known <= cycle'.truth.run
  <1>1. NoRun <= run
    BY Bounds DEF IInv, ServiceTypeOK, NoRun
  <1> QED
    BY <1>1, CycleFacts DEF IInv, HostInv, refreshNow

\* A step about one station and its command, and nothing else but the cycle.
LEMMA StationStep ==
    ASSUME IInv, UNCHANGED <<service, host, create, post, controls>>,
           sent' \in 0 .. MaxCommands, UNCHANGED poll \/ refreshNow,
           NEW id \in StationIds, NEW e, NEW f, NEW c, Agree(id, e, f, c),
           view' = [view EXCEPT ![id] = e],
           forms' = [forms EXCEPT ![id] = f],
           calls' = [calls EXCEPT ![id] = c]
    PROVE  IInv'
  <1>1. /\ rerun' \in BOOLEAN /\ cycle' \in Cycles /\ cycle'.truth.run <= run
        /\ cycle'.truth.status = "ok" => known <= cycle'.truth.run
    <2>1. CASE UNCHANGED poll
      BY <2>1 DEF poll, IInv, HostInv
    <2>2. CASE refreshNow
      BY <2>2, RefreshFacts
    <2> QED
      BY <2>1, <2>2
  <1>2. ServiceTypeOK' /\ HostInv'
    BY <1>1, HostStays
  <1>3. UNCHANGED known
    BY DEF host
  <1>4. Stations'
    BY <1>3, OneStation
  <1>5. NewStation' /\ ControlInv' /\ Reviews'
    BY DraftsStay DEF host, controls, review
  <1> QED
    BY <1>2, <1>4, <1>5 DEF IInv

\* What is known of one station.
LEMMA Station ==
    ASSUME IInv, NEW id \in StationIds
    PROVE  /\ Agree(id, view[id], forms[id], calls[id])
           /\ view = [view EXCEPT ![id] = view[id]]
           /\ forms = [forms EXCEPT ![id] = forms[id]]
           /\ calls = [calls EXCEPT ![id] = calls[id]]
  BY DEF IInv, Stations

-------------------------------------------------------------------------------
(***************************************************************************)
(* The steps.                                                              *)
(***************************************************************************)

\* A page that has read nothing knows nothing.
LEMMA InitIInv == Init => IInv
  <1> SUFFICES ASSUME Init PROVE IInv
    OBVIOUS
  <1>1. ServiceTypeOK
    <2>1. revision \in [StationIds -> NoRevision .. MaxRevision]
      BY Bounds DEF Init, ServiceInit, NoRevision
    <2> QED
      BY <2>1, Bounds DEF Init, ServiceInit, ServiceTypeOK
  <1>2. HostInv
    <2>1. known = 0 /\ reviewRun = 0 /\ run = 1 /\ sent = 0 /\ cycle = Reading
      BY DEF Init, ServiceInit, EditorInit, NoRun
    <2>2. cycle \in Cycles /\ cycle.truth.run = 0 /\ cycle.truth.status # "ok"
      BY <2>1, CycleFacts DEF NoRun
    <2>3. stale \in BOOLEAN /\ rerun \in BOOLEAN
      BY DEF Init, EditorInit
    <2> QED
      BY <2>1, <2>2, <2>3, Bounds DEF HostInv
  <1>3. Stations
    <2>1. \A id \in StationIds : Agree(id, NoEntry, NoForm, NoCall)
      BY DEF Agree
    <2> QED
      BY <2>1 DEF Init, EditorInit, Stations
  <1>4. NewStation /\ Reviews
    BY NothingIsNone DEF Init, EditorInit, NewStation, Reviews
  <1>5. ControlInv
    BY Bounds DEF Init, EditorInit, ControlInv, NoRun
  <1> QED
    BY <1>1, <1>2, <1>3, <1>4, <1>5 DEF IInv

\* The service stays well-typed, and its runs only advance.
LEMMA ServiceAdvances ==
    ASSUME IInv,
           \/ Restart
           \/ \E id \in StationIds : OtherClient(id)
           \/ \E id \in StationIds : calls[id] # NoCall /\ Serve(calls[id])
           \/ post # NoCall /\ Serve(post)
           \/ \E k \in Controls : puts[k] # NoCall /\ Serve(puts[k])
    PROVE  ServiceTypeOK' /\ run' \in 1 .. MaxRun /\ run <= run'
  <1>1. ServiceTypeOK /\ MaxRun \in Nat \ {0} /\ MaxRevision \in Nat \ {0} /\ run \in 1 .. MaxRun
    BY Bounds DEF IInv, ServiceTypeOK
  <1>2. ASSUME NEW c, Apply(c), Within(c), c.kind \in {"add", "update", "remove"} => c.id \in StationIds,
               c.kind = "update" => revision[c.id] = c.rev /\ c.rev \in 1 .. MaxRevision
        PROVE  ServiceTypeOK' /\ run' = run
    <2>1. run' = run
      BY <1>2 DEF Apply
    <2>2. revision' \in [StationIds -> NoRevision .. MaxRevision]
      BY <1>1, <1>2 DEF Apply, Within, ServiceTypeOK, NoRevision
    <2>3. reserved' \subseteq StationIds
      BY <1>1, <1>2 DEF Apply, ServiceTypeOK
    <2> QED
      BY <1>1, <2>1, <2>2, <2>3 DEF ServiceTypeOK
  <1>3. ASSUME NEW c, Serve(c), c.kind \in {"add", "update", "remove"} => c.id \in StationIds,
               c.kind = "update" => c.rev \in 1 .. MaxRevision
        PROVE  ServiceTypeOK' /\ run' = run
    <2>1. CASE Verdict(c) = "ok"
      <3>1. Within(c) /\ Apply(c)
        BY <1>3, <2>1 DEF Serve
      <3>2. c.kind = "update" => revision[c.id] = c.rev
        BY <2>1 DEF Verdict
      <3> QED
        BY <1>2, <1>3, <3>1, <3>2
    <2>2. CASE Verdict(c) # "ok"
      BY <1>1, <1>3, <2>2 DEF Serve, service, ServiceTypeOK
    <2> QED
      BY <2>1, <2>2
  <1>4. CASE Restart
    BY <1>1, <1>4 DEF Restart, ServiceTypeOK, NoRevision
  <1>5. ASSUME NEW id \in StationIds, OtherClient(id)
        PROVE  ServiceTypeOK' /\ run' = run
    <2>1. ASSUME NEW kind \in {"update", "remove"}, Active(id),
                 Within([kind |-> kind, id |-> id, run |-> run, rev |-> revision[id]]),
                 Apply([kind |-> kind, id |-> id, run |-> run, rev |-> revision[id]])
          PROVE  ServiceTypeOK' /\ run' = run
      <3>1. revision[id] \in 1 .. MaxRevision
        BY <1>1, <2>1 DEF Active, ServiceTypeOK, NoRevision
      <3> QED
        BY <1>2, <2>1, <3>1
    <2>2. CASE Apply([kind |-> "add", id |-> id])
      BY <1>2, <2>2 DEF Within
    <2> QED
      BY <1>5, <2>1, <2>2 DEF OtherClient
  <1>6. ASSUME NEW id \in StationIds, calls[id] # NoCall, Serve(calls[id])
        PROVE  ServiceTypeOK' /\ run' = run
    <2>1. calls[id] \in Calls
      BY <1>6, Station DEF Agree
    <2> QED
      BY <1>3, <1>6, <2>1 DEF Calls
  <1>7. ASSUME post # NoCall, Serve(post)
        PROVE  ServiceTypeOK' /\ run' = run
    <2>1. post \in Posts
      BY <1>7 DEF IInv, NewStation
    <2> QED
      BY <1>3, <1>7, <2>1 DEF Posts
  <1>8. ASSUME NEW k \in Controls, puts[k] # NoCall, Serve(puts[k])
        PROVE  ServiceTypeOK' /\ run' = run
    <2>1. puts[k] \in Puts
      BY <1>8 DEF IInv, ControlInv
    <2> QED
      BY <1>3, <1>8, <2>1 DEF Puts
  <1> QED
    BY <1>1, <1>4, <1>5, <1>6, <1>7, <1>8

\* Restarts and the other clients of the service.
LEMMA EnvironmentIInv == ASSUME IInv, Environment PROVE IInv'
  <1>1. UNCHANGED <<host, poll, editor, sent, controls>>
    BY DEF Environment
  <1>2. ServiceTypeOK' /\ run' \in 1 .. MaxRun /\ run <= run'
    BY ServiceAdvances DEF Environment
  <1>3. HostInv'
    <2>1. \A r \in 0 .. MaxRun : r <= run => r <= run'
      BY <1>2, Bounds DEF IInv, ServiceTypeOK
    <2>2. known \in 0 .. MaxRun /\ cycle.truth.run \in 0 .. MaxRun
      BY Bounds DEF IInv, HostInv, Cycles, Reads, NoRun
    <2> QED
      BY <1>1, <2>1, <2>2 DEF IInv, HostInv, host, poll
  <1>4. Stations'
    BY <1>1, StationsStay DEF host, editor
  <1>5. NewStation' /\ ControlInv' /\ Reviews'
    BY <1>1, DraftsStay DEF host, editor, controls, review
  <1> QED
    BY <1>2, <1>3, <1>4, <1>5 DEF IInv

\* A read that is asked for, or answered.
LEMMA ReadsIInv ==
    ASSUME IInv,
           \/ TimerFires \/ AnswerMetadata \/ AnswerTruth \/ AnswerStations \/ Fail
    PROVE  IInv'
  <1>1. UNCHANGED <<service, host, rerun, editor, sent, controls>>
    BY DEF TimerFires, AnswerMetadata, AnswerTruth, AnswerStations, Fail, FailRun, FailStations
  <1>2. run \in 1 .. MaxRun /\ NoRun <= run /\ cycle \in Cycles
        /\ revision \in [StationIds -> NoRevision .. MaxRevision]
    BY Bounds DEF IInv, ServiceTypeOK, HostInv, NoRun
  <1>3. /\ cycle' \in Cycles /\ cycle'.truth.run <= run
        /\ cycle'.truth.status = "ok" => known <= cycle'.truth.run
    <2>1. CASE TimerFires
      BY <1>2, <2>1, CycleFacts DEF TimerFires
    <2>2. CASE AnswerMetadata
      <3>1. Answered \in Reads
        BY <1>2 DEF Answered, Reads
      <3> QED
        BY <1>2, <2>2, <3>1 DEF AnswerMetadata, Cycles, IInv, HostInv
    <2>3. CASE AnswerTruth
      <3>1. Answered \in Reads /\ Answered.run = run
        BY <1>2 DEF Answered, Reads
      <3> QED
        BY <1>2, <2>3, <3>1 DEF AnswerTruth, Cycles, IInv, HostInv
    <2>4. CASE FailRun
      <3>1. /\ [Asked EXCEPT !.status = "error"] \in Reads
            /\ [Asked EXCEPT !.status = "error"].run = NoRun
            /\ [Asked EXCEPT !.status = "error"].status # "ok"
        BY DEF Asked, Reads
      <3> QED
        BY <1>2, <2>4, <3>1 DEF FailRun, Cycles, IInv, HostInv
    <2>5. CASE AnswerStations
      <3> DEFINE list == [status |-> "ok", run |-> run, revision |-> revision]
      <3>1. list \in Lists
        BY <1>2 DEF Lists
      <3>2. cycle' = [cycle EXCEPT !.list = list]
        BY <2>5 DEF AnswerStations
      <3> HIDE DEF list
      <3> QED
        BY <1>2, <3>1, <3>2 DEF Cycles, IInv, HostInv
    <2>6. CASE FailStations
      <3> DEFINE list == [Unread EXCEPT !.status = "error"]
      <3>1. list \in Lists
        <4>1. [id \in StationIds |-> NoRevision] \in [StationIds -> NoRevision .. MaxRevision]
          BY Bounds DEF NoRevision
        <4> QED
          BY <4>1 DEF Lists, Unread
      <3>2. cycle' = [cycle EXCEPT !.list = list]
        BY <1>2, <2>6 DEF FailStations, Cycles
      <3> HIDE DEF list
      <3> QED
        BY <1>2, <3>1, <3>2 DEF Cycles, IInv, HostInv
    <2> QED
      BY <2>1, <2>2, <2>3, <2>4, <2>5, <2>6 DEF Fail
  <1>4. ServiceTypeOK' /\ HostInv'
    BY <1>1, <1>3, HostStays DEF IInv, HostInv
  <1>5. Stations'
    BY <1>1, StationsStay DEF host, editor
  <1>6. NewStation' /\ ControlInv' /\ Reviews'
    BY <1>1, DraftsStay DEF host, editor, controls, review
  <1> QED
    BY <1>4, <1>5, <1>6 DEF IInv

\* A run that is accepted is one there has been, and what was drafted for the
\* run before it goes under review.
LEMMA ReadRunIInv == ASSUME IInv, ReadRun PROVE IInv'
  <1>1. UNCHANGED <<service, sent, text, pending, written, puts, waved>> /\ noted' \in {noted, Noted}
    BY DEF ReadRun
  <1>2. run \in 1 .. MaxRun /\ NoRun <= run /\ rerun \in BOOLEAN /\ cycle \in Cycles
        /\ known \in 0 .. MaxRun /\ reviewRun \in 0 .. MaxRun /\ sent \in 0 .. MaxCommands
    BY Bounds DEF IInv, ServiceTypeOK, HostInv, NoRun
  <1>3. cycle' \in Cycles /\ cycle'.truth.run <= run /\ cycle'.truth.status # "ok" /\ rerun' \in BOOLEAN
    <2>1. cycle' \in {Idle, Reading, [Idle EXCEPT !.phase = "stations"]}
      BY DEF ReadRun, EndCycle
    <2>2. rerun' \in BOOLEAN
      BY <1>2 DEF ReadRun, EndCycle
    <2> QED
      BY <1>2, <2>1, <2>2, CycleFacts
  <1>4. CASE UNCHANGED <<known, reviewRun, editor>>
    <2>1. stale' \in BOOLEAN
      BY DEF ReadRun, IInv, HostInv, host
    <2>2. ServiceTypeOK' /\ HostInv'
      BY <1>1, <1>2, <1>3, <1>4, <2>1 DEF IInv, ServiceTypeOK, HostInv, service
    <2>3. Stations'
      BY <1>4, StationsStay DEF editor
    <2>4. NewStation' /\ ControlInv' /\ Reviews'
      BY <1>1, <1>4, DraftsStay DEF editor
    <2> QED
      BY <2>2, <2>3, <2>4 DEF IInv
  <1>5. CASE /\ acceptRun(cycle.truth.run) /\ stale' = FALSE /\ noted' = noted
             /\ cycle.truth \in Reads /\ cycle.truth # Asked /\ cycle.truth.status # "error"
    <2> DEFINE r == cycle.truth.run
    <2>1. r \in 1 .. MaxRun /\ r <= run /\ known <= r
      BY <1>5 DEF Reads, Asked, IInv, HostInv
    <2>2. known' = r /\ useRun(r)
      BY <1>5 DEF acceptRun
    <2>3. reviewRun' = IF known \in {NoRun, r} THEN reviewRun
                       ELSE IF hasDrafts THEN known ELSE NoRun
      BY <1>5 DEF acceptRun
    <2> HIDE DEF r
    <2>4. ServiceTypeOK' /\ HostInv'
      <3>1. reviewRun' \in 0 .. MaxRun
        BY <1>2, <2>3, Bounds DEF NoRun
      <3>2. known' \in 0 .. MaxRun /\ known' <= run /\ UNCHANGED run
        BY <1>1, <2>1, <2>2, Bounds DEF service
      <3> QED
        BY <1>1, <1>2, <1>3, <1>5, <3>1, <3>2 DEF IInv, ServiceTypeOK, HostInv, service
    <2>5. CASE known \in {NoRun, r}
      <3>1. UNCHANGED editor
        BY <2>2, <2>5 DEF useRun
      <3>2. Stations'
        BY <2>1, <2>2, <2>5, <3>1, StationsStay DEF editor
      <3>3. NewStation' /\ ControlInv'
        BY <1>1, <1>2, <1>5, <2>1, <2>2, <3>1, Bounds DEF IInv, NewStation, Creates, ControlInv, editor, NoRun
      <3>4. Reviews'
        BY <1>1, <2>2, <2>3, <2>5, <3>1 DEF IInv, NewStation, Reviews, Waved, editor
      <3> QED
        BY <2>4, <3>2, <3>3, <3>4 DEF IInv
    <2>6. CASE known \notin {NoRun, r}
      <3>1. /\ view' = [id \in StationIds |-> NoEntry]
            /\ forms' = [id \in StationIds |->
                            IF forms[id] # NoForm /\ forms[id].dirty
                               THEN [forms[id] EXCEPT !.attention = "run"] ELSE forms[id]]
            /\ UNCHANGED <<calls, create, post>>
        BY <2>2, <2>6 DEF useRun
      <3>2. ASSUME NEW id \in StationIds
            PROVE  Agree(id, view[id], forms[id], calls[id])'
        <4>1. Agree(id, view[id], forms[id], calls[id])
          BY Station
        <4>2. view'[id] = NoEntry /\ calls'[id] = calls[id] /\ known' # NoRun
          BY <2>1, <2>2, <3>1 DEF NoRun
        <4>3. /\ forms[id] = NoForm => forms'[id] = NoForm
              /\ forms[id] # NoForm => /\ Keeps(forms'[id], forms[id])
                                       /\ forms'[id].pending = forms[id].pending
                                       /\ forms'[id].newer = forms[id].newer
          <5>1. CASE forms[id] # NoForm /\ forms[id].dirty
            <6>1. forms[id] \in Forms /\ forms'[id] = [forms[id] EXCEPT !.attention = "run"]
              BY <3>1, <4>1, <5>1 DEF Agree
            <6>2. forms'[id] \in Forms
              BY <6>1 DEF Forms, Attentions
            <6> QED
              BY <5>1, <6>1, <6>2, NothingIsNone DEF Forms, Keeps
          <5>2. CASE ~(forms[id] # NoForm /\ forms[id].dirty)
            <6>1. forms'[id] = forms[id]
              BY <3>1, <5>2
            <6> QED
              BY <4>1, <6>1 DEF Agree, Keeps
          <5> QED
            BY <5>1, <5>2
        <4>4. CASE forms[id] = NoForm
          BY <4>1, <4>2, <4>3, <4>4 DEF Agree
        <4>5. CASE forms[id] # NoForm
          <5>1. Agree(id, view[id], forms'[id], calls[id])
            BY <4>1, <4>3, <4>5, KeepsFacts
          <5>2. \A r1, r2 \in 0 .. MaxRun : r1 <= r2 /\ r2 <= known => r1 <= known' /\ r2 <= known'
            BY <1>2, <2>1, <2>2, Bounds
          <5>3. forms'[id] \in Forms /\ forms'[id].runId \in 0 .. MaxRun /\ forms'[id].written \in 0 .. MaxRun
            BY <4>3, <4>5, Bounds DEF Keeps, Forms
          <5>4. forms'[id].runId <= known' /\ (forms'[id].dirty => forms'[id].written <= known')
            BY <1>2, <2>1, <2>2, <5>1, <5>3, <4>5, <4>3, Bounds DEF Agree, Keeps
          <5> QED
            BY <4>2, <5>1, <5>3, <5>4 DEF Agree, ShownOf
        <4> QED
          BY <4>4, <4>5
      <3>3. Stations'
        <4>1. view' \in [StationIds -> Entries \cup {NoEntry}]
          BY <3>1
        <4>2. forms' \in [StationIds -> Forms \cup {NoForm}]
          <5>1. \A id \in StationIds : forms'[id] \in Forms \cup {NoForm}
            BY <3>2 DEF Agree
          <5> QED
            BY <3>1, <5>1
        <4> QED
          BY <3>1, <3>2, <4>1, <4>2 DEF IInv, Stations
      <3>4. NewStation' /\ ControlInv'
        BY <1>1, <1>2, <1>5, <2>1, <2>2, <3>1, Bounds DEF IInv, NewStation, Creates, ControlInv, NoRun
      <3>5. Reviews'
        <4>1. CASE hasDrafts
          BY <2>3, <2>6, <4>1 DEF Reviews
        <4>2. CASE ~hasDrafts
          <5>1. ~(create # NoForm /\ create.dirty) /\ \A k \in Controls : text[k] = NoText
            BY <4>2 DEF hasDrafts, hasDirtyDrafts
          <5> QED
            BY <1>1, <3>1, <5>1 DEF Reviews
        <4> QED
          BY <4>1, <4>2
      <3> QED
        BY <2>4, <3>3, <3>4, <3>5 DEF IInv
    <2> QED
      BY <2>5, <2>6
  <1>6. cycle.truth \in Reads
    BY <1>2 DEF Cycles
  <1> QED
    BY <1>4, <1>5, <1>6 DEF ReadRun, host

\* The view takes a list of the run that is known, and the forms follow it.
LEMMA ReadListIInv == ASSUME IInv, ReadList PROVE IInv'
  <1>1. /\ UNCHANGED <<service, host, sent, text, pending, written, puts, waved>>
        /\ noted' = Noted
        /\ UNCHANGED <<calls, create, post>>
    BY DEF ReadList, ReadStations
  <1>2. run \in 1 .. MaxRun /\ NoRun <= run /\ rerun \in BOOLEAN /\ cycle \in Cycles
        /\ known \in 0 .. MaxRun
    BY Bounds DEF IInv, ServiceTypeOK, HostInv, NoRun
  <1>3. cycle' \in Cycles /\ cycle'.truth.run <= run /\ cycle'.truth.status # "ok" /\ rerun' \in BOOLEAN
    <2>1. cycle' \in {Idle, Reading} /\ rerun' = FALSE
      BY DEF ReadList, EndCycle
    <2> QED
      BY <1>2, <2>1, CycleFacts
  <1>4. ServiceTypeOK' /\ HostInv'
    BY <1>1, <1>3, HostStays DEF IInv, HostInv
  <1>5. NewStation' /\ ControlInv' /\ Reviews'
    BY <1>1, DraftsStay DEF host
  <1>6. Stations'
    <2> DEFINE list   == cycle.list
               taken  == list.status = "ok" /\ list.run = known
               listed == [id \in StationIds |->
                            IF list.revision[id] = NoRevision THEN NoEntry
                            ELSE [run |-> list.run, rev |-> list.revision[id], late |-> FALSE,
                                  covered |-> TRUE]]
    <2>1. /\ view' = IF taken THEN listed ELSE view
          /\ forms' = IF taken THEN [id \in StationIds |-> Reconciled(forms[id], listed[id])]
                               ELSE forms
      BY DEF ReadList, ReadStations
    <2>2. list \in Lists
      BY <1>2 DEF Cycles
    <2> HIDE DEF list
    <2>3. CASE ~taken
      <3>1. UNCHANGED <<view, forms, calls>>
        BY <1>1, <2>1, <2>3
      <3> QED
        BY <1>1, <3>1, StationsStay DEF host
    <2>4. CASE taken
      <3>1. list.run \in 1 .. MaxRun /\ list.revision \in [StationIds -> NoRevision .. MaxRevision]
            /\ known \in 1 .. MaxRun
        BY <2>2, <2>4 DEF Lists
      <3>2. ASSUME NEW id \in StationIds
            PROVE  /\ listed[id] \in Entries \cup {NoEntry}
                   /\ listed[id] # NoEntry => ShownOf(listed[id], known)
        <4>1. CASE list.revision[id] = NoRevision
          BY <4>1
        <4>2. CASE list.revision[id] # NoRevision
          <5>1. list.revision[id] \in 1 .. MaxRevision
            BY <3>1, <4>2, Bounds DEF NoRevision
          <5>2. listed[id] = [run |-> list.run, rev |-> list.revision[id], late |-> FALSE,
                              covered |-> TRUE]
            BY <4>2
          <5> QED
            BY <2>4, <3>1, <5>1, <5>2 DEF Entries, ShownOf
        <4> QED
          BY <4>1, <4>2
      <3> HIDE DEF listed
      <3>3. ASSUME NEW id \in StationIds
            PROVE  Agree(id, listed[id], Reconciled(forms[id], listed[id]), calls[id])
        BY <3>1, <3>2, Station, ReconciledFacts
      <3>4. view' = listed /\ forms' = [id \in StationIds |-> Reconciled(forms[id], listed[id])]
        BY <2>1, <2>4
      <3>5. listed \in [StationIds -> Entries \cup {NoEntry}]
        BY <3>2 DEF listed
      <3>6. forms' \in [StationIds -> Forms \cup {NoForm}]
        <4>1. \A id \in StationIds : Reconciled(forms[id], listed[id]) \in Forms \cup {NoForm}
          BY <3>3 DEF Agree
        <4> QED
          BY <3>4, <4>1
      <3>7. ASSUME NEW id \in StationIds
            PROVE  Agree(id, view[id], forms[id], calls[id])'
        BY <1>1, <3>3, <3>4 DEF Agree, ShownOf, host
      <3> QED
        BY <1>1, <3>4, <3>5, <3>6, <3>7 DEF IInv, Stations
    <2> QED
      BY <2>3, <2>4
  <1> QED
    BY <1>4, <1>5, <1>6 DEF IInv

\* A command that is sent names the run that is known and the revision that was
\* shown.
LEMMA SendIInv ==
    ASSUME IInv, UNCHANGED controls, NEW id \in StationIds, Enabled(id),
           NEW kind \in {"update", "remove"}, NEW seen \in Settings, ShownOf(seen, currentRun),
           NEW carries \in BOOLEAN, kind = "update" => carries = forms[id].dirty,
           Send(id, kind, seen.rev, seen, carries)
    PROVE  IInv'
  <1> DEFINE call == [kind |-> kind, id |-> id, run |-> currentRun,
                      rev |-> seen.rev, seen |-> seen, carries |-> carries, outcome |-> "none"]
             f    == [forms[id] EXCEPT !.pending = TRUE]
             c    == IF Renderable THEN call ELSE calls[id]
  <1>1. Agree(id, view[id], forms[id], calls[id]) /\ calls = [calls EXCEPT ![id] = calls[id]]
        /\ view = [view EXCEPT ![id] = view[id]]
    BY Station
  <1>2. forms[id] \in Forms /\ ~forms[id].pending /\ calls[id] = NoCall
    BY <1>1 DEF Enabled, Agree
  <1>3. currentRun = known /\ known \in 1 .. MaxRun /\ known <= run
    <2>1. currentRun = known /\ known # NoRun
      BY DEF Enabled, currentRun
    <2> QED
      BY <2>1, Bounds DEF IInv, HostInv, NoRun
  <1>4. call \in Calls
    BY <1>3 DEF Calls, Settings, Outcomes
  <1>5. /\ call.id = id /\ call.rev = call.seen.rev /\ ShownOf(call.seen, call.run)
        /\ (call.kind = "update" => call.carries = forms[id].dirty) /\ call.outcome # "ok"
    OBVIOUS
  <1>6. Keeps(f, forms[id]) /\ f.pending
    <2>1. f \in Forms /\ f # NoForm
      BY <1>2, NothingIsNone DEF Forms
    <2> QED
      BY <1>2, <2>1 DEF Forms, Keeps
  <1> HIDE DEF call, f
  <1>7. Agree(id, view[id], f, c)
    <2>1. c = NoCall \/ c = call
      BY <1>2
    <2>2. known # NoRun
      BY <1>3 DEF NoRun
    <2>3. Agree(id, view[id], f, NoCall) /\ f # NoForm /\ f.dirty = forms[id].dirty
      BY <1>1, <1>2, <1>6, KeepsFacts, NothingIsNone DEF Keeps
    <2> QED
      BY <1>4, <1>5, <1>6, <2>1, <2>2, <2>3 DEF Agree
  <1>8. view' = [view EXCEPT ![id] = view[id]] /\ forms' = [forms EXCEPT ![id] = f]
        /\ calls' = [calls EXCEPT ![id] = c]
    <2>1. forms' = [forms EXCEPT ![id] = f]
      BY DEF Send, f
    <2>2. calls' = [calls EXCEPT ![id] = c]
      BY <1>1 DEF Send, call
    <2> QED
      BY <1>1, <2>1, <2>2 DEF Send
  <1>9. sent' \in 0 .. MaxCommands
    BY Bounds DEF Send, IInv, HostInv
  <1> HIDE DEF c
  <1> QED
    BY <1>7, <1>8, <1>9, StationStep DEF Send

\* The service's answer to a command of a station.
LEMMA ServeCallIInv ==
    ASSUME IInv, UNCHANGED controls, NEW id \in StationIds, ServeCall(id)
    PROVE  IInv'
  <1> DEFINE c == [calls[id] EXCEPT !.outcome = Verdict(calls[id])]
  <1>1. calls[id] # NoCall /\ Serve(calls[id])
    BY DEF ServeCall, Sent
  <1>2. Agree(id, view[id], forms[id], calls[id]) /\ forms = [forms EXCEPT ![id] = forms[id]]
        /\ view = [view EXCEPT ![id] = view[id]]
    BY Station
  <1>3. calls[id] \in Calls
    BY <1>1, <1>2 DEF Agree
  <1>4. Verdict(calls[id]) \in Outcomes
    BY DEF Verdict, Outcomes
  <1>5. c \in Calls /\ c.outcome = Verdict(calls[id]) /\ c # NoCall
        /\ c.kind = calls[id].kind /\ c.id = calls[id].id /\ c.run = calls[id].run
        /\ c.rev = calls[id].rev /\ c.seen = calls[id].seen /\ c.carries = calls[id].carries
    BY <1>3, <1>4, NothingIsNone DEF Calls
  <1> HIDE DEF c
  <1>6. c.kind = "update" /\ c.outcome = "ok" => c.rev < MaxRevision
    BY <1>1, <1>5 DEF Serve, Within
  <1>7. Agree(id, view[id], forms[id], c)
    BY <1>1, <1>2, <1>5, <1>6 DEF Agree
  <1>8. run' = run
    BY <1>1 DEF Serve, Apply, service
  <1>9. Stations'
    <2>1. calls' = [calls EXCEPT ![id] = c] /\ UNCHANGED <<view, forms, known>>
      BY <1>3 DEF ServeCall, host, c
    <2> QED
      BY <1>2, <1>7, <2>1, OneStation
  <1>10. ServiceTypeOK'
    BY <1>1, ServiceAdvances
  <1>11. HostInv' /\ NewStation' /\ ControlInv' /\ Reviews'
    <2>1. HostInv'
      BY <1>8 DEF ServeCall, IInv, HostInv, host, poll
    <2>2. NewStation' /\ ControlInv' /\ Reviews'
      BY DraftsStay DEF ServeCall, host, controls, review
    <2> QED
      BY <2>1, <2>2
  <1> QED
    BY <1>9, <1>10, <1>11 DEF IInv

\* The outcome of a command ends the wait of its form.
LEMMA DeliverCallIInv ==
    ASSUME IInv, UNCHANGED controls, NEW id \in StationIds, DeliverCall(id)
    PROVE  IInv'
  <1> DEFINE c == calls[id]
  <1>1. Agree(id, view[id], forms[id], c) /\ forms = [forms EXCEPT ![id] = forms[id]]
        /\ view = [view EXCEPT ![id] = view[id]]
    BY Station
  <1>2. c # NoCall /\ c \in Calls /\ forms[id] \in Forms /\ forms[id] # NoForm
    BY <1>1 DEF DeliverCall, Done, Agree
  <1>3. known \in 1 .. MaxRun
    BY <1>1, <1>2, Bounds DEF Agree, IInv, HostInv, NoRun
  <1> HIDE DEF c
  <1>4. \E e, f : /\ view' = [view EXCEPT ![id] = e] /\ forms' = [forms EXCEPT ![id] = f]
                  /\ Agree(id, e, f, NoCall)
    <2>1. Keeps([forms[id] EXCEPT !.pending = FALSE, !.newer = FALSE, !.attention = "conflict"], forms[id])
      <3>1. [forms[id] EXCEPT !.pending = FALSE, !.newer = FALSE, !.attention = "conflict"] \in Forms
        BY <1>2 DEF Forms, Attentions
      <3> QED
        BY <1>2, <3>1, NothingIsNone DEF Forms, Keeps
    <2>2. Keeps([forms[id] EXCEPT !.pending = FALSE, !.newer = FALSE], forms[id])
      <3>1. [forms[id] EXCEPT !.pending = FALSE, !.newer = FALSE] \in Forms
        BY <1>2 DEF Forms
      <3> QED
        BY <1>2, <3>1, NothingIsNone DEF Forms, Keeps
    <2>3. CASE c.outcome = "ok" /\ c.kind = "update"
      <3> DEFINE entry == [run |-> c.run, rev |-> c.rev + 1, late |-> c.run # known,
                           covered |-> view[id] # NoEntry /\ view[id].covered]
                 f     == IF view[id] # NoEntry THEN fillFromServer(entry)
                          ELSE [forms[id] EXCEPT !.pending = FALSE, !.newer = FALSE]
      <3>1. view' = [view EXCEPT ![id] = entry] /\ forms' = [forms EXCEPT ![id] = f]
        BY <2>3 DEF DeliverCall, Finish, Acknowledged, c
      <3>2. entry \in Entries /\ ShownOf(entry, known)
        <4>1. c.run \in 1 .. MaxRun /\ c.rev + 1 \in 1 .. MaxRevision
          BY <1>1, <1>2, <2>3, Bounds DEF Agree, Calls
        <4>2. (view[id] # NoEntry /\ view[id].covered) \in BOOLEAN
          BY <1>1 DEF Agree, Entries
        <4>3. entry \in Entries
          BY <4>1, <4>2 DEF Entries
        <4> QED
          BY <4>3 DEF ShownOf
      <3> HIDE DEF entry
      <3>3. Agree(id, entry, f, NoCall)
        <4>1. CASE view[id] # NoEntry
          <5>1. f = fillFromServer(entry) /\ known # NoRun
            BY <1>3, <4>1 DEF NoRun
          <5> HIDE DEF f
          <5>2. /\ f \in Forms /\ f # NoForm /\ f.base = f.seen.rev
                /\ ShownOf(f.seen, f.runId) /\ f.runId = known /\ ~f.dirty
            BY <1>3, <3>2, <5>1, FillFacts
          <5> QED
            BY <1>3, <3>2, <5>1, <5>2 DEF Agree
        <4>2. CASE view[id] = NoEntry
          <5>1. f = [forms[id] EXCEPT !.pending = FALSE, !.newer = FALSE] /\ known # NoRun
            BY <1>3, <4>2 DEF NoRun
          <5>2. Keeps(f, forms[id])
            BY <2>2, <5>1
          <5> HIDE DEF f
          <5>3. Agree(id, view[id], f, NoCall) /\ f # NoForm
            BY <1>1, <1>2, <5>2, KeepsFacts DEF Keeps
          <5> QED
            BY <3>2, <5>1, <5>3 DEF Agree
        <4> QED
          BY <4>1, <4>2
      <3> HIDE DEF f
      <3> QED
        BY <3>1, <3>3
    <2>4. CASE c.outcome = "ok" /\ c.kind # "update"
      <3>1. view' = [view EXCEPT ![id] = NoEntry] /\ forms' = [forms EXCEPT ![id] = NoForm]
        <4>1. c.kind = "remove"
          BY <1>2, <2>4 DEF Calls
        <4> QED
          BY <2>4, <4>1 DEF DeliverCall, Finish, c
      <3>2. Agree(id, NoEntry, NoForm, NoCall)
        BY DEF Agree
      <3> QED
        BY <3>1, <3>2
    <2>5. CASE c.outcome # "ok"
      <3>1. PICK f : /\ forms' = [forms EXCEPT ![id] = f]
                     /\ view' = view
                     /\ \/ f = [forms[id] EXCEPT !.pending = FALSE, !.newer = FALSE]
                        \/ f = [forms[id] EXCEPT !.pending = FALSE, !.newer = FALSE,
                                                 !.attention = "conflict"]
        BY <2>5 DEF DeliverCall, Finish, c
      <3>2. Keeps(f, forms[id])
        BY <2>1, <2>2, <3>1
      <3>3. Agree(id, view[id], f, NoCall)
        BY <1>1, <1>2, <3>2, KeepsFacts
      <3> QED
        BY <1>1, <3>1, <3>3
    <2> QED
      BY <2>3, <2>4, <2>5
  <1>5. calls' = [calls EXCEPT ![id] = NoCall]
    BY DEF DeliverCall
  <1>6. /\ UNCHANGED <<service, host, create, post>> /\ refreshNow
        /\ sent' \in 0 .. MaxCommands
    BY DEF DeliverCall, IInv, HostInv
  <1> QED
    BY <1>4, <1>5, <1>6, StationStep

\* A step of the user that changes one form, which keeps its place.
LEMMA FormIInv ==
    ASSUME IInv, NEW id \in StationIds, NEW f, forms[id] # NoForm,
           Agree(id, view[id], f, calls[id]),
           forms' = [forms EXCEPT ![id] = f],
           UNCHANGED <<service, host, poll, view, calls, create, post, sent, controls>>
    PROVE  IInv'
  <1>1. view' = [view EXCEPT ![id] = view[id]] /\ calls' = [calls EXCEPT ![id] = calls[id]]
    BY Station
  <1>2. sent' \in 0 .. MaxCommands
    BY DEF IInv, HostInv
  <1> QED
    BY <1>1, <1>2, StationStep

\* One station's form and its command.
LEMMA EditFormIInv == ASSUME IInv, NEW id \in StationIds, EditForm(id) PROVE IInv'
  <1>1. UNCHANGED controls
    BY DEF EditForm
  <1>2. Agree(id, view[id], forms[id], calls[id])
    BY Station
  <1>3. forms[id] # NoForm =>
            /\ forms[id] \in Forms /\ forms[id].seen \in Settings /\ forms[id].dirty \in BOOLEAN
            /\ forms[id].base = forms[id].seen.rev /\ ShownOf(forms[id].seen, forms[id].runId)
    BY <1>2 DEF Agree, Forms
  <1>4. view[id] # NoEntry =>
            /\ view[id] \in Entries /\ Seen(view[id]) \in Settings
            /\ Seen(view[id]).rev = view[id].rev
            /\ ShownOf(view[id], known) /\ ShownOf(Seen(view[id]), known)
            /\ known \in 1 .. MaxRun
    <2>1. view[id] # NoEntry => view[id] \in Entries /\ ShownOf(view[id], known) /\ known # NoRun
      BY <1>2 DEF Agree
    <2>2. known \in 0 .. MaxRun
      BY DEF IInv, HostInv
    <2> QED
      BY <2>1, <2>2, Bounds DEF Entries, Seen, Settings, NoRun, ShownOf
  <1>5. CASE Type(id)
    <2> DEFINE f == [forms[id] EXCEPT !.dirty = TRUE, !.written = known, !.newer = forms[id].pending]
    <2>1. known \in 0 .. MaxRun /\ forms[id] # NoForm /\ ~forms[id].dirty
      BY <1>5 DEF Type, IInv, HostInv
    <2>2. f \in Forms
      BY <1>3, <2>1 DEF Forms
    <2>3. /\ f # NoForm /\ f.runId = forms[id].runId /\ f.base = forms[id].base
          /\ f.seen = forms[id].seen /\ f.pending = forms[id].pending
          /\ f.dirty /\ f.written = known /\ f.newer = forms[id].pending
      BY <1>3, <2>1, <2>2, NothingIsNone DEF Forms
    <2>4. forms' = [forms EXCEPT ![id] = f]
          /\ UNCHANGED <<service, host, poll, view, calls, create, post, sent>>
      BY <1>5 DEF Type
    <2> HIDE DEF f
    <2>5. Agree(id, view[id], f, calls[id])
      BY <1>2, <2>1, <2>2, <2>3 DEF Agree
    <2> QED
      BY <1>1, <2>1, <2>4, <2>5, FormIInv
  <1>6. CASE submitForm(id)
    <2>1. Enabled(id) /\ forms[id] # NoForm
      BY <1>6 DEF submitForm, Enabled
    <2>2. CASE forms[id].runId = currentRun
      BY <1>1, <1>3, <1>6, <2>1, <2>2, SendIInv DEF submitForm
    <2>3. CASE forms[id].runId # currentRun
      <3> DEFINE f == [forms[id] EXCEPT !.attention = "run"]
      <3>1. Keeps(f, forms[id]) /\ f.pending = forms[id].pending /\ f.newer = forms[id].newer
        <4>1. f \in Forms
          BY <1>3, <2>1 DEF Forms, Attentions
        <4> QED
          BY <1>3, <2>1, <4>1, NothingIsNone DEF Forms, Keeps
      <3>2. forms' = [forms EXCEPT ![id] = f]
            /\ UNCHANGED <<service, host, poll, view, calls, create, post, sent>>
        BY <1>6, <2>3 DEF submitForm
      <3> HIDE DEF f
      <3>3. Agree(id, view[id], f, calls[id])
        BY <1>2, <2>1, <3>1, KeepsFacts
      <3> QED
        BY <1>1, <2>1, <3>2, <3>3, FormIInv
    <2> QED
      BY <2>2, <2>3
  <1>7. CASE toggleEnabled(id)
    <2>1. currentRun = known /\ forms[id] # NoForm /\ view[id] # NoEntry /\ ~forms[id].dirty
      BY <1>7 DEF toggleEnabled, Enabled, currentRun
    <2> QED
      BY <1>1, <1>3, <1>4, <1>7, <2>1, SendIInv DEF toggleEnabled
  <1>8. CASE removeStation(id)
    BY <1>1, <1>3, <1>8, SendIInv DEF removeStation, Enabled
  <1>9. CASE reloadServerValues(id)
    <2> DEFINE f == fillFromServer(view[id])
    <2>1. forms[id] # NoForm /\ ~forms[id].pending /\ view[id] # NoEntry
      BY <1>9 DEF reloadServerValues, Noticed
    <2>2. /\ f \in Forms /\ f # NoForm /\ f.base = f.seen.rev /\ f.runId = known
          /\ ShownOf(f.seen, f.runId) /\ ~f.dirty
      BY <1>4, <2>1, FillFacts
    <2>3. calls[id] = NoCall
      BY <1>2, <2>1 DEF Agree
    <2>4. forms' = [forms EXCEPT ![id] = f]
          /\ UNCHANGED <<service, host, poll, view, calls, create, post, sent>>
      BY <1>9 DEF reloadServerValues
    <2> HIDE DEF f
    <2>5. Agree(id, view[id], f, calls[id])
      BY <1>2, <1>4, <2>1, <2>2, <2>3 DEF Agree
    <2> QED
      BY <1>1, <2>1, <2>4, <2>5, FormIInv
  <1>10. CASE reapplyDraft(id)
    <2> DEFINE f == [forms[id] EXCEPT !.runId = known, !.base = view[id].rev,
                                      !.seen = Seen(view[id]), !.attention = "none",
                                      !.written = IF forms[id].dirty THEN known ELSE forms[id].written]
    <2>1. forms[id] # NoForm /\ view[id] # NoEntry /\ ~forms[id].pending /\ calls[id] = NoCall
      BY <1>2, <1>10 DEF reapplyDraft, Noticed, Agree
    <2>2. view[id].rev \in 1 .. MaxRevision /\ known \in 1 .. MaxRun /\ Seen(view[id]) \in Settings
      BY <1>4, <2>1 DEF Entries
    <2>3. f \in Forms
      <3>1. forms[id].written \in 0 .. MaxRun /\ known \in 0 .. MaxRun
        BY <1>3, <2>1, <2>2, Bounds DEF Forms
      <3>2. (IF forms[id].dirty THEN known ELSE forms[id].written) \in 0 .. MaxRun
        BY <3>1
      <3> QED
        BY <1>3, <2>1, <2>2, <3>2 DEF Forms, Attentions
    <2>4. /\ f # NoForm /\ f.runId = known /\ f.base = view[id].rev /\ f.seen = Seen(view[id])
          /\ f.dirty => f.written = known
      BY <1>3, <2>1, <2>3, NothingIsNone DEF Forms
    <2>5. forms' = [forms EXCEPT ![id] = f]
          /\ UNCHANGED <<service, host, poll, view, calls, create, post, sent>>
      BY <1>3, <1>10, <2>1 DEF reapplyDraft, Forms
    <2> HIDE DEF f
    <2>6. Agree(id, view[id], f, calls[id])
      BY <1>2, <1>4, <2>1, <2>2, <2>3, <2>4 DEF Agree
    <2> QED
      BY <1>1, <2>1, <2>5, <2>6, FormIInv
  <1>11. CASE ServeCall(id)
    BY <1>1, <1>11, ServeCallIInv
  <1>12. CASE LoseCall(id)
    <2> DEFINE c == [calls[id] EXCEPT !.outcome = "failed"]
    <2>1. calls[id] # NoCall /\ calls[id] \in Calls
      BY <1>2, <1>12 DEF LoseCall, Agree
    <2>2. c \in Calls /\ c.outcome = "failed"
          /\ c.kind = calls[id].kind /\ c.id = calls[id].id /\ c.run = calls[id].run
          /\ c.rev = calls[id].rev /\ c.seen = calls[id].seen /\ c.carries = calls[id].carries
      BY <2>1 DEF Calls, Outcomes
    <2>3. calls' = [calls EXCEPT ![id] = c]
          /\ UNCHANGED <<service, host, poll, view, forms, create, post, sent>>
      BY <1>12 DEF LoseCall
    <2> HIDE DEF c
    <2>4. Agree(id, view[id], forms[id], c)
      BY <1>2, <2>1, <2>2 DEF Agree
    <2>5. /\ view' = [view EXCEPT ![id] = view[id]] /\ forms' = [forms EXCEPT ![id] = forms[id]]
          /\ sent' \in 0 .. MaxCommands
      BY <2>3, Station DEF IInv, HostInv
    <2> QED
      BY <1>1, <2>3, <2>4, <2>5, StationStep
  <1>13. CASE DeliverCall(id)
    BY <1>1, <1>13, DeliverCallIInv
  <1>14. CASE submitNew(id)
    <2>1. UNCHANGED <<service, host, poll, view, forms, calls>>
      BY <1>14 DEF submitNew
    <2>2. sent' \in 0 .. MaxCommands
      BY <1>14, Bounds DEF submitNew, IInv, HostInv
    <2>3. currentRun \in 1 .. MaxRun
      <3>1. currentRun = known /\ known # NoRun
        BY <1>14 DEF submitNew, currentRun
      <3> QED
        BY <3>1, Bounds DEF IInv, HostInv, NoRun
    <2>4. create \in Creates
      BY <1>14 DEF submitNew, IInv, NewStation
    <2>5. /\ create' \in Creates /\ create' # NoForm
          /\ create'.dirty = create.dirty /\ create'.written = create.written
      BY <1>14, <2>4, NothingIsNone DEF submitNew, Creates
    <2>6. post' \in Posts \cup {NoCall}
      <3>1. [kind |-> "add", id |-> id, run |-> currentRun, outcome |-> "none"] \in Posts
        BY <2>3 DEF Posts, Outcomes
      <3> QED
        BY <1>14, <3>1 DEF submitNew, IInv, NewStation
    <2>7. ServiceTypeOK' /\ HostInv'
      BY <2>1, <2>2, HostStays DEF IInv, HostInv, poll
    <2>8. Stations'
      BY <2>1, StationsStay DEF host
    <2>9. NewStation' /\ ControlInv'
      BY <1>1, <1>14, <2>1, <2>5, <2>6 DEF submitNew, IInv, NewStation, ControlInv, controls, review, host
    <2>10. Reviews'
      BY <1>1, <1>14, <2>1, <2>5 DEF submitNew, IInv, Reviews, Waved, controls, review, host
    <2> QED
      BY <2>7, <2>8, <2>9, <2>10 DEF IInv
  <1> QED
    BY <1>5, <1>6, <1>7, <1>8, <1>9, <1>10, <1>11, <1>12, <1>13, <1>14 DEF EditForm

\* A step that leaves the service, the host and the stations alone.
LEMMA AsideIInv ==
    ASSUME IInv, UNCHANGED <<service, host, view, forms, calls>>, sent' \in 0 .. MaxCommands,
           UNCHANGED poll \/ refreshNow,
           NewStation', ControlInv', Reviews'
    PROVE  IInv'
  <1>1. ServiceTypeOK' /\ HostInv'
    BY RefreshFacts, HostStays DEF IInv, HostInv, poll
  <1>2. Stations'
    BY StationsStay DEF host
  <1> QED
    BY <1>1, <1>2 DEF IInv

\* The form of a new station and its command.
LEMMA NewFormIInv == ASSUME IInv, NewForm PROVE IInv'
  <1>1. UNCHANGED controls /\ sent \in 0 .. MaxCommands /\ known \in 0 .. MaxRun
        /\ create \in Creates \cup {NoForm} /\ post \in Posts \cup {NoCall}
    BY DEF NewForm, IInv, HostInv, NewStation
  <1>2. ControlInv' /\ UNCHANGED known
    <2>1. UNCHANGED known
      BY DEF NewForm, AddStation, TypeNew, Discard, ServePost, LosePost, DeliverPost, host
    <2> QED
      BY <1>1, <2>1 DEF IInv, ControlInv, controls, review
  <1>3. CASE AddStation
    <2>1. [dirty |-> FALSE, pending |-> FALSE, written |-> NoRun] \in Creates
      BY Bounds DEF Creates, NoRun
    <2>2. NewStation'
      <3>1. create' = [dirty |-> FALSE, pending |-> FALSE, written |-> NoRun] /\ known # NoRun
            /\ UNCHANGED <<known, post>>
        BY <1>3 DEF AddStation, currentRun, host
      <3> QED
        BY <1>1, <2>1, <3>1, Bounds DEF NewStation, NoRun
    <2>3. Reviews'
      BY <1>1, <1>3 DEF AddStation, IInv, Reviews, Waved, host, controls, review
    <2> QED
      BY <1>1, <1>2, <1>3, <2>2, <2>3, AsideIInv DEF AddStation
  <1>4. CASE TypeNew
    <2>1. create' \in Creates /\ create'.written = known
      BY <1>1, <1>4 DEF TypeNew, Creates
    <2>2. NewStation'
      BY <1>1, <1>2, <1>4, <2>1 DEF TypeNew, IInv, NewStation
    <2>3. Reviews'
      BY <1>1, <1>4, <2>1 DEF TypeNew, IInv, Reviews, Waved, host, controls, review
    <2> QED
      BY <1>1, <1>2, <1>4, <2>2, <2>3, AsideIInv DEF TypeNew
  <1>5. CASE Discard
    <2>1. NewStation'
      BY <1>1, <1>2, <1>5 DEF Discard, NewStation
    <2>2. Reviews'
      BY <1>1, <1>5 DEF Discard, IInv, Reviews, Waved, host, controls, review
    <2> QED
      BY <1>1, <1>2, <1>5, <2>1, <2>2, AsideIInv DEF Discard
  <1>6. CASE ServePost
    <2>1. post # NoCall /\ Serve(post) /\ post \in Posts
      BY <1>1, <1>6 DEF ServePost, Sent
    <2>2. run' = run /\ ServiceTypeOK'
      BY <2>1, ServiceAdvances DEF Serve, Apply, service
    <2>3. UNCHANGED <<host, poll, view, forms, calls, create, sent>>
      BY <1>6 DEF ServePost
    <2>4. HostInv'
      BY <2>2, <2>3 DEF IInv, HostInv, host, poll
    <2>5. Stations'
      BY <2>3, StationsStay DEF host
    <2>6. NewStation'
      <3>1. Verdict(post) \in Outcomes
        BY DEF Verdict, Outcomes
      <3>2. [post EXCEPT !.outcome = Verdict(post)] \in Posts
        BY <2>1, <3>1 DEF Posts
      <3> QED
        BY <1>1, <1>2, <1>6, <2>3, <3>2 DEF ServePost, IInv, NewStation
    <2>7. Reviews'
      BY <1>1, <2>3 DEF IInv, Reviews, Waved, host, controls, review
    <2> QED
      BY <1>2, <2>2, <2>4, <2>5, <2>6, <2>7 DEF IInv
  <1>7. CASE LosePost
    <2>1. NewStation'
      BY <1>1, <1>2, <1>7 DEF LosePost, IInv, NewStation, Posts, Outcomes
    <2>2. Reviews'
      BY <1>1, <1>7 DEF LosePost, IInv, Reviews, Waved, host, controls, review
    <2> QED
      BY <1>1, <1>2, <1>7, <2>1, <2>2, AsideIInv DEF LosePost
  <1>8. CASE DeliverPost
    <2>1. /\ create' \in Creates \cup {NoForm}
          /\ create' # NoForm => /\ create # NoForm
                                 /\ create'.dirty = create.dirty /\ create'.written = create.written
      <3>1. create' = IF create = NoForm \/ post.outcome = "ok" THEN NoForm
                      ELSE [create EXCEPT !.pending = FALSE]
        BY <1>8 DEF DeliverPost
      <3>2. CASE create = NoForm
        BY <3>1, <3>2
      <3>3. CASE create # NoForm
        <4>1. create \in Creates
          BY <1>1, <3>3
        <4> QED
          BY <3>1, <3>3, <4>1 DEF Creates
      <3> QED
        BY <3>2, <3>3
    <2>2. NewStation'
      BY <1>2, <1>8, <2>1 DEF DeliverPost, IInv, NewStation
    <2>3. Reviews'
      BY <1>1, <1>8, <2>1 DEF DeliverPost, IInv, Reviews, Waved, host, controls, review
    <2> QED
      BY <1>1, <1>2, <1>8, <2>2, <2>3, AsideIInv DEF DeliverPost
  <1> QED
    BY <1>3, <1>4, <1>5, <1>6, <1>7, <1>8 DEF NewForm

\* A control, its input and its command.
LEMMA ControlIInv == ASSUME IInv, NEW k \in Controls, Control(k) PROVE IInv'
  <1>1. sent \in 0 .. MaxCommands /\ known \in 0 .. MaxRun /\ ControlInv /\ Reviews /\ NewStation
    BY DEF IInv, HostInv
  <1>0. Noted \in 0 .. MaxRun /\ Noted <= known
    BY NotedFacts
  <1>2. ASSUME NEW t \in Texts \cup {NoText}, TypeControl(k, t)
        PROVE  IInv'
    <2>1. UNCHANGED <<service, host, poll, editor, sent, pending, puts, waved>>
          /\ noted' = Noted
          /\ text' = [text EXCEPT ![k] = t]
          /\ written' = [written EXCEPT ![k] = IF t = NoText THEN NoRun
                                               ELSE IF text[k] = NoText THEN known ELSE written[k]]
      BY <1>2 DEF TypeControl
    <2>2. ControlInv'
      BY <1>0, <1>1, <2>1, Bounds DEF ControlInv, host, NoRun
    <2>3. Reviews'
      BY <1>1, <2>1 DEF ControlInv, Reviews, Waved, host, editor
    <2>4. NewStation'
      BY <1>1, <2>1 DEF NewStation, host, editor
    <2> QED
      BY <1>1, <2>1, <2>2, <2>3, <2>4, AsideIInv DEF editor
  <1>3. ASSUME NEW t \in Texts \cup {NoText}, Submit(k, t)
        PROVE  IInv'
    <2>1. UNCHANGED <<service, host, rerun, editor, text, written, waved>> /\ noted' = Noted
      BY <1>3 DEF Submit
    <2>2. sent' \in 0 .. MaxCommands
      BY <1>1, <1>3, Bounds DEF Submit
    <2>3. /\ cycle' \in Cycles /\ cycle'.truth.run <= run
          /\ cycle'.truth.status = "ok" => known <= cycle'.truth.run
      <3>1. NoRun <= run
        BY Bounds DEF IInv, ServiceTypeOK, NoRun
      <3> QED
        BY <1>3, <3>1, CycleFacts DEF Submit, IInv, HostInv
    <2>4. ServiceTypeOK' /\ HostInv'
      BY <2>1, <2>2, <2>3, HostStays DEF IInv, HostInv
    <2>5. Stations'
      BY <2>1, StationsStay DEF host, editor
    <2>6. ControlInv'
      <3>1. known \in 1 .. MaxRun
        BY <1>1, <1>3, Bounds DEF Submit, canSubmit, currentRun, NoRun
      <3>2. [kind |-> "assign", run |-> known, text |-> t, outcome |-> "none"] \in Puts
        BY <3>1 DEF Puts, Outcomes
      <3>3. puts' \in [Controls -> Puts \cup {NoCall}]
        BY <1>1, <1>3, <3>2 DEF Submit, ControlInv
      <3>4. pending' \in [Controls -> BOOLEAN]
        BY <1>1, <1>3 DEF Submit, ControlInv
      <3>5. \A j \in Controls : puts'[j] # NoCall => pending'[j]
        BY <1>1, <1>3 DEF Submit, ControlInv
      <3> QED
        BY <1>0, <1>1, <2>1, <3>3, <3>4, <3>5 DEF ControlInv, host
    <2>7. NewStation' /\ Reviews'
      BY <1>1, <2>1 DEF NewStation, Reviews, Waved, host, editor, review
    <2> QED
      BY <2>4, <2>5, <2>6, <2>7 DEF IInv
  <1>4. CASE ServePut(k)
    <2>1. puts[k] # NoCall /\ Serve(puts[k]) /\ puts[k] \in Puts
      BY <1>1, <1>4 DEF ServePut, Sent, ControlInv
    <2>2. run' = run /\ ServiceTypeOK'
      BY <2>1, ServiceAdvances DEF Serve, Apply, service
    <2>3. UNCHANGED <<host, poll, editor, sent, text, pending, written, review>>
      BY <1>4 DEF ServePut
    <2>4. HostInv'
      BY <2>2, <2>3 DEF IInv, HostInv, host, poll
    <2>5. Stations'
      BY <2>2, <2>3, StationsStay DEF host, editor
    <2>6. ControlInv'
      <3>1. Verdict(puts[k]) \in Outcomes
        BY DEF Verdict, Outcomes
      <3>2. [puts[k] EXCEPT !.outcome = Verdict(puts[k])] \in Puts
        BY <2>1, <3>1 DEF Puts
      <3>3. puts' = [puts EXCEPT ![k] = [puts[k] EXCEPT !.outcome = Verdict(puts[k])]]
        BY <1>1, <1>4 DEF ServePut, ControlInv
      <3> QED
        BY <1>1, <2>1, <2>3, <3>2, <3>3 DEF ControlInv, host, review
    <2>7. NewStation' /\ Reviews'
      BY <1>1, <2>3 DEF NewStation, Reviews, Waved, host, editor, review
    <2> QED
      BY <2>2, <2>4, <2>5, <2>6, <2>7 DEF IInv
  <1>5. CASE LosePut(k)
    <2>1. UNCHANGED <<service, host, poll, editor, sent, text, pending, written, review>>
      BY <1>5 DEF LosePut
    <2>2. ControlInv'
      <3>1. puts[k] # NoCall /\ puts[k] \in Puts
        BY <1>1, <1>5 DEF LosePut, ControlInv
      <3>2. [puts[k] EXCEPT !.outcome = "failed"] \in Puts
        BY <3>1 DEF Puts, Outcomes
      <3>3. puts' = [puts EXCEPT ![k] = [puts[k] EXCEPT !.outcome = "failed"]]
        BY <1>5 DEF LosePut
      <3> QED
        BY <1>1, <2>1, <3>1, <3>2, <3>3 DEF ControlInv, host, review
    <2>3. NewStation' /\ Reviews'
      BY <1>1, <2>1 DEF NewStation, Reviews, Waved, host, editor, review
    <2> QED
      BY <1>1, <2>1, <2>2, <2>3, AsideIInv DEF editor
  <1>6. CASE DeliverPut(k)
    <2>1. UNCHANGED <<service, host, editor, sent, waved>> /\ refreshNow /\ noted' = Noted
      BY <1>6 DEF DeliverPut
    <2>2. ControlInv'
      BY <1>0, <1>1, <1>6, <2>1, Bounds DEF DeliverPut, ControlInv, host, NoRun
    <2>3. Reviews'
      BY <1>1, <1>6, <2>1 DEF DeliverPut, ControlInv, Reviews, Waved, host, editor
    <2>4. NewStation'
      BY <1>1, <2>1 DEF NewStation, host, editor
    <2> QED
      BY <1>1, <2>1, <2>2, <2>3, <2>4, AsideIInv DEF editor
  <1>7. text[k] \in Texts \cup {NoText}
    BY <1>1 DEF ControlInv
  <1> QED
    BY <1>2, <1>3, <1>4, <1>5, <1>6, <1>7 DEF Control, SubmitText, PressButton

\* The review ends with the drafts reviewed for the run that is known, or with
\* that run's review clicked away.
LEMMA ReviewedIInv == ASSUME IInv, Reviewed PROVE IInv'
  <1>1. /\ ServiceTypeOK /\ HostInv /\ NewStation /\ ControlInv
        /\ known \in 0 .. MaxRun /\ noted \in 0 .. MaxRun /\ noted <= known
        /\ UNCHANGED <<service, known, stale, poll, view, forms, calls, post, sent,
                       text, pending, puts>>
    BY DEF Reviewed, IInv, HostInv, ControlInv
  <1>2. ServiceTypeOK' /\ HostInv'
    BY <1>1, Bounds DEF Reviewed, ServiceTypeOK, HostInv, service, poll, NoRun
  <1>3. Stations'
    BY <1>1, StationsStay
  <1>4. known # NoRun /\ noted' = NoRun /\ waved' = (IF noted = known THEN waved ELSE known)
    BY <1>1, Bounds DEF Reviewed, NoRun
  <1>5. /\ create' \in Creates \cup {NoForm}
        /\ create' # NoForm => /\ create'.written <= known
                               /\ create'.dirty => create'.written = known \/ Waved'
    <2>1. CASE create = NoForm
      BY <2>1 DEF Reviewed
    <2>2. CASE create # NoForm
      <3>1. create \in Creates /\ create.written \in 0 .. MaxRun /\ create.written <= known
        BY <1>1, <2>2 DEF NewStation, Creates
      <3>2. CASE create.dirty /\ create.written < noted
        <4>1. create' = [create EXCEPT !.written = noted]
          BY <2>2, <3>2 DEF Reviewed
        <4>2. create' \in Creates /\ create'.written = noted
          BY <1>1, <3>1, <4>1 DEF Creates
        <4> QED
          BY <1>1, <1>4, <4>2 DEF Waved
      <3>3. CASE ~(create.dirty /\ create.written < noted)
        <4>1. create' = create
          BY <2>2, <3>3 DEF Reviewed
        <4>2. noted = known /\ create.dirty => create.written = known
          BY <1>1, <3>1, <3>3, Bounds
        <4> QED
          BY <1>1, <1>4, <3>1, <4>1, <4>2 DEF Waved
      <3> QED
        BY <3>2, <3>3
    <2> QED
      BY <2>1, <2>2
  <1>6. written' = [k \in Controls |-> IF text[k] = NoText THEN NoRun ELSE noted]
    BY DEF Reviewed
  <1>7. NewStation'
    BY <1>1, <1>4, <1>5 DEF NewStation
  <1>8. ControlInv'
    <2>1. waved' \in 0 .. MaxRun
      BY <1>1, <1>4 DEF ControlInv
    <2> QED
      BY <1>1, <1>4, <1>6, <2>1, Bounds DEF ControlInv, NoRun
  <1>9. Reviews'
    BY <1>1, <1>4, <1>5, <1>6 DEF Reviews, Waved
  <1> QED
    BY <1>2, <1>3, <1>7, <1>8, <1>9 DEF IInv

-------------------------------------------------------------------------------
(***************************************************************************)
(* The theorems.                                                           *)
(***************************************************************************)

\* The invariant that everything below rests on.
LEMMA Invariant == Spec => []IInv
  <1>1. Init => IInv
    BY InitIInv
  <1>2. IInv /\ [Next]_vars => IInv'
    <2> SUFFICES ASSUME IInv, [Next]_vars PROVE IInv'
      OBVIOUS
    <2>1. CASE Next
      BY <2>1, EnvironmentIInv, ReadsIInv, ReadRunIInv, ReadListIInv, EditFormIInv, NewFormIInv,
         ControlIInv, ReviewedIInv DEF Next, Cycle
    <2>2. CASE UNCHANGED vars
      <3>1. UNCHANGED <<service, host, poll, editor, sent, controls>>
        BY <2>2 DEF vars
      <3>2. sent' \in 0 .. MaxCommands
        BY <3>1 DEF IInv, HostInv
      <3>3. NewStation' /\ ControlInv' /\ Reviews'
        BY <3>1, DraftsStay DEF host, editor, controls, review
      <3> QED
        BY <3>1, <3>2, <3>3, AsideIInv DEF editor
    <2> QED
      BY <2>1, <2>2
  <1> QED
    BY <1>1, <1>2, PTL DEF Spec

\* Every command that is under way is awaited by a form or a control that is
\* still there, and every station of the view has a form (stations.js, manager.js).
THEOREM CommandsAreAwaited == Spec => []PageInv
  <1>1. IInv => PageInv
    BY DEF IInv, HostInv, Stations, Agree, NewStation, ControlInv, PageInv, TypeOK, EditorTypeOK
  <1> QED
    BY <1>1, Invariant, PTL

\* Only the forms touch the commands of the stations.
LEMMA FormsCall ==
    ASSUME [Next]_vars, calls' # calls
    PROVE  \E j \in StationIds : EditForm(j)
  <1>1. Environment \/ Reviewed \/ UNCHANGED vars => calls' = calls
    BY DEF Environment, Reviewed, vars, editor
  <1>2. Cycle => calls' = calls
    BY DEF Cycle, TimerFires, AnswerMetadata, AnswerTruth, AnswerStations, Fail, FailRun, FailStations,
           ReadRun, ReadList, ReadStations, acceptRun, useRun, editor
  <1>3. NewForm => calls' = calls
    BY DEF NewForm, AddStation, TypeNew, Discard, ServePost, LosePost, DeliverPost
  <1>4. (\E k \in Controls : Control(k)) => calls' = calls
    BY DEF Control, TypeControl, SubmitText, PressButton, Submit, ServePut, LosePut, DeliverPut, editor
  <1> QED
    BY <1>1, <1>2, <1>3, <1>4 DEF Next

\* Who touches a command of a station that is under way.
LEMMA WhoTouchesACall ==
    ASSUME IInv, [Next]_vars, NEW id \in StationIds, calls'[id] # calls[id], calls[id] # NoCall
    PROVE  ServeCall(id) \/ LoseCall(id) \/ DeliverCall(id)
  <1>1. calls \in [StationIds -> Calls \cup {NoCall}]
    BY DEF IInv, Stations
  <1>2. PICK j \in StationIds : EditForm(j)
    BY FormsCall
  <1>3. CASE ServeCall(j) \/ LoseCall(j) \/ DeliverCall(j)
    <2>1. \A i \in StationIds : i # j => calls'[i] = calls[i]
      BY <1>1, <1>3 DEF ServeCall, LoseCall, DeliverCall
    <2>2. j = id
      BY <2>1
    <2> QED
      BY <1>3, <2>2
  <1>4. CASE ~(ServeCall(j) \/ LoseCall(j) \/ DeliverCall(j))
    <2>1. \/ Type(j) \/ submitForm(j) \/ toggleEnabled(j) \/ removeStation(j)
          \/ reloadServerValues(j) \/ reapplyDraft(j) \/ submitNew(j)
      BY <1>2, <1>4 DEF EditForm
    <2>2. CASE Type(j) \/ reloadServerValues(j) \/ reapplyDraft(j) \/ submitNew(j)
      BY <2>2 DEF Type, reloadServerValues, reapplyDraft, submitNew
    <2>3. CASE submitForm(j) \/ toggleEnabled(j) \/ removeStation(j)
      <3>1. calls[j] = NoCall
        BY <2>3, Station DEF submitForm, toggleEnabled, removeStation, Enabled, Agree
      <3>2. \A i \in StationIds : i # j => calls'[i] = calls[i]
        BY <1>1, <2>3 DEF submitForm, toggleEnabled, removeStation, Send
      <3> QED
        BY <3>1, <3>2
    <2> QED
      BY <2>1, <2>2, <2>3
  <1> QED
    BY <1>3, <1>4

\* "The latest revision is never substituted silently" (stations.js): what the
\* service replaces is the revision the user was shown.
THEOREM NothingIsOverwrittenSilently == Spec => NoSilentOverwrite
  <1>1. ASSUME IInv, [Next]_vars, NEW id \in StationIds,
               Sent(calls[id]), calls'[id] # NoCall, calls'[id].outcome = "ok"
        PROVE  /\ calls[id].seen.rev = revision[id]
               /\ calls[id].seen.run = run \/ calls[id].seen.late
    <2>1. Agree(id, view[id], forms[id], calls[id]) /\ calls[id] # NoCall /\ calls[id] \in Calls
      BY <1>1, Station DEF Sent, Agree
    <2>2. calls'[id] # calls[id]
      BY <1>1 DEF Sent
    <2>3. ServeCall(id) \/ LoseCall(id) \/ DeliverCall(id)
      BY <1>1, <2>1, <2>2, WhoTouchesACall
    <2>4. ServeCall(id) /\ Verdict(calls[id]) = "ok"
      <3>1. calls \in [StationIds -> Calls \cup {NoCall}]
        BY <1>1 DEF IInv, Stations
      <3>2. CASE DeliverCall(id)
        BY <1>1, <3>1, <3>2 DEF DeliverCall
      <3>3. \A o : [calls[id] EXCEPT !.outcome = o].outcome = o
        BY <2>1 DEF Calls
      <3>4. CASE LoseCall(id)
        <4>1. calls'[id] = [calls[id] EXCEPT !.outcome = "failed"]
          BY <3>1, <3>4 DEF LoseCall
        <4> QED
          BY <1>1, <3>3, <4>1
      <3>5. CASE ServeCall(id)
        <4>1. calls'[id] = [calls[id] EXCEPT !.outcome = Verdict(calls[id])]
          BY <3>1, <3>5 DEF ServeCall
        <4> QED
          BY <1>1, <3>3, <3>5, <4>1
      <3> QED
        BY <2>3, <3>2, <3>4, <3>5
    <2>6. calls[id].kind \in {"update", "remove"} /\ calls[id].id = id
      BY <2>1 DEF Calls, Agree
    <2>7. revision[id] = calls[id].rev /\ run = calls[id].run
      BY <2>4, <2>6 DEF Verdict
    <2> QED
      BY <2>1, <2>7 DEF Agree, ShownOf
  <1>2. IInv /\ [Next]_vars =>
            [\A id \in StationIds :
                Sent(calls[id]) /\ calls'[id] # NoCall /\ calls'[id].outcome = "ok" =>
                    /\ calls[id].seen.rev = revision[id]
                    /\ calls[id].seen.run = run \/ calls[id].seen.late]_vars
    BY <1>1
  <1> QED
    BY <1>2, Invariant, PTL DEF Spec, NoSilentOverwrite

\* "A detected restart requires review of dirty drafts before they are submitted
\* to the new run" (ui/doc.go).
THEOREM NothingIsSentUnreviewed == Spec => ReviewedBeforeSent
  <1>1. ASSUME IInv, currentRun # NoRun
        PROVE  reviewRun = NoRun /\ currentRun = known
    BY <1>1 DEF currentRun
  <1>2. ASSUME IInv, [Next]_vars, post = NoCall, post' # NoCall
        PROVE  create.written = post'.run \/ waved = post'.run
    <2>1. PICK id \in StationIds : submitNew(id)
      <3>1. Environment \/ Reviewed \/ UNCHANGED vars => post' = post
        BY DEF Environment, Reviewed, vars, editor
      <3>2. Cycle => post' = post
        BY DEF Cycle, TimerFires, AnswerMetadata, AnswerTruth, AnswerStations, Fail, FailRun,
               FailStations, ReadRun, ReadList, ReadStations, acceptRun, useRun, editor
      <3>3. NewForm => post' = NoCall
        BY <1>2 DEF NewForm, AddStation, TypeNew, Discard, ServePost, LosePost, DeliverPost, Sent, Done
      <3>4. (\E k \in Controls : Control(k)) => post' = post
        BY DEF Control, TypeControl, SubmitText, PressButton, Submit, ServePut, LosePut, DeliverPut,
               editor
      <3>5. PICK id \in StationIds : EditForm(id)
        BY <1>2, <3>1, <3>2, <3>3, <3>4 DEF Next
      <3>6. submitNew(id)
        BY <1>2, <3>5 DEF EditForm, Type, submitForm, toggleEnabled, removeStation, Send,
           reloadServerValues, reapplyDraft, ServeCall, LoseCall, DeliverCall
      <3> QED
        BY <3>6
    <2>2. create # NoForm /\ create.dirty /\ currentRun # NoRun
      BY <2>1 DEF submitNew
    <2>3. create.written = known \/ waved = known
      BY <1>1, <1>2, <2>2 DEF IInv, Reviews, Waved
    <2>4. post'.run = currentRun
      BY <1>2, <2>1 DEF submitNew
    <2> QED
      BY <1>1, <1>2, <2>2, <2>3, <2>4
  <1>3. ASSUME IInv, [Next]_vars, NEW k \in Controls,
               puts[k] = NoCall, puts'[k] # NoCall, puts'[k].text # NoText
        PROVE  written[k] \in {NoRun, puts'[k].run} \/ waved = puts'[k].run
    <2>1. puts \in [Controls -> Puts \cup {NoCall}]
      BY <1>3 DEF IInv, ControlInv
    <2>2. PICK j \in Controls : Control(j)
      <3>1. Environment \/ Reviewed \/ UNCHANGED vars => puts' = puts
        BY DEF Environment, Reviewed, vars, controls
      <3>2. Cycle => puts' = puts
        BY DEF Cycle, TimerFires, AnswerMetadata, AnswerTruth, AnswerStations, Fail, FailRun,
               FailStations, ReadRun, ReadList, controls
      <3>3. NewForm \/ (\E id \in StationIds : EditForm(id)) => puts' = puts
        BY DEF NewForm, EditForm, controls
      <3> QED
        BY <1>3, <3>1, <3>2, <3>3 DEF Next
    <2>3. PICK t \in Texts \cup {NoText} : Submit(j, t) /\ (t = NoText \/ t = text[j])
      <3>1. text[j] \in Texts \cup {NoText}
        BY <1>3 DEF IInv, ControlInv
      <3>2. \A t : TypeControl(j, t) => puts' = puts
        BY DEF TypeControl
      <3>3. ServePut(j) \/ LosePut(j) \/ DeliverPut(j) => puts'[k] = NoCall
        BY <1>3, <2>1 DEF ServePut, LosePut, DeliverPut, Sent, Done
      <3> QED
        BY <1>3, <2>2, <3>1, <3>2, <3>3 DEF Control, SubmitText, PressButton
    <2>4. j = k
      BY <1>3, <2>1, <2>3 DEF Submit
    <2>5. puts'[k] = [kind |-> "assign", run |-> known, text |-> t, outcome |-> "none"]
      BY <1>3, <2>1, <2>3, <2>4 DEF Submit
    <2>6. puts'[k].run = known /\ t = text[k] /\ t # NoText
      BY <1>3, <2>3, <2>4, <2>5
    <2>7. currentRun # NoRun
      BY <2>3 DEF Submit, canSubmit
    <2> QED
      BY <1>1, <1>3, <2>6, <2>7 DEF IInv, Reviews, Waved
  <1>4. ASSUME IInv, [Next]_vars, NEW id \in StationIds,
               calls[id] = NoCall, calls'[id] # NoCall, calls'[id].carries
        PROVE  forms[id].written = calls'[id].run
    <2>1. calls \in [StationIds -> Calls \cup {NoCall}] /\ Agree(id, view[id], forms[id], calls[id])
      BY <1>4, Station DEF IInv, Stations
    <2>2. PICK j \in StationIds : EditForm(j)
      BY <1>4, FormsCall
    <2>3. submitForm(j) \/ toggleEnabled(j) \/ removeStation(j)
      BY <1>4, <2>1, <2>2 DEF EditForm, Type, reloadServerValues, reapplyDraft, ServeCall, LoseCall,
         DeliverCall, Sent, Done, submitNew
    <2>4. j = id
      BY <1>4, <2>1, <2>3 DEF submitForm, toggleEnabled, removeStation, Send
    <2>5. ASSUME NEW kind, NEW rev, NEW seen, NEW c, Send(id, kind, rev, seen, c)
          PROVE  calls'[id].carries = c /\ calls'[id].run = currentRun
      <3> DEFINE command == [kind |-> kind, id |-> id, run |-> currentRun, rev |-> rev,
                             seen |-> seen, carries |-> c, outcome |-> "none"]
      <3>1. calls' = [calls EXCEPT ![id] = command]
        BY <1>4, <2>5 DEF Send
      <3>2. calls'[id] = command
        BY <2>1, <3>1
      <3> QED
        BY <3>2
    <2>6. submitForm(id) /\ forms[id].runId = currentRun /\ forms[id].dirty
      <3>1. ~toggleEnabled(id) /\ ~removeStation(id)
        BY <1>4, <2>5 DEF toggleEnabled, removeStation
      <3>2. submitForm(id) /\ forms[id].runId = currentRun
        BY <1>4, <2>3, <2>4, <3>1 DEF submitForm
      <3> QED
        BY <1>4, <2>5, <3>2 DEF submitForm
    <2>7. forms[id] # NoForm /\ forms[id] \in Forms /\ currentRun = known /\ calls'[id].run = currentRun
      BY <1>1, <1>4, <2>1, <2>5, <2>6 DEF submitForm, Enabled, Agree
    <2>8. forms[id].runId <= forms[id].written /\ forms[id].written <= known
      BY <2>1, <2>6, <2>7 DEF Agree
    <2>9. known \in 0 .. MaxRun /\ forms[id].written \in 0 .. MaxRun
      BY <1>4, <2>7 DEF IInv, HostInv, Forms
    <2> QED
      BY <2>6, <2>7, <2>8, <2>9, Bounds
  <1>5. IInv /\ [Next]_vars =>
            [/\ post = NoCall /\ post' # NoCall => create.written = post'.run \/ waved = post'.run
             /\ \A id \in StationIds :
                   calls[id] = NoCall /\ calls'[id] # NoCall /\ calls'[id].carries =>
                       forms[id].written = calls'[id].run
             /\ \A k \in Controls :
                   puts[k] = NoCall /\ puts'[k] # NoCall /\ puts'[k].text # NoText =>
                       \/ written[k] \in {NoRun, puts'[k].run}
                       \/ waved = puts'[k].run]_vars
    BY <1>2, <1>3, <1>4
  <1> QED
    BY <1>5, Invariant, PTL DEF Spec, ReviewedBeforeSent

\* What a cycle makes of the forms keeps the drafts.
LEMMA CyclesKeepDrafts ==
    ASSUME IInv, Cycle, NEW id \in StationIds, forms[id] # NoForm, forms[id].dirty
    PROVE  forms'[id] # NoForm /\ forms'[id].dirty
  <1>1. Agree(id, view[id], forms[id], calls[id]) /\ forms[id] \in Forms
    BY Station DEF Agree
  <1>2. CASE UNCHANGED forms
    BY <1>2
  <1>3. CASE ReadRun /\ forms' # forms
    <2>1. forms'[id] = [forms[id] EXCEPT !.attention = "run"]
      BY <1>3 DEF ReadRun, acceptRun, useRun, editor
    <2>2. [forms[id] EXCEPT !.attention = "run"] \in Forms
      BY <1>1 DEF Forms, Attentions
    <2> QED
      BY <1>1, <2>1, <2>2, NothingIsNone DEF Forms
  <1>4. CASE ReadList /\ forms' # forms
    <2> DEFINE list   == cycle.list
               listed == [i \in StationIds |->
                            IF list.revision[i] = NoRevision THEN NoEntry
                            ELSE [run |-> list.run, rev |-> list.revision[i], late |-> FALSE,
                                  covered |-> TRUE]]
    <2>1. list.status = "ok" /\ list.run = known
          /\ forms' = [i \in StationIds |-> Reconciled(forms[i], listed[i])]
      BY <1>4 DEF ReadList, ReadStations
    <2>2. list \in Lists
      BY DEF IInv, HostInv, Cycles
    <2> HIDE DEF list
    <2>3. list.run \in 1 .. MaxRun /\ list.revision \in [StationIds -> NoRevision .. MaxRevision]
          /\ known \in 1 .. MaxRun
      BY <2>1, <2>2 DEF Lists
    <2>4. listed[id] \in Entries \cup {NoEntry} /\ (listed[id] # NoEntry => ShownOf(listed[id], known))
      <3>1. CASE list.revision[id] = NoRevision
        BY <3>1
      <3>2. CASE list.revision[id] # NoRevision
        <4>1. list.revision[id] \in 1 .. MaxRevision
          BY <2>3, <3>2, Bounds DEF NoRevision
        <4>2. listed[id] = [run |-> list.run, rev |-> list.revision[id], late |-> FALSE,
                            covered |-> TRUE]
          BY <3>2
        <4> QED
          BY <2>1, <2>3, <4>1, <4>2 DEF Entries, ShownOf
      <3> QED
        BY <3>1, <3>2
    <2> HIDE DEF listed
    <2> QED
      BY <1>1, <2>1, <2>3, <2>4, ReconciledFacts
  <1>5. ReadRun \/ ReadList \/ UNCHANGED forms
    BY DEF Cycle, TimerFires, AnswerMetadata, AnswerTruth, AnswerStations, Fail, FailRun,
           FailStations, editor
  <1> QED
    BY <1>2, <1>3, <1>4, <1>5

\* A form that is flagged, or that waits, keeps its draft.
LEMMA FlaggedFacts ==
    ASSUME NEW form \in Forms, form.dirty, NEW a \in Attentions, NEW p \in BOOLEAN, NEW n \in BOOLEAN,
           NEW f, f \in {[form EXCEPT !.attention = a], [form EXCEPT !.pending = p],
                        [form EXCEPT !.pending = p, !.newer = n],
                        [form EXCEPT !.pending = p, !.newer = n, !.attention = a]}
    PROVE  f # NoForm /\ f.dirty
  <1>1. f \in Forms
    BY DEF Forms
  <1>2. f.dirty
    BY DEF Forms
  <1> QED
    BY <1>1, <1>2, NothingIsNone

\* Of the steps of a station only two end its draft.
LEMMA FormsKeepDrafts ==
    ASSUME IInv, NEW j \in StationIds, EditForm(j), NEW id \in StationIds,
           forms[id] # NoForm, forms[id].dirty,
           ~reloadServerValues(id), ~(DeliverCall(id) /\ calls[id].outcome = "ok")
    PROVE  forms'[id] # NoForm /\ forms'[id].dirty
  <1>1. Agree(id, view[id], forms[id], calls[id]) /\ forms[id] \in Forms
    BY Station DEF Agree
  <1>2. forms \in [StationIds -> Forms \cup {NoForm}]
    BY DEF IInv, Stations
  <1>3. CASE forms'[id] = forms[id]
    BY <1>3
  <1>4. CASE forms'[id] # forms[id]
    <2>1. id = j
      BY <1>2, <1>4 DEF EditForm, Type, submitForm, toggleEnabled, removeStation, Send,
         reloadServerValues, reapplyDraft, ServeCall, LoseCall, DeliverCall, Finish, Acknowledged,
         submitNew
    <2>2. ~Type(id)
      BY DEF Type
    <2>3. CASE submitForm(id) \/ toggleEnabled(id) \/ removeStation(id)
      <3>1. \/ forms'[id] = [forms[id] EXCEPT !.pending = TRUE]
            \/ forms'[id] = [forms[id] EXCEPT !.attention = "run"]
        BY <1>2, <2>3 DEF submitForm, toggleEnabled, removeStation, Send
      <3> QED
        BY <1>1, <3>1, FlaggedFacts DEF Attentions
    <2>4. CASE reapplyDraft(id)
      <3>1. forms'[id] = [forms[id] EXCEPT !.runId = known, !.base = view[id].rev,
                                          !.seen = Seen(view[id]), !.attention = "none",
                                          !.written = known]
        BY <1>1, <1>2, <2>4 DEF reapplyDraft, Forms
      <3>2. forms'[id] # NoForm
        <4>1. forms' \in [StationIds -> Forms \cup {NoForm}]
          BY <2>1, EditFormIInv DEF IInv, Stations
        <4>2. view[id] # NoEntry
          BY <2>4 DEF reapplyDraft, Noticed
        <4>3. /\ known \in 1 .. MaxRun
              /\ view[id].rev \in 1 .. MaxRevision /\ Seen(view[id]) \in Settings
          BY <1>1, <4>2, Bounds DEF Agree, Entries, Seen, Settings, IInv, HostInv, NoRun
        <4>4. known \in 0 .. MaxRun
          BY <4>3, Bounds
        <4> DEFINE s == Seen(view[id])
        <4>5. s \in Settings
          BY <4>3
        <4> HIDE DEF s
        <4>6. [forms[id] EXCEPT !.runId = known, !.base = view[id].rev,
                                !.seen = s, !.attention = "none",
                                !.written = known] \in Forms
          BY <1>1, <4>3, <4>4, <4>5 DEF Forms, Attentions
        <4> QED
          BY <3>1, <4>6, NothingIsNone DEF s
      <3>3. forms'[id].dirty = forms[id].dirty
        BY <1>1, <3>1 DEF Forms
      <3> QED
        BY <3>2, <3>3
    <2>5. CASE DeliverCall(id)
      <3>1. calls[id].outcome # "ok"
        BY <2>5
      <3>2. \/ forms'[id] = [forms[id] EXCEPT !.pending = FALSE, !.newer = FALSE]
            \/ forms'[id] = [forms[id] EXCEPT !.pending = FALSE, !.newer = FALSE,
                                              !.attention = "conflict"]
        BY <1>2, <2>5, <3>1 DEF DeliverCall, Finish
      <3> QED
        BY <1>1, <3>2, FlaggedFacts DEF Attentions
    <2>6. \/ Type(id) \/ submitForm(id) \/ toggleEnabled(id) \/ removeStation(id)
          \/ reapplyDraft(id) \/ DeliverCall(id)
      BY <1>4, <2>1 DEF EditForm, ServeCall, LoseCall, submitNew
    <2> QED
      BY <2>2, <2>3, <2>4, <2>5, <2>6
  <1> QED
    BY <1>3, <1>4

\* Drafts "survive failures and polling" (manager.js).
THEOREM DraftsAreKept == Spec => DraftsSurvive
  <1>1. ASSUME IInv, [Next]_vars, NEW id \in StationIds,
               forms[id] # NoForm, forms[id].dirty, forms'[id] = NoForm \/ ~forms'[id].dirty
        PROVE  \/ reloadServerValues(id)
               \/ /\ DeliverCall(id)
                  /\ calls[id].outcome = "ok"
                  /\ calls[id].kind = "remove" \/ calls[id].carries \/ forms[id].newer
    <2>1. forms' # forms
      BY <1>1
    <2>2. Environment \/ Reviewed \/ UNCHANGED vars => forms' = forms
      BY DEF Environment, Reviewed, vars, editor
    <2>3. NewForm => forms' = forms
      BY DEF NewForm, AddStation, TypeNew, Discard, ServePost, LosePost, DeliverPost
    <2>4. (\E k \in Controls : Control(k)) => forms' = forms
      BY DEF Control, TypeControl, SubmitText, PressButton, Submit, ServePut, LosePut, DeliverPut,
             editor
    <2>5. ~Cycle
      BY <1>1, CyclesKeepDrafts
    <2>6. \E j \in StationIds : EditForm(j)
      BY <1>1, <2>1, <2>2, <2>3, <2>4, <2>5 DEF Next
    <2>7. reloadServerValues(id) \/ (DeliverCall(id) /\ calls[id].outcome = "ok")
      BY <1>1, <2>6, FormsKeepDrafts
    <2>8. CASE DeliverCall(id)
      <3>1. calls[id] # NoCall /\ Agree(id, view[id], forms[id], calls[id])
        BY <1>1, <2>8, Station DEF DeliverCall, Done
      <3> QED
        BY <1>1, <2>7, <2>8, <3>1 DEF Agree, Calls
    <2> QED
      BY <2>7, <2>8
  <1>2. ASSUME IInv, [Next]_vars, create # NoForm, create.dirty, create' = NoForm \/ ~create'.dirty
        PROVE  Discard \/ (DeliverPost /\ post.outcome = "ok")
    <2>1. create \in Creates
      BY <1>2 DEF IInv, NewStation
    <2>2. CASE NewForm
      <3>1. CASE DeliverPost
        <4>1. post.outcome # "ok" => create' = [create EXCEPT !.pending = FALSE]
          BY <1>2, <3>1 DEF DeliverPost
        <4>2. post.outcome = "ok"
          <5> SUFFICES ASSUME post.outcome # "ok" PROVE FALSE
            OBVIOUS
          <5>1. create'.dirty = create.dirty /\ create' \in Creates
            BY <2>1, <4>1 DEF Creates
          <5> QED
            BY <1>2, <5>1, NothingIsNone
        <4> QED
          BY <3>1, <4>2
      <3> QED
        BY <1>2, <2>2, <3>1 DEF NewForm, AddStation, TypeNew, ServePost, LosePost
    <2>3. CASE \E id \in StationIds : EditForm(id)
      <3>1. create' = create \/ create' = [create EXCEPT !.pending = TRUE]
        BY <2>3 DEF EditForm, Type, submitForm, toggleEnabled, removeStation, Send,
           reloadServerValues, reapplyDraft, ServeCall, LoseCall, DeliverCall, submitNew
      <3> QED
        BY <1>2, <2>1, <3>1, NothingIsNone DEF Creates
    <2>4. CASE Reviewed
      <3>1. create' = [create EXCEPT !.written = noted] \/ create' = create
        BY <1>2, <2>4 DEF Reviewed
      <3>2. noted \in 0 .. MaxRun
        BY <1>2 DEF IInv, ControlInv
      <3> QED
        BY <1>2, <2>1, <3>1, <3>2, NothingIsNone DEF Creates
    <2>5. Environment \/ UNCHANGED vars => create' = create
      BY DEF Environment, vars, editor
    <2>6. Cycle => create' = create
      BY DEF Cycle, TimerFires, AnswerMetadata, AnswerTruth, AnswerStations, Fail, FailRun,
             FailStations, ReadRun, ReadList, ReadStations, acceptRun, useRun, editor
    <2>7. (\E k \in Controls : Control(k)) => create' = create
      BY DEF Control, TypeControl, SubmitText, PressButton, Submit, ServePut, LosePut, DeliverPut,
             editor
    <2> QED
      BY <1>2, <2>2, <2>3, <2>4, <2>5, <2>6, <2>7 DEF Next
  <1>3. ASSUME IInv, [Next]_vars, NEW k \in Controls,
               text[k] # NoText, text'[k] = NoText
        PROVE  \/ TypeControl(k, NoText)
               \/ DeliverPut(k) /\ puts[k].outcome = "ok" /\ puts[k].text = text[k]
    <2>1. text \in [Controls -> Texts \cup {NoText}]
      BY <1>3 DEF IInv, ControlInv
    <2>2. Environment \/ Reviewed \/ UNCHANGED vars => text' = text
      BY DEF Environment, Reviewed, vars, controls
    <2>3. Cycle => text' = text
      BY DEF Cycle, TimerFires, AnswerMetadata, AnswerTruth, AnswerStations, Fail, FailRun,
             FailStations, ReadRun, ReadList, controls
    <2>4. NewForm \/ (\E id \in StationIds : EditForm(id)) => text' = text
      BY DEF NewForm, EditForm, controls
    <2>5. PICK j \in Controls : Control(j)
      BY <1>3, <2>2, <2>3, <2>4 DEF Next
    <2>6. ASSUME NEW t, TypeControl(j, t)
          PROVE  TypeControl(k, NoText)
      <3>1. text' = [text EXCEPT ![j] = t]
        BY <2>6 DEF TypeControl
      <3>2. j = k /\ t = NoText
        BY <1>3, <2>1, <3>1
      <3> QED
        BY <2>6, <3>2
    <2>7. CASE DeliverPut(j)
      <3>1. Cleared(j) /\ j = k
        BY <1>3, <2>1, <2>7 DEF DeliverPut
      <3> QED
        BY <2>7, <3>1 DEF Cleared
    <2> QED
      BY <1>3, <2>5, <2>6, <2>7 DEF Control, SubmitText, PressButton, Submit, ServePut, LosePut
  <1>4. IInv /\ [Next]_vars =>
            [/\ \A id \in StationIds :
                   forms[id] # NoForm /\ forms[id].dirty
                       /\ (forms'[id] = NoForm \/ ~forms'[id].dirty) =>
                           \/ reloadServerValues(id)
                           \/ /\ DeliverCall(id)
                              /\ calls[id].outcome = "ok"
                              /\ calls[id].kind = "remove" \/ calls[id].carries \/ forms[id].newer
             /\ create # NoForm /\ create.dirty /\ (create' = NoForm \/ ~create'.dirty) =>
                   Discard \/ (DeliverPost /\ post.outcome = "ok")
             /\ \A k \in Controls :
                   text[k] # NoText /\ text'[k] = NoText =>
                       \/ TypeControl(k, NoText)
                       \/ DeliverPut(k) /\ puts[k].outcome = "ok" /\ puts[k].text = text[k]]_vars
    BY <1>1, <1>2, <1>3
  <1> QED
    BY <1>4, Invariant, PTL DEF Spec, DraftsSurvive
===============================================================================
