------------------------------ MODULE ManagerPage -----------------------------
(***************************************************************************)
(* The manager page (manager.js) around its station editor: a poll loop    *)
(* that reads metadata, truth and then the stations, three requests that a *)
(* restart of the simulator and the page's own commands can fall between,  *)
(* and controls that send absolute assignments for the run they observed.  *)
(***************************************************************************)
EXTENDS StationEditor

CONSTANTS
    Controls,  \* the controls: count, and speed with its clock buttons
    Texts,     \* what a user may type into a control
    NoText     \* an empty control

VARIABLES
    text,     \* per control, its input: a draft unless it is empty
    pending,  \* per control, a command is under way
    written,  \* history: the run the draft was written for, or reviewed for
    puts,     \* per control, the command under way
    noted,    \* the run the review note on the page names, NoRun when it is hidden
    waved     \* history: the last run that was reviewed by the note of an earlier one

review   == <<noted, waved>>
controls == <<text, pending, written, puts, review>>
vars == <<service, host, poll, editor, sent, controls>>

\* The command of a control.
Puts == [kind : {"assign"}, run : 1 .. MaxRun, text : Texts \cup {NoText},
         outcome : Outcomes \cup {"none"}]

ASSUME NoPut == NoCall \notin Puts

TypeOK ==
    /\ ServiceTypeOK
    /\ EditorTypeOK
    /\ text \in [Controls -> Texts \cup {NoText}]
    /\ pending \in [Controls -> BOOLEAN]
    /\ written \in [Controls -> 0 .. MaxRun]
    /\ puts \in [Controls -> Puts \cup {NoCall}]
    /\ {noted, waved} \subseteq 0 .. MaxRun

\* mountManager ends with poller.start().
Init ==
    /\ ServiceInit
    /\ EditorInit
    /\ text = [k \in Controls |-> NoText]
    /\ pending = [k \in Controls |-> FALSE]
    /\ written = [k \in Controls |-> NoRun]
    /\ puts = [k \in Controls |-> NoCall]
    /\ noted = NoRun
    /\ waved = NoRun

\* What render makes of the review note.  acceptRun does not render: until the
\* stations are read, the page shows the note it had.
Noted == IF reviewRun = NoRun THEN NoRun ELSE known

-------------------------------------------------------------------------------
(***************************************************************************)
(* The refresh cycle.                                                      *)
(***************************************************************************)

\* The next cycle starts after the interval.
TimerFires ==
    /\ cycle.phase = "idle"
    /\ cycle' = Reading
    /\ UNCHANGED <<service, host, rerun, editor, sent, controls>>

\* GET metadata and GET truth are under way together.  Only whether they agree on
\* the run matters, so it is enough that metadata is answered first.
Answered == [status |-> "ok", run |-> run]

AnswerMetadata ==
    /\ cycle.phase = "run"
    /\ cycle.current
    /\ cycle.metadata = Asked
    /\ cycle' = [cycle EXCEPT !.metadata = Answered]
    /\ UNCHANGED <<service, host, rerun, editor, sent, controls>>

AnswerTruth ==
    /\ cycle.phase = "run"
    /\ cycle.current
    /\ cycle.metadata # Asked
    /\ cycle.truth = Asked
    /\ cycle' = [cycle EXCEPT !.truth = Answered]
    /\ UNCHANGED <<service, host, rerun, editor, sent, controls>>

\* One of them fails, or its payload cannot be used: the other one is of no use.
FailRun ==
    /\ cycle.phase = "run"
    /\ cycle.current
    /\ Asked \in {cycle.metadata, cycle.truth}
    /\ LET failed == [Asked EXCEPT !.status = "error"]
       IN  cycle' = [cycle EXCEPT !.metadata = failed, !.truth = failed]
    /\ UNCHANGED <<service, host, rerun, editor, sent, controls>>

AnswerStations ==
    /\ cycle.phase = "stations"
    /\ cycle.list = Unread
    /\ cycle' = [cycle EXCEPT !.list = [status |-> "ok", run |-> run, revision |-> revision]]
    /\ UNCHANGED <<service, host, rerun, editor, sent, controls>>

FailStations ==
    /\ cycle.phase = "stations"
    /\ cycle.list = Unread
    /\ cycle' = [cycle EXCEPT !.list.status = "error"]
    /\ UNCHANGED <<service, host, rerun, editor, sent, controls>>

\* A cycle ends, and another one starts at once if it was asked for.
EndCycle(again) ==
    /\ cycle' = IF again THEN Reading ELSE Idle
    /\ rerun' = FALSE

hasDrafts == hasDirtyDrafts \/ \E k \in Controls : text[k] # NoText

\* Mutant: a replacement run asks for a review of the stations' drafts only.
acceptRunForStations(r) ==
    /\ known' = r
    /\ reviewRun' = IF known \in {NoRun, r} THEN reviewRun
                    ELSE IF hasDirtyDrafts THEN known ELSE NoRun
    /\ useRun(r)

\* A replacement run: what was drafted for the previous one is to be reviewed.
acceptRun(r) ==
    /\ known' = r
    /\ reviewRun' = IF known \in {NoRun, r} THEN reviewRun
                    ELSE IF hasDrafts THEN known ELSE NoRun
    /\ useRun(r)

\* refresh up to stations.refresh.  A cycle that a control's command overtook is
\* dropped; reads of different runs are stale, and read again.
ReadRun ==
    /\ cycle.phase = "run"
    /\ cycle.current => cycle.metadata # Asked /\ cycle.truth # Asked
    /\ IF ~cycle.current
          THEN /\ EndCycle(rerun)
               /\ UNCHANGED <<host, editor, noted>>
       ELSE IF cycle.truth.status = "error"
          THEN /\ stale' = TRUE
               /\ EndCycle(rerun)
               /\ noted' = Noted
               /\ UNCHANGED <<known, reviewRun, editor>>
       ELSE IF cycle.metadata.run # cycle.truth.run
          THEN /\ stale' = TRUE
               /\ EndCycle(rerun \/ Renderable)
               /\ noted' = Noted
               /\ UNCHANGED <<known, reviewRun, editor>>
       ELSE /\ acceptRun(cycle.truth.run)
            /\ stale' = FALSE
            /\ cycle' = [Idle EXCEPT !.phase = "stations"]
            /\ UNCHANGED <<rerun, noted>>
    /\ UNCHANGED <<service, sent, text, pending, written, puts, waved>>

\* The rest of refresh.
ReadList ==
    /\ cycle.phase = "stations"
    /\ cycle.list # Unread
    /\ ReadStations
    /\ EndCycle(rerun \/ (cycle.list.status = "ok" /\ cycle.list.run # known))
    /\ noted' = Noted
    /\ UNCHANGED <<service, host, sent, text, pending, written, puts, waved>>

-------------------------------------------------------------------------------
(***************************************************************************)
(* The controls.                                                           *)
(***************************************************************************)

TypeControl(k, t) ==
    /\ text' = [text EXCEPT ![k] = t]
    /\ written' = [written EXCEPT ![k] = IF t = NoText THEN NoRun
                                         ELSE IF text[k] = NoText THEN known ELSE @]
    /\ noted' = Noted
    /\ UNCHANGED <<service, host, poll, editor, sent, pending, puts, waved>>

canSubmit == currentRun # NoRun

\* submit, up to the await.  It overtakes the cycle under way.
Submit(k, t) ==
    /\ ~pending[k]
    /\ canSubmit
    /\ sent < MaxCommands
    /\ sent' = sent + 1
    /\ pending' = [pending EXCEPT ![k] = TRUE]
    /\ cycle' = IF cycle.phase = "run" THEN Overtaken ELSE cycle
    /\ puts' = IF ~Renderable THEN puts
               ELSE [puts EXCEPT ![k] = [kind |-> "assign", run |-> known, text |-> t,
                                         outcome |-> "none"]]
    /\ noted' = Noted
    /\ UNCHANGED <<service, host, rerun, editor, text, written, waved>>

SubmitText(k) == text[k] # NoText /\ Submit(k, text[k])

\* Pause and resume send without a draft.
PressButton(k) == Submit(k, NoText)

ServePut(k) ==
    /\ Sent(puts[k])
    /\ Serve(puts[k])
    /\ puts' = [puts EXCEPT ![k].outcome = Verdict(puts[k])]
    /\ UNCHANGED <<host, poll, editor, sent, text, pending, written, review>>

LosePut(k) ==
    /\ puts[k] # NoCall
    /\ puts' = [puts EXCEPT ![k].outcome = "failed"]
    /\ UNCHANGED <<service, host, poll, editor, sent, text, pending, written, review>>

\* The draft goes only if it was accepted and nothing newer was typed.
Cleared(k) ==
    /\ puts[k].outcome = "ok"
    /\ puts[k].text # NoText
    /\ text[k] = puts[k].text
    /\ Renderable

\* submit and its caller after the await.
DeliverPut(k) ==
    /\ Done(puts[k])
    /\ pending' = [pending EXCEPT ![k] = FALSE]
    /\ puts' = [puts EXCEPT ![k] = NoCall]
    /\ text' = IF Cleared(k) THEN [text EXCEPT ![k] = NoText] ELSE text
    /\ written' = IF Cleared(k) THEN [written EXCEPT ![k] = NoRun] ELSE written
    /\ refreshNow
    /\ noted' = Noted
    /\ UNCHANGED <<service, host, editor, sent, waved>>

\* "Drafts reviewed": the drafts are reviewed for the run that the note names,
\* and submitted to the one the page is at.
Reviewed ==
    /\ noted # NoRun
    /\ reviewRun # NoRun
    /\ reviewRun' = NoRun
    /\ noted' = NoRun
    /\ waved' = IF noted = known THEN waved ELSE known
    /\ written' = [k \in Controls |-> IF text[k] = NoText THEN NoRun ELSE noted]
    /\ create' = IF create # NoForm /\ create.dirty /\ create.written < noted
                    THEN [create EXCEPT !.written = noted] ELSE create
    /\ UNCHANGED <<service, known, stale, poll, view, forms, calls, post, sent, text, pending, puts>>

-------------------------------------------------------------------------------
\* The rest of the world.
Environment ==
    /\ Restart \/ \E id \in StationIds : OtherClient(id)
    /\ UNCHANGED <<host, poll, editor, sent, controls>>

EditForm(id) ==
    /\ \/ Type(id) \/ submitForm(id) \/ toggleEnabled(id) \/ removeStation(id)
       \/ reloadServerValues(id) \/ reapplyDraft(id)
       \/ ServeCall(id) \/ LoseCall(id) \/ DeliverCall(id)
       \/ submitNew(id)
    /\ UNCHANGED controls

NewForm ==
    /\ AddStation \/ TypeNew \/ Discard \/ ServePost \/ LosePost \/ DeliverPost
    /\ UNCHANGED controls

Control(k) ==
    \/ \E t \in Texts \cup {NoText} : t # text[k] /\ TypeControl(k, t)
    \/ SubmitText(k)
    \/ PressButton(k)
    \/ ServePut(k)
    \/ LosePut(k)
    \/ DeliverPut(k)

Fail == FailRun \/ FailStations

Cycle ==
    \/ TimerFires \/ AnswerMetadata \/ AnswerTruth \/ ReadRun \/ AnswerStations \/ ReadList
    \/ Fail

Next ==
    \/ Environment
    \/ Cycle
    \/ \E id \in StationIds : EditForm(id)
    \/ NewForm
    \/ \E k \in Controls : Control(k)
    \/ Reviewed

Spec == Init /\ [][Next]_vars

\* Timers fire, requests settle within their timeout, what follows an await
\* runs, and reads do not fail for ever.  Nothing is asked of the user.
Fairness ==
    /\ WF_vars(TimerFires) /\ WF_vars(ReadRun) /\ WF_vars(ReadList)
    /\ WF_vars(AnswerMetadata) /\ WF_vars(AnswerTruth) /\ WF_vars(AnswerStations)
    /\ <>[][~Fail]_vars
    /\ \A id \in StationIds :
          /\ WF_vars((ServeCall(id) \/ LoseCall(id)) /\ UNCHANGED controls)
          /\ WF_vars(DeliverCall(id) /\ UNCHANGED controls)

FairSpec == Spec /\ Fairness
-------------------------------------------------------------------------------
(***************************************************************************)
(* Properties.                                                             *)
(***************************************************************************)

\* What is under way is awaited: by the form that sent it, which stays until
\* the answer is there, and by the control.  The view has a form for every
\* station in it.
PageInv ==
    /\ TypeOK
    /\ \A id \in StationIds :
          /\ calls[id] # NoCall => forms[id] # NoForm /\ forms[id].pending
          /\ view[id] # NoEntry => forms[id] # NoForm
    /\ \A k \in Controls : puts[k] # NoCall => pending[k]

\* "The latest revision is never substituted silently" (stations.js): a command
\* of this page that the service applies replaces the very revision of the very
\* run that its user was shown.  The one exception is a station last seen in the
\* acknowledgement of a command to an earlier run that came after the page had
\* learned of this one: acknowledge takes it for this run's, and its revision
\* may be the number of another one here.
NoSilentOverwrite ==
    [][\A id \in StationIds :
          Sent(calls[id]) /\ calls'[id] # NoCall /\ calls'[id].outcome = "ok" =>
              /\ calls[id].seen.rev = revision[id]
              /\ calls[id].seen.run = run \/ calls[id].seen.late]_vars

\* Drafts "survive failures and polling" (manager.js): the draft of an edit form
\* goes only when its user reloads the form, or when the service accepted the
\* station's removal or an update that carries the draft; that of a new station
\* when its user discards it or the station was created; a control's when its
\* user clears it or the very text was accepted.  The one exception is what is
\* typed into an edit form while an update of it is under way: acknowledge
\* refills the form, with or without the draft in the command.
DraftsSurvive ==
    [][/\ \A id \in StationIds :
             forms[id] # NoForm /\ forms[id].dirty
                 /\ (forms'[id] = NoForm \/ ~forms'[id].dirty) =>
                     \/ reloadServerValues(id)
                     \/ /\ DeliverCall(id)
                        /\ calls[id].outcome = "ok"
                        /\ calls[id].kind = "remove" \/ calls[id].carries \/ forms[id].newer
       /\ create # NoForm /\ create.dirty /\ (create' = NoForm \/ ~create'.dirty) =>
             Discard \/ (DeliverPost /\ post.outcome = "ok")
       /\ \A k \in Controls :
             text[k] # NoText /\ text'[k] = NoText =>
                 \/ TypeControl(k, NoText)
                 \/ DeliverPut(k) /\ puts[k].outcome = "ok" /\ puts[k].text = text[k]]_vars

\* "A detected restart requires review of dirty drafts before they are submitted
\* to the new run" (ui/doc.go): what is sent to a run is a draft that was begun in
\* it, or reviewed or (in an edit form) reapplied for it.  The one exception is a
\* run whose review was clicked away by the note of an earlier run, which stays
\* on the page while the stations of the new one are read.
ReviewedBeforeSent ==
    [][/\ post = NoCall /\ post' # NoCall => create.written = post'.run \/ waved = post'.run
       /\ \A id \in StationIds :
             calls[id] = NoCall /\ calls'[id] # NoCall /\ calls'[id].carries =>
                 forms[id].written = calls'[id].run
       /\ \A k \in Controls :
             puts[k] = NoCall /\ puts'[k] # NoCall /\ puts'[k].text # NoText =>
                 \/ written[k] \in {NoRun, puts'[k].run}
                 \/ waved = puts'[k].run]_vars

\* Whatever reads and acknowledgements overtook each other, once the simulator
\* and its clients come to rest the page shows the stations there are, and every
\* form without a draft is based on their latest revisions.
Converges ==
    <>[](/\ known = run
         /\ \A id \in StationIds :
               /\ view[id] = NoEntry <=> ~Active(id)
               /\ view[id] # NoEntry => view[id].run = run /\ view[id].rev = revision[id]
               /\ forms[id] # NoForm /\ ~forms[id].pending /\ ~forms[id].dirty =>
                      forms[id].runId = run /\ forms[id].base = revision[id])

\* "send issues one station command and handles its outcome" (stations.js): a form
\* or a control that waits has a command under way that will end the wait.
NothingWaitsForNothing ==
    /\ \A id \in StationIds :
          forms[id] # NoForm /\ forms[id].pending => calls[id] # NoCall
    /\ create # NoForm /\ create.pending => post # NoCall
    /\ \A k \in Controls : pending[k] => puts[k] # NoCall
===============================================================================
