----------------------------- MODULE StationEditor ----------------------------
(***************************************************************************)
(* The station editor of the manager page (stations.js): one form per      *)
(* station and one for a new station, each with a draft of its own, over a *)
(* view of the service's stations that the page's poll loop refreshes.     *)
(*                                                                         *)
(* Everything between two awaits is one action.  Rendering a form throws   *)
(* when its station has no coverage (renderForm); what the code does after *)
(* such a render is then not done.                                         *)
(***************************************************************************)
EXTENDS SimulatorService

CONSTANTS
    NoEntry,      \* the view has no such station
    NoForm,       \* there is no such form
    NoCall,       \* no command is under way
    MaxCommands   \* bound: commands of the page

ASSUME EditorConstants == MaxCommands \in Nat \ {0}

VARIABLES
    \* the manager as the editor's host
    known,      \* state.runId of the manager and of the editor
    stale,
    reviewRun,
    cycle,      \* the cycle of the poll loop
    rerun,
    \* the editor
    view,       \* state.server
    forms,      \* state.forms, the edit forms
    calls,      \* per edit form, the command under way
    create,     \* the form of a new station
    post,       \* its command under way
    sent        \* the number of commands the page has tried to send

host   == <<known, stale, reviewRun>>
poll   == <<cycle, rerun>>
editor == <<view, forms, calls, create, post>>

\* late (history): the entry is an acknowledgement from another run than the
\* page's.
Entries == [run : 1 .. MaxRun, rev : 1 .. MaxRevision, late : BOOLEAN, covered : BOOLEAN]

\* What the user was shown of a station: the settings of a revision of a run.
Settings == [run : 1 .. MaxRun, rev : 1 .. MaxRevision, late : BOOLEAN]

Attentions == {"none", "conflict", "changed", "run", "removed"}

\* runId and base are form.runId and form.baseRevision; seen (history) is what
\* the form was filled with, or what was shown beside it when it was reapplied;
\* written (history) the run its draft was begun or reapplied in; newer (history)
\* whether it was begun while a command of the form was under way.
Forms == [runId : 1 .. MaxRun, base : 1 .. MaxRevision, seen : Settings,
          dirty : BOOLEAN, pending : BOOLEAN, attention : Attentions,
          written : 0 .. MaxRun, newer : BOOLEAN]

\* written (history) is the run the draft was written for, or reviewed for.
Creates == [dirty : BOOLEAN, pending : BOOLEAN, written : 0 .. MaxRun]

\* A command for a station that exists, and one for a new station.  carries
\* (history): it holds the form's draft.
Calls == [kind : {"update", "remove"}, id : StationIds, run : 1 .. MaxRun,
          rev : 1 .. MaxRevision, seen : Settings, carries : BOOLEAN,
          outcome : Outcomes \cup {"none"}]
Posts == [kind : {"add"}, id : StationIds, run : 1 .. MaxRun, outcome : Outcomes \cup {"none"}]

ASSUME NothingIsNone ==
    /\ NoEntry \notin Entries
    /\ NoForm \notin Forms \cup Creates
    /\ NoCall \notin Calls \cup Posts

Sent(c) == c # NoCall /\ c.outcome = "none"
Done(c) == c # NoCall /\ c.outcome # "none"

\* Requests of the poll loop.
Asked   == [status |-> "asked", run |-> NoRun]
Reads   == [status : {"asked", "error"}, run : {NoRun}] \cup [status : {"ok"}, run : 1 .. MaxRun]
Unread  == [status |-> "asked", run |-> NoRun, revision |-> [id \in StationIds |-> NoRevision]]
Lists   == [status : {"asked", "error"}, run : {NoRun},
            revision : [StationIds -> NoRevision .. MaxRevision]]
           \cup [status : {"ok"}, run : 1 .. MaxRun,
                 revision : [StationIds -> NoRevision .. MaxRevision]]

Cycles == [phase : {"idle", "run", "stations"}, current : BOOLEAN,
           metadata : Reads, truth : Reads, list : Lists]

Idle    == [phase |-> "idle", current |-> TRUE, metadata |-> Asked, truth |-> Asked, list |-> Unread]
Reading == [Idle EXCEPT !.phase = "run"]

\* A cycle whose reads a control's command has overtaken: what they return is
\* dropped, whenever it comes.
Overtaken == [Reading EXCEPT !.current = FALSE]

EditorTypeOK ==
    /\ {known, reviewRun} \subseteq 0 .. MaxRun
    /\ {stale, rerun} \subseteq BOOLEAN
    /\ cycle \in Cycles
    /\ view \in [StationIds -> Entries \cup {NoEntry}]
    /\ forms \in [StationIds -> Forms \cup {NoForm}]
    /\ calls \in [StationIds -> Calls \cup {NoCall}]
    /\ create \in Creates \cup {NoForm}
    /\ post \in Posts \cup {NoCall}
    /\ sent \in 0 .. MaxCommands

EditorInit ==
    /\ known = NoRun
    /\ stale = FALSE
    /\ reviewRun = NoRun
    /\ cycle = Reading
    /\ rerun = FALSE
    /\ view = [id \in StationIds |-> NoEntry]
    /\ forms = [id \in StationIds |-> NoForm]
    /\ calls = [id \in StationIds |-> NoCall]
    /\ create = NoForm
    /\ post = NoCall
    /\ sent = 0

-------------------------------------------------------------------------------
(***************************************************************************)
(* What the host supplies.                                                 *)
(***************************************************************************)

\* Commands can be sent for this run, or for none while the page's state is
\* stale or its drafts are under review.
currentRun == IF stale \/ reviewRun # NoRun THEN NoRun ELSE known

\* refreshNow: a cycle under way is followed by another one at once.
refreshNow ==
    IF cycle.phase = "idle" THEN cycle' = Reading /\ UNCHANGED rerun
    ELSE rerun' = TRUE /\ UNCHANGED cycle

-------------------------------------------------------------------------------
(***************************************************************************)
(* Rendering and the forms.                                                *)
(***************************************************************************)

\* renderForm reads the coverage of the form's station.
Rendered(id) == forms[id] # NoForm /\ view[id] # NoEntry => view[id].covered

Renderable == \A id \in StationIds : Rendered(id)

\* What the buttons of an edit form and their handlers require.
Enabled(id) ==
    /\ forms[id] # NoForm
    /\ ~forms[id].pending
    /\ forms[id].attention = "none"
    /\ currentRun # NoRun
    /\ Rendered(id)

hasDirtyDrafts ==
    \/ \E id \in StationIds : forms[id] # NoForm /\ forms[id].dirty
    \/ create # NoForm /\ create.dirty

Seen(entry) == [run |-> entry.run, rev |-> entry.rev, late |-> entry.late]

fillFromServer(entry) ==
    [runId |-> known, base |-> entry.rev, seen |-> Seen(entry),
     dirty |-> FALSE, pending |-> FALSE, attention |-> "none",
     written |-> NoRun, newer |-> FALSE]

\* Mutant: a form goes with its station, whatever is under way for it.
ReconciledNotWaiting(form, entry) ==
    IF form # NoForm /\ entry = NoEntry THEN NoForm
    ELSE IF form = NoForm /\ entry # NoEntry THEN fillFromServer(entry) ELSE form

\* Mutant: a clean form that was filled once is left alone.
ReconciledOnce(form, entry) ==
    IF form = NoForm THEN IF entry = NoEntry THEN NoForm ELSE fillFromServer(entry)
    ELSE IF form.pending THEN form
    ELSE IF entry = NoEntry
       THEN IF form.dirty THEN [form EXCEPT !.attention = "removed"] ELSE NoForm
    ELSE form

\* reconcile: clean forms follow the view, drafts are flagged.
Reconciled(form, entry) ==
    IF form = NoForm THEN IF entry = NoEntry THEN NoForm ELSE fillFromServer(entry)
    ELSE IF form.pending THEN form
    ELSE IF entry = NoEntry
       THEN IF form.dirty THEN [form EXCEPT !.attention = "removed"] ELSE NoForm
    ELSE IF form.base = entry.rev /\ form.runId = known THEN form
    ELSE IF ~form.dirty THEN fillFromServer(entry)
    ELSE IF form.attention = "conflict" THEN form
    ELSE [form EXCEPT !.attention = IF form.runId # known THEN "run" ELSE "changed"]

\* refresh, with the answer of GET stations: a list of another run is never
\* mixed in.  A list that was overtaken by a command of this page is.
ReadStations ==
    LET list   == cycle.list
        taken  == list.status = "ok" /\ list.run = known
        listed == [id \in StationIds |->
                      IF list.revision[id] = NoRevision THEN NoEntry
                      ELSE [run |-> list.run, rev |-> list.revision[id], late |-> FALSE,
                            covered |-> TRUE]]
    IN  /\ view' = IF taken THEN listed ELSE view
        /\ forms' = IF taken THEN [id \in StationIds |-> Reconciled(forms[id], listed[id])]
                             ELSE forms
        /\ UNCHANGED <<calls, create, post>>

\* useRun: a replacement run clears the view and flags the drafts.
useRun(r) ==
    IF known \in {NoRun, r} THEN UNCHANGED editor
    ELSE /\ view' = [id \in StationIds |-> NoEntry]
         /\ forms' = [id \in StationIds |->
                         IF forms[id] # NoForm /\ forms[id].dirty
                            THEN [forms[id] EXCEPT !.attention = "run"] ELSE forms[id]]
         /\ UNCHANGED <<calls, create, post>>

-------------------------------------------------------------------------------
(***************************************************************************)
(* The user.                                                               *)
(***************************************************************************)

\* The inputs stay editable while a command is under way.  Typing on in a draft
\* changes nothing that the editor looks at.
Type(id) ==
    /\ forms[id] # NoForm
    /\ ~forms[id].dirty
    /\ forms' = [forms EXCEPT ![id].dirty = TRUE, ![id].written = known,
                              ![id].newer = forms[id].pending]
    /\ UNCHANGED <<service, host, poll, view, calls, create, post, sent>>

\* send, up to the await: a render that throws keeps it from sending anything.
Send(id, kind, rev, seen, carries) ==
    /\ sent < MaxCommands
    /\ sent' = sent + 1
    /\ forms' = [forms EXCEPT ![id].pending = TRUE]
    /\ calls' = IF ~Renderable THEN calls
                ELSE [calls EXCEPT ![id] = [kind |-> kind, id |-> id, run |-> currentRun,
                                            rev |-> rev, seen |-> seen, carries |-> carries,
                                            outcome |-> "none"]]
    /\ UNCHANGED <<service, host, poll, view, create, post>>

\* Mutant: a form is submitted to the present run, whatever run it is filled for.
submitFormAnyRun(id) ==
    /\ Enabled(id)
    /\ Send(id, "update", forms[id].base, forms[id].seen, forms[id].dirty)

\* A draft that was written for another run is flagged instead.
submitForm(id) ==
    /\ Enabled(id)
    /\ IF forms[id].runId = currentRun
          THEN Send(id, "update", forms[id].base, forms[id].seen, forms[id].dirty)
          ELSE /\ forms' = [forms EXCEPT ![id].attention = "run"]
               /\ UNCHANGED <<service, host, poll, view, calls, create, post, sent>>

\* Mutant: the station is toggled under a draft.
toggleUnderDraft(id) ==
    /\ Enabled(id)
    /\ view[id] # NoEntry
    /\ forms[id].runId = currentRun
    /\ Send(id, "update", view[id].rev, Seen(view[id]), FALSE)

\* Enables or disables the station as the view has it.
toggleEnabled(id) ==
    /\ Enabled(id)
    /\ view[id] # NoEntry
    /\ ~forms[id].dirty
    /\ forms[id].runId = currentRun
    /\ Send(id, "update", view[id].rev, Seen(view[id]), FALSE)

removeStation(id) ==
    /\ Enabled(id)
    /\ view[id] # NoEntry
    /\ forms[id].runId = currentRun
    /\ Send(id, "remove", forms[id].base, forms[id].seen, FALSE)

\* The notice with its two buttons, and the server's values beside the draft.
Noticed(id) ==
    /\ forms[id] # NoForm
    /\ forms[id].attention \notin {"none", "removed"}
    /\ ~forms[id].pending
    /\ view[id] # NoEntry
    /\ Rendered(id)

reloadServerValues(id) ==
    /\ Noticed(id)
    /\ forms' = [forms EXCEPT ![id] = fillFromServer(view[id])]
    /\ UNCHANGED <<service, host, poll, view, calls, create, post, sent>>

reapplyDraft(id) ==
    /\ Noticed(id)
    /\ currentRun # NoRun
    /\ forms' = [forms EXCEPT ![id].runId = known, ![id].base = view[id].rev,
                              ![id].seen = Seen(view[id]), ![id].attention = "none",
                              ![id].written = IF forms[id].dirty THEN known ELSE @]
    /\ UNCHANGED <<service, host, poll, view, calls, create, post, sent>>

\* Bound: one new form at a time.
AddStation ==
    /\ create = NoForm
    /\ post = NoCall
    /\ currentRun # NoRun
    /\ create' = [dirty |-> FALSE, pending |-> FALSE, written |-> NoRun]
    /\ UNCHANGED <<service, host, poll, view, forms, calls, post, sent>>

TypeNew ==
    /\ create # NoForm
    /\ ~create.dirty
    /\ create' = [create EXCEPT !.dirty = TRUE, !.written = known]
    /\ UNCHANGED <<service, host, poll, view, forms, calls, post, sent>>

\* An empty form does not parse.
submitNew(id) ==
    /\ create # NoForm
    /\ create.dirty
    /\ ~create.pending
    /\ currentRun # NoRun
    /\ sent < MaxCommands
    /\ sent' = sent + 1
    /\ create' = [create EXCEPT !.pending = TRUE]
    /\ post' = IF Renderable
                  THEN [kind |-> "add", id |-> id, run |-> currentRun, outcome |-> "none"]
                  ELSE post
    /\ UNCHANGED <<service, host, poll, view, forms, calls>>

\* Discarding does not wait for a command.
Discard ==
    /\ create # NoForm
    /\ create' = NoForm
    /\ UNCHANGED <<service, host, poll, view, forms, calls, post, sent>>

-------------------------------------------------------------------------------
(***************************************************************************)
(* Commands on their way, and their outcomes.                              *)
(***************************************************************************)

ServeCall(id) ==
    /\ Sent(calls[id])
    /\ Serve(calls[id])
    /\ calls' = [calls EXCEPT ![id].outcome = Verdict(calls[id])]
    /\ UNCHANGED <<host, poll, view, forms, create, post, sent>>

ServePost ==
    /\ Sent(post)
    /\ Serve(post)
    /\ post' = [post EXCEPT !.outcome = Verdict(post)]
    /\ UNCHANGED <<host, poll, view, forms, calls, create, sent>>

\* A timeout or a failed request, before or after the command was applied, or
\* a refusal of another kind: the registry is full, the service is stopping.
LoseCall(id) ==
    /\ calls[id] # NoCall
    /\ calls' = [calls EXCEPT ![id].outcome = "failed"]
    /\ UNCHANGED <<service, host, poll, view, forms, create, post, sent>>

LosePost ==
    /\ post # NoCall
    /\ post' = [post EXCEPT !.outcome = "failed"]
    /\ UNCHANGED <<service, host, poll, view, forms, calls, create, sent>>

\* The view and the form after an accepted update.  A station that the view has
\* lost in the meantime comes back without coverage.
Acknowledged(id) ==
    LET c     == calls[id]
        entry == [run |-> c.run, rev |-> c.rev + 1, late |-> c.run # known,
                  covered |-> view[id] # NoEntry /\ view[id].covered]
    IN  /\ view' = [view EXCEPT ![id] = entry]
        /\ forms' = [forms EXCEPT ![id] = IF view[id] # NoEntry THEN fillFromServer(entry)
                                          ELSE [@ EXCEPT !.pending = FALSE, !.newer = FALSE]]

\* What an outcome makes of the form: only a revision conflict flags it.
Finish(id) ==
    CASE calls[id].outcome = "ok" /\ calls[id].kind = "update" -> Acknowledged(id)
      [] calls[id].outcome = "ok" /\ calls[id].kind = "remove" ->
             /\ view' = [view EXCEPT ![id] = NoEntry]
             /\ forms' = [forms EXCEPT ![id] = NoForm]
      [] calls[id].outcome = "conflict" ->
             /\ forms' = [forms EXCEPT ![id].pending = FALSE, ![id].newer = FALSE,
                                       ![id].attention = "conflict"]
             /\ UNCHANGED view
      [] OTHER ->
             /\ forms' = [forms EXCEPT ![id].pending = FALSE, ![id].newer = FALSE]
             /\ UNCHANGED view

\* send after the await.
DeliverCall(id) ==
    /\ Done(calls[id])
    /\ Finish(id)
    /\ calls' = [calls EXCEPT ![id] = NoCall]
    /\ refreshNow
    /\ UNCHANGED <<service, host, create, post, sent>>

\* A form that was discarded in the meantime is not missed.
DeliverPost ==
    /\ Done(post)
    /\ post' = NoCall
    /\ create' = IF create = NoForm \/ post.outcome = "ok" THEN NoForm
                 ELSE [create EXCEPT !.pending = FALSE]
    /\ refreshNow
    /\ UNCHANGED <<service, host, view, forms, calls, sent>>
===============================================================================
