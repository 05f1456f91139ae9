----------------------------- MODULE HistoryReader ----------------------------
(***************************************************************************)
(* Paging through a station's reception history, end to end: the page an   *)
(* engine cuts out of a ring that keeps evicting (reception_query.go), the *)
(* display's verdict on it (validate.go), and the inspector that merges    *)
(* pages into rows (inspector.js) while its user changes station, other    *)
(* clients remove stations and the simulator restarts.                     *)
(*                                                                         *)
(* A reception is its sequence.  Runs are numbered in the order they were  *)
(* started in.                                                             *)
(***************************************************************************)
EXTENDS Integers, Sequences, FiniteSets, SequencesExt

CONSTANTS
    StationIds,
    RetentionLimit,  \* ReceptionHistoryLimit
    PageSize,        \* config.historyPageSize
    MaxRecords,      \* config.maxHistoryRecords
    MaxGapRows,      \* MAX_GAP_ROWS
    Calls,           \* bound: requests under way at the same time
    NoCall,          \* an unused request
    NoHistory,       \* no history is loaded
    MaxRun,          \* bound: runs of the simulator
    MaxSequence,     \* bound: receptions of a station
    MaxGeneration    \* bound: what the user does

\* validateSettings: a page fits into the rows the browser keeps.
ASSUME ReaderConstants ==
    /\ {RetentionLimit, PageSize, MaxRecords, MaxGapRows, MaxRun} \subseteq Nat \ {0}
    /\ {MaxSequence, MaxGeneration} \subseteq Nat
    /\ PageSize <= MaxRecords

VARIABLES
    \* the simulator
    run,         \* the current run
    last,        \* per station, its latest reception sequence
    gone,        \* stations removed from a run, or never part of it
    \* the inspector, and what its page knows
    known,       \* host.currentRun()
    generation,
    pending,     \* a request of this generation is under way
    history,     \* state.history
    \* requests between the inspector and the display
    calls

simulator == <<run, last, gone>>
inspector == <<generation, pending, history>>
vars == <<simulator, known, inspector, calls>>

NoRun == 0

\* A cursor names the station and the run it was returned for; the station is
\* always that of the request.  NoCursor is null.
NoCursor == [run |-> NoRun, after |-> 0]
Cursors  == [run : 0 .. MaxRun, after : 0 .. MaxSequence]

Sequences == 0 .. MaxSequence

Pages == [run : 1 .. MaxRun, station : StationIds, records : Seq(Sequences),
          oldest : Sequences, latest : Sequences, next : Cursors, gap : BOOLEAN, more : BOOLEAN]

\* What a request ended with, by the code of its error.
Failures == {"failed", "conflict", "not_found", "invalid"}
Replies  == [kind : {"none"} \cup Failures] \cup [kind : {"page"}, page : Pages]

Unanswered == [kind |-> "none"]

\* A request of the inspector, and what it ended with.
Requests == [gen : 1 .. MaxGeneration, station : StationIds, cursor : Cursors, reply : Replies]

ASSUME NothingIsAsked == NoCall \notin Requests

\* One row of the inspector: a gap marker or a record.
Rows == [gap : BOOLEAN, run : 1 .. MaxRun, seq : Sequences]

Histories == [run : 1 .. MaxRun, station : StationIds, rows : Seq(Rows), trimmed : Nat,
              cursor : Cursors, more : BOOLEAN, firstOldest : Sequences \cup {-1},
              removed : BOOLEAN, resetRequired : BOOLEAN]

ASSUME NothingIsLoaded == NoHistory \notin Histories

TypeOK ==
    /\ run \in 1 .. MaxRun
    /\ last \in [StationIds -> Sequences]
    /\ gone \subseteq (1 .. MaxRun) \X StationIds
    /\ known \in 0 .. MaxRun
    /\ generation \in 0 .. MaxGeneration
    /\ pending \in BOOLEAN
    /\ history \in Histories \cup {NoHistory}
    /\ calls \in [Calls -> Requests \cup {NoCall}]

Present(id) == <<run, id>> \notin gone

Init ==
    /\ run = 1
    /\ last = [id \in StationIds |-> 0]
    /\ gone = {}
    /\ known = NoRun
    /\ generation = 0
    /\ pending = FALSE
    /\ history = NoHistory
    /\ calls = [c \in Calls |-> NoCall]

-------------------------------------------------------------------------------
(***************************************************************************)
(* The simulator, and the page learning of its run.                        *)
(***************************************************************************)

Receive(id) ==
    /\ Present(id)
    /\ last[id] < MaxSequence
    /\ last' = [last EXCEPT ![id] = @ + 1]
    /\ UNCHANGED <<run, gone, known, inspector, calls>>

RemoveStation(id) ==
    /\ Present(id)
    /\ gone' = gone \cup {<<run, id>>}
    /\ UNCHANGED <<run, last, known, inspector, calls>>

\* A fresh run starts from nothing, with some of the stations.
Restart ==
    /\ run < MaxRun
    /\ run' = run + 1
    /\ last' = [id \in StationIds |-> 0]
    /\ \E missing \in SUBSET StationIds : gone' = gone \cup {<<run + 1, id>> : id \in missing}
    /\ UNCHANGED <<known, inspector, calls>>

-------------------------------------------------------------------------------
(***************************************************************************)
(* The engine's page and the display's verdict.                            *)
(***************************************************************************)

Least(a, b) == IF a <= b THEN a ELSE b

\* records and bounds of a station's ring.
Retained(n) ==
    [i \in 1 .. Least(n, RetentionLimit) |-> n - Least(n, RetentionLimit) + i]

Oldest(n) == IF n = 0 THEN 0 ELSE Retained(n)[1]

\* What ReceptionHistory refuses, in the order of the code.
Refuses(request) ==
    IF request.cursor.run \notin {NoRun, run} THEN "conflict"
    ELSE IF ~Present(request.station) THEN "not_found"
    ELSE IF request.cursor.after > last[request.station] THEN "invalid"
    ELSE "none"

\* Mutant: a cursor on the last evicted reception counts as a gap.
IsGapInclusive(cursor, oldest) == cursor # NoCursor /\ oldest > 0 /\ cursor.after <= oldest - 1

\* Receptions after the caller's cursor were evicted.
IsGap(cursor, oldest) == cursor # NoCursor /\ oldest > 0 /\ cursor.after < oldest - 1

\* How many of the records the cursor has passed: where the loop over them ends.
Passed(records, after) ==
    CHOOSE start \in 0 .. Len(records) :
        /\ \A i \in 1 .. start : records[i] <= after
        /\ start < Len(records) => records[start + 1] > after

\* The oldest retained receptions after the cursor, at most a page of them.
Cut(request) ==
    LET n        == last[request.station]
        after    == request.cursor.after
        retained == Retained(n)
        start    == Passed(retained, after)
        end      == Least(start + PageSize, Len(retained))
        records  == SubSeq(retained, start + 1, end)
    IN  [run |-> run, station |-> request.station, records |-> records,
         oldest |-> Oldest(n), latest |-> n,
         next |-> [run |-> run, after |-> IF records = <<>> THEN after ELSE Last(records)],
         gap |-> IsGap(request.cursor, Oldest(n)), more |-> end < Len(retained)]

\* validatePageCursor.  The display decides for itself what a gap is.
AcceptsCursor(request, page) ==
    /\ page.next.run = page.run
    /\ page.next.after = IF page.records = <<>> THEN request.cursor.after ELSE Last(page.records)
    /\ page.records = <<>> => ~page.more
    /\ page.gap = (request.cursor # NoCursor /\ page.oldest > 0
                    /\ request.cursor.after < page.oldest - 1)

\* validatePage.
AcceptsPage(request, page) ==
    /\ page.station = request.station
    /\ request.cursor.run \in {NoRun, page.run}
    /\ Len(page.records) <= PageSize
    /\ page.oldest <= page.latest
    /\ \A i \in DOMAIN page.records :
          /\ page.records[i] \in page.oldest .. page.latest
          /\ page.records[i] > 0
          /\ i > 1 => page.records[i] = page.records[i - 1] + 1
    /\ AcceptsCursor(request, page)

\* The display passes the request on, and a page only if it accepts it; a page
\* it rejects is an invalid payload.
Reply(request) ==
    IF Refuses(request) # "none" THEN [kind |-> Refuses(request)]
    ELSE IF AcceptsPage(request, Cut(request)) THEN [kind |-> "page", page |-> Cut(request)]
    ELSE [kind |-> "invalid"]

Serve(c) ==
    /\ calls[c] # NoCall
    /\ calls[c].reply = Unanswered
    /\ calls' = [calls EXCEPT ![c].reply = Reply(calls[c])]
    /\ UNCHANGED <<simulator, known, inspector>>

\* A timeout, a lost response or an unreachable display or simulator.
Fail(c) ==
    /\ calls[c] # NoCall
    /\ calls[c].reply.kind # "failed"
    /\ calls' = [calls EXCEPT ![c].reply = [kind |-> "failed"]]
    /\ UNCHANGED <<simulator, known, inspector>>

-------------------------------------------------------------------------------
(***************************************************************************)
(* The inspector.                                                          *)
(***************************************************************************)

Record(page, s) == [gap |-> FALSE, run |-> page.run, seq |-> s]
Gap(page)       == [gap |-> TRUE, run |-> page.run, seq |-> page.oldest]

\* The elements of a sequence at some of its positions, in order: what filter
\* leaves of an array.
Filtered(s, I) ==
    [k \in 1 .. Cardinality(I) |->
        s[CHOOSE i \in I : Cardinality({j \in I : j <= i}) = k]]

RecordRows(rows) == {i \in DOMAIN rows : ~rows[i].gap}
GapRows(rows)    == {i \in DOMAIN rows : rows[i].gap}

Records(rows) == Filtered(rows, RecordRows(rows))
Gaps(rows)    == Filtered(rows, GapRows(rows))

\* The records of a page that are not loaded yet.
Added(h, page) ==
    LET loaded == {h.rows[i].seq : i \in RecordRows(h.rows)} IN
    Filtered(page.records, {i \in DOMAIN page.records : page.records[i] \notin loaded})

emptyHistory(id) ==
    [run |-> known, station |-> id, rows |-> <<>>, trimmed |-> 0, cursor |-> NoCursor,
     more |-> FALSE, firstOldest |-> -1, removed |-> FALSE, resetRequired |-> FALSE]

\* The rows with a page's marker, if it has a gap, and its new records.
Appended(h, page) ==
    h.rows \o (IF page.gap THEN <<Gap(page)>> ELSE <<>>)
           \o [i \in DOMAIN Added(h, page) |-> Record(page, Added(h, page)[i])]

Excess(rows) == IF Len(Records(rows)) > MaxRecords THEN Len(Records(rows)) - MaxRecords ELSE 0

\* The oldest records beyond the bound go, the markers stay.
Trim(rows) ==
    LET dropped == {Records(rows)[i].seq : i \in 1 .. Excess(rows)}
    IN  Filtered(rows, {i \in DOMAIN rows : rows[i].gap \/ rows[i].seq \notin dropped})

OldestGap(rows) == CHOOSE i \in GapRows(rows) : \A j \in GapRows(rows) : i <= j

\* Mutant: the newest marker goes.
BoundGapsAtEnd(rows) ==
    LET newest == CHOOSE i \in GapRows(rows) : \A j \in GapRows(rows) : j <= i
    IN  IF Len(Gaps(rows)) > MaxGapRows THEN Filtered(rows, DOMAIN rows \ {newest}) ELSE rows

\* One marker too many: the oldest goes.
BoundGaps(rows) ==
    IF Len(Gaps(rows)) > MaxGapRows THEN Filtered(rows, DOMAIN rows \ {OldestGap(rows)}) ELSE rows

\* Mutant: counts what the last page trimmed.
mergeForgettingTrimmed(h, page) ==
    LET rows == Appended(h, page) IN
    [h EXCEPT !.rows = BoundGaps(Trim(rows)),
              !.trimmed = Excess(rows),
              !.cursor = page.next,
              !.more = page.more,
              !.firstOldest = IF @ = -1 THEN page.oldest ELSE @]

mergePage(h, page) ==
    LET rows == Appended(h, page) IN
    [h EXCEPT !.rows = BoundGaps(Trim(rows)),
              !.trimmed = @ + Excess(rows),
              !.cursor = page.next,
              !.more = page.more,
              !.firstOldest = IF @ = -1 THEN page.oldest ELSE @]

\* loadPage: one more request, of a new generation.
Send(id, cursor) ==
    /\ generation < MaxGeneration
    /\ generation' = generation + 1
    /\ pending' = TRUE
    /\ \E c \in Calls :
          /\ calls[c] = NoCall
          /\ calls' = [calls EXCEPT ![c] = [gen |-> generation', station |-> id,
                                            cursor |-> cursor, reply |-> Unanswered]]

invalidateHistory ==
    /\ generation' = generation + 1
    /\ pending' = FALSE

\* Load, for a station the selector offers.  The selector may be out of date.
Load(id) ==
    /\ ~pending
    /\ known # NoRun
    /\ history' = emptyHistory(id)
    /\ Send(id, NoCursor)
    /\ UNCHANGED <<simulator, known>>

\* Next page, with the cursor as it was returned.
NextPage ==
    /\ ~pending
    /\ history # NoHistory
    /\ history.more
    /\ ~history.removed
    /\ ~history.resetRequired
    /\ Send(history.station, history.cursor)
    /\ UNCHANGED <<simulator, known, history>>

\* The selected station changes; Reset does the same when nothing is pending.
Discard ==
    /\ generation < MaxGeneration
    /\ invalidateHistory
    /\ history' = NoHistory
    /\ UNCHANGED <<simulator, known, calls>>

\* The page adopts a run that some answer named, not always the latest one.  A
\* change of run clears the inspector.
Adopt(r) ==
    /\ r # known
    /\ known' = r
    /\ IF known = NoRun
          THEN UNCHANGED inspector
          ELSE /\ generation < MaxGeneration
               /\ invalidateHistory
               /\ history' = NoHistory
    /\ UNCHANGED <<simulator, calls>>

\* A catalog of the history's run does not list its station any more.
Unlisted ==
    /\ history # NoHistory
    /\ ~history.removed
    /\ <<history.run, history.station>> \in gone
    /\ history' = [history EXCEPT !.removed = TRUE]
    /\ UNCHANGED <<simulator, known, generation, pending, calls>>

\* What an answer makes of the history.  A page of another run, like a cursor
\* of another run, asks for a reset; other failures can be retried.
Outcome(reply) ==
    CASE reply.kind = "page" ->
             IF reply.page.run = history.run THEN mergePage(history, reply.page)
             ELSE [history EXCEPT !.resetRequired = TRUE]
      [] reply.kind = "conflict"  -> [history EXCEPT !.resetRequired = TRUE]
      [] reply.kind = "not_found" -> [history EXCEPT !.removed = TRUE]
      [] OTHER                    -> history

\* Mutant: only a page ends what is pending.
DeliverKeepingPending(c) ==
    /\ calls[c] # NoCall
    /\ calls[c].reply # Unanswered
    /\ calls' = [calls EXCEPT ![c] = NoCall]
    /\ IF calls[c].gen = generation
          THEN /\ pending' = (calls[c].reply.kind # "page")
               /\ history' = Outcome(calls[c].reply)
          ELSE UNCHANGED <<pending, history>>
    /\ UNCHANGED <<simulator, known, generation>>

\* The rest of loadPage: an answer to an earlier generation is ignored.
Deliver(c) ==
    /\ calls[c] # NoCall
    /\ calls[c].reply # Unanswered
    /\ calls' = [calls EXCEPT ![c] = NoCall]
    /\ IF calls[c].gen = generation
          THEN /\ pending' = FALSE
               /\ history' = Outcome(calls[c].reply)
          ELSE UNCHANGED <<pending, history>>
    /\ UNCHANGED <<simulator, known, generation>>

-------------------------------------------------------------------------------
Next ==
    \/ \E id \in StationIds : Receive(id) \/ RemoveStation(id) \/ Load(id)
    \/ Restart
    \/ \E c \in Calls : Serve(c) \/ Fail(c) \/ Deliver(c)
    \/ NextPage
    \/ Discard
    \/ \E r \in 1 .. run : Adopt(r)
    \/ Unlisted

Spec == Init /\ [][Next]_vars

-------------------------------------------------------------------------------
(***************************************************************************)
(* Properties.                                                             *)
(***************************************************************************)

\* Two records that are shown one below the other are consecutive receptions:
\* whatever was evicted, trimmed, retried or answered late in between, a reader
\* is told of every hole.  (No marker between them is dropped while MaxGapRows is
\* at least MaxRecords - 1.)
NoSilentSkip ==
    history # NoHistory =>
        \A i \in 1 .. Len(history.rows) - 1 :
            ~history.rows[i].gap /\ ~history.rows[i + 1].gap =>
                history.rows[i + 1].seq = history.rows[i].seq + 1

\* The notes above the rows account for what is missing at their top: receptions
\* before firstOldest were never offered, the next ones were trimmed.
MissingIsAccounted ==
    history # NoHistory /\ Records(history.rows) # <<>> =>
        /\ history.cursor.after = Last(Records(history.rows)).seq
        /\ Gaps(history.rows) = <<>> =>
               Records(history.rows)[1].seq = history.firstOldest + history.trimmed

\* inspector.js: "new-run records are never appended to old history", nor is a
\* history kept whose run the page has left.
OneRunPerHistory ==
    history # NoHistory =>
        /\ history.run = known
        /\ \A i \in DOMAIN history.rows : history.rows[i].run = history.run

\* inspector.js: "one history request is active at a time".  The buttons wait
\* exactly for the one request whose answer will be used.
OneCurrentRequest ==
    LET current == {c \in Calls : calls[c] # NoCall /\ calls[c].gen = generation}
    IN  IF pending THEN \E c \in Calls : current = {c} ELSE current = {}

\* The inspector's own state: well typed, of one run, and pending for one request.
InspectorInv == TypeOK /\ OneRunPerHistory /\ OneCurrentRequest

\* The engine, the display and the inspector agree on the protocol: no cursor
\* that the inspector sends is beyond what the station received, and no page
\* that the engine cuts is rejected by the display.
ProtocolAgrees == \A c \in Calls : calls[c] # NoCall => calls[c].reply.kind # "invalid"
===============================================================================
