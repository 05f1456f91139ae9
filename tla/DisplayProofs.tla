----------------------------- MODULE DisplayProofs ----------------------------
(***************************************************************************)
(* Proofs about Display, for every set of clients, stations and selections *)
(* and every value of the bounds.                                          *)
(***************************************************************************)
EXTENDS Display, TLAPS

\* The fields of a snapshot of the source.
LEMMA ShownFields ==
    ASSUME NEW x \in Shown
    PROVE  /\ x.run \in 1 .. MaxRun
           /\ x.now \in 0 .. MaxNow
           /\ x.selection \in Selections
           /\ x.selection \subseteq StationIds
           /\ x.latest \in [x.selection -> 0 .. MaxSequence]
  BY DisplayConstants DEF Shown

\* What the source answers is of its current run and not ahead of it.
LEMMA CapturedFacts ==
    ASSUME NEW S, NEW x \in Captured(S)
    PROVE  x \in Shown /\ x.run = run /\ x.selection = S /\ Earlier(x)
  <1>1. /\ x \in Shown /\ x.run = run /\ x.selection = S /\ x.now <= now
        /\ \A s \in S : x.latest[s] <= latest[s]
    BY DEF Captured
  <1>2. x.run \in 1 .. MaxRun
    BY <1>1, ShownFields
  <1> QED
    BY <1>1, <1>2 DEF Earlier

-------------------------------------------------------------------------------
(***************************************************************************)
(* The inductive invariant.                                                *)
(***************************************************************************)

\* The display that New builds satisfies the invariant.
LEMMA InitIInv ==
    ASSUME Init
    PROVE  IInv
  <1> USE DisplayConstants DEF Init
  <1>1. TypeOK
    BY DEF TypeOK, Blank, Unanswered, NoAnswer, NoRequest, NoRun, Answers
  <1>2. Gated
    BY DEF Gated, Admitted
  <1>3. Held
    BY DEF Held, Blank, NoRun
  <1>4. Answered
    BY DEF Answered, NoAnswer
  <1>5. Replied /\ FreshIsSuccess
    BY DEF Replied, FreshIsSuccess, Blank, Unanswered
  <1> QED
    BY <1>1, <1>2, <1>3, <1>4, <1>5 DEF IInv

\* What the source could have answered stays so: virtual time advances, or
\* everything known becomes of an earlier run.
LEMMA SourceMovesOn ==
    ASSUME TypeOK, Advance \/ Restart
    PROVE  /\ run' \in run .. MaxRun
           /\ now' \in 0 .. MaxNow
           /\ latest' \in [StationIds -> 0 .. MaxSequence]
           /\ \A x \in Shown : Earlier(x) =>
                 /\ x.run <= run'
                 /\ x.run = run' => x.now <= now' /\ \A s \in x.selection : x.latest[s] <= latest'[s]
           /\ UNCHANGED <<state, gate, pc, request, answer, reply, seen, published>>
  <1> USE DisplayConstants
  <1>1. run \in 1 .. MaxRun /\ now \in 0 .. MaxNow /\ latest \in [StationIds -> 0 .. MaxSequence]
    BY DEF TypeOK
  <1>2. CASE Advance
    <2>1. PICK heard \in SUBSET {s \in StationIds : latest[s] < MaxSequence} :
              latest' = [s \in StationIds |-> IF s \in heard THEN latest[s] + 1 ELSE latest[s]]
      BY <1>2 DEF Advance
    <2>2. /\ now' = now + 1 /\ now' \in 0 .. MaxNow /\ run' = run
          /\ latest' \in [StationIds -> 0 .. MaxSequence]
          /\ \A s \in StationIds : latest[s] <= latest'[s]
      BY <1>1, <1>2, <2>1 DEF Advance
    <2>3. ASSUME NEW x \in Shown, Earlier(x), x.run = run
          PROVE  x.now <= now' /\ \A s \in x.selection : x.latest[s] <= latest'[s]
      <3>1. x.now \in Nat /\ x.selection \subseteq StationIds /\ x.latest \in [x.selection -> 0 .. MaxSequence]
        BY ShownFields
      <3> QED
        BY <1>1, <2>2, <2>3, <3>1 DEF Earlier
    <2> QED
      BY <1>1, <1>2, <2>2, <2>3 DEF Advance, Earlier
  <1>3. CASE Restart
    <2>1. /\ run' = run + 1 /\ run' \in 1 .. MaxRun
          /\ now' = 0 /\ latest' = [s \in StationIds |-> 0]
      BY <1>1, <1>3 DEF Restart
    <2>2. ASSUME NEW x \in Shown, Earlier(x) PROVE x.run < run'
      BY <1>1, <2>1, <2>2, ShownFields DEF Earlier
    <2> QED
      BY <1>1, <1>3, <2>1, <2>2, ShownFields DEF Restart
  <1> QED
    BY <1>2, <1>3

\* The simulator disturbs nothing the display holds.
LEMMA SourceKeepsIInv ==
    ASSUME IInv, Advance \/ Restart
    PROVE  IInv'
  <1> USE DisplayConstants DEF IInv
  <1>1. /\ run' \in run .. MaxRun
        /\ now' \in 0 .. MaxNow
        /\ latest' \in [StationIds -> 0 .. MaxSequence]
        /\ UNCHANGED <<state, gate, pc, request, answer, reply, seen, published>>
    BY SourceMovesOn
  <1>2. run \in 1 .. MaxRun /\ seen \in 0 .. MaxRun
    BY DEF TypeOK
  <1>3. TypeOK'
    <2>1. run' \in 1 .. MaxRun
      BY <1>1, <1>2
    <2> QED
      BY <1>1, <2>1 DEF TypeOK
  <1>4. Held'
    <2>1. ASSUME published # Nothing PROVE Earlier(published)'
      <3>1. published \in Shown /\ Earlier(published)
        BY <2>1 DEF TypeOK, Held
      <3> QED
        BY <1>1, <3>1, SourceMovesOn DEF Earlier
    <2>2. seen <= run'
      BY <1>1, <1>2 DEF Held
    <2> QED
      BY <1>1, <2>1, <2>2 DEF Held
  <1>5. Answered'
    <2>1. ASSUME NEW p \in Clients, answer[p].shown # Nothing
          PROVE  Earlier(answer[p].shown)'
      <3>1. answer[p].shown \in Shown /\ Earlier(answer[p].shown)
        BY <2>1 DEF TypeOK, Answers, NoAnswer, Answered
      <3> QED
        BY <1>1, <3>1, SourceMovesOn DEF Earlier
    <2>2. \A p \in Clients : answer[p].run \in seen .. run => answer[p].run \in seen .. run'
      BY <1>1, <1>2
    <2> QED
      BY <1>1, <2>1, <2>2 DEF Answered
  <1>6. Gated' /\ Replied' /\ FreshIsSuccess'
    BY <1>1 DEF Gated, Replied, FreshIsSuccess
  <1> QED
    BY <1>3, <1>4, <1>5, <1>6

\* Asking, being refused and being admitted touch nothing that is published.
LEMMA ClientsKeepIInv ==
    ASSUME IInv, NEW p \in Clients, Call(p) \/ Refuse(p) \/ admit(p)
    PROVE  IInv'
  <1> USE DisplayConstants DEF IInv
  <1>1. UNCHANGED <<run, now, latest, state, answer, seen, published>>
    BY DEF Call, Refuse, admit, source
  <1>2. /\ \E to : pc' = [pc EXCEPT ![p] = to] /\ to \in {"idle", "waiting", "asking"}
        /\ pc[p] \in {"idle", "waiting"}
    BY DEF Call, Refuse, admit
  <1>3. TypeOK'
    <2>1. reply' \in [Clients -> [status : {"unavailable", "fresh", "stale"},
                                  shown : Shown \cup {Nothing}, failed : BOOLEAN]]
      <3>1. PICK r : /\ r \in {reply[p], Unanswered, Refused}
                     /\ reply' = [reply EXCEPT ![p] = r]
        BY DEF Call, Refuse, admit, TypeOK
      <3> DEFINE Replies == [status : {"unavailable", "fresh", "stale"},
                             shown : Shown \cup {Nothing}, failed : BOOLEAN]
      <3>2. Unanswered \in Replies
        BY Zenon DEF Unanswered
      <3>3. Refused \in Replies
        BY Zenon DEF Refused
      <3>4. reply \in [Clients -> Replies]
        BY DEF TypeOK
      <3> HIDE DEF Replies
      <3>5. reply' \in [Clients -> Replies]
        BY <3>1, <3>2, <3>3, <3>4
      <3> QED
        BY <3>5 DEF Replies
    <2>2. request' \in [Clients -> Requests \cup {NoRequest}] /\ gate' \in BOOLEAN
      <3>1. CASE Call(p)
        <4>1. PICK r \in Requests : request' = [request EXCEPT ![p] = r]
          BY <3>1 DEF Call
        <4> QED
          BY <3>1, <4>1 DEF Call, TypeOK
      <3>2. CASE Refuse(p) \/ admit(p)
        BY <3>2 DEF Refuse, admit, TypeOK
      <3> QED
        BY <3>1, <3>2
    <2>3. pc' \in [Clients -> {"idle", "waiting", "asking", "identify", "conclude"}]
      BY <1>2 DEF TypeOK
    <2> QED
      BY <1>1, <2>1, <2>2, <2>3 DEF TypeOK
  <1>4. Gated'
    <2>1. CASE Call(p) \/ Refuse(p)
      BY <2>1 DEF Call, Refuse, Gated, Admitted, TypeOK
    <2>2. CASE admit(p)
      BY <2>2 DEF admit, Gated, Admitted, TypeOK
    <2> QED
      BY <2>1, <2>2
  <1>5. Held'
    BY <1>1 DEF Held, Earlier
  <1>6. Answered'
    <2>1. answer[p] = NoAnswer
      BY <1>2 DEF Answered
    <2>2. \A q \in Clients : q # p => request'[q] = request[q] /\ pc'[q] = pc[q]
      BY <1>2 DEF Call, Refuse, admit, TypeOK
    <2>3. pc'[p] \notin {"identify", "conclude"}
      BY <1>2 DEF TypeOK
    <2> QED
      BY <1>1, <2>1, <2>2, <2>3 DEF Answered, NoAnswer, Earlier
  <1>7. Replied'
    <2>1. CASE Call(p) \/ Refuse(p)
      <3>1. reply'[p].shown = Nothing
        BY <2>1 DEF Call, Refuse, Unanswered, Refused, TypeOK
      <3>2. \A q \in Clients : q # p => /\ reply'[q] = reply[q]
                                        /\ request'[q] = request[q]
                                        /\ pc'[q] = pc[q]
        BY <2>1 DEF Call, Refuse, TypeOK
      <3> QED
        BY <3>1, <3>2 DEF Replied
    <2>2. CASE admit(p)
      BY <2>2 DEF admit, Replied, TypeOK
    <2> QED
      BY <2>1, <2>2
  <1>8. FreshIsSuccess'
    <2>1. CASE Call(p) \/ Refuse(p)
      <3>1. \A q \in Clients : \/ reply'[q] = reply[q]
                               \/ reply'[q].status = "unavailable"
        BY <2>1 DEF Call, Refuse, Unanswered, Refused, TypeOK
      <3> QED
        BY <1>1, <3>1 DEF FreshIsSuccess
    <2>2. CASE admit(p)
      BY <2>2 DEF admit, FreshIsSuccess
    <2> QED
      BY <2>1, <2>2
  <1> QED
    BY <1>3, <1>4, <1>5, <1>6, <1>7, <1>8

\* An answer names no run, or the run under way.
LEMMA AnswerKeepsIInv ==
    ASSUME IInv, NEW p \in Clients, Answer(p)
    PROVE  IInv'
  <1> USE DisplayConstants DEF IInv
  <1>1. /\ pc[p] = "asking"
        /\ pc' = [pc EXCEPT ![p] = "identify"]
        /\ UNCHANGED <<run, now, latest, state, gate, request, reply, seen, published>>
    BY DEF Answer, source
  <1> DEFINE Answering(a) ==
                 /\ a \in Answers
                 /\ a.run \in {NoRun, run}
                 /\ a.shown # Nothing => /\ a.run = a.shown.run
                                         /\ a.shown.selection = request[p].selection
                                         /\ Earlier(a.shown)
  <1>2. \E a : Answering(a) /\ answer' = [answer EXCEPT ![p] = a]
    <2>1. run \in 0 .. MaxRun
      BY DEF TypeOK
    <2>2. ASSUME NEW known \in {NoRun, run},
                 answer' = [answer EXCEPT ![p] = [run |-> known, shown |-> Nothing]]
          PROVE  \E a : Answering(a) /\ answer' = [answer EXCEPT ![p] = a]
      <3>1. Answering([run |-> known, shown |-> Nothing])
        BY <2>1 DEF Answers, NoRun
      <3> HIDE DEF Answering
      <3> QED
        BY <2>2, <3>1
    <2>3. ASSUME request[p].kind = "refresh", NEW x \in Captured(request[p].selection),
                 answer' = [answer EXCEPT ![p] = [run |-> run, shown |-> x]]
          PROVE  \E a : Answering(a) /\ answer' = [answer EXCEPT ![p] = a]
      <3>1. x \in Shown /\ x.run = run /\ x.selection = request[p].selection /\ Earlier(x)
        BY CapturedFacts
      <3>2. Answering([run |-> run, shown |-> x])
        BY <2>1, <2>3, <3>1 DEF Answers
      <3> HIDE DEF Answering
      <3> QED
        BY <2>3, <3>2
    <2> HIDE DEF Answering
    <2> QED
      BY <2>2, <2>3 DEF Answer
  <1>a. PICK a : Answering(a) /\ answer' = [answer EXCEPT ![p] = a]
    BY <1>2
  <1>3. TypeOK'
    BY <1>1, <1>a DEF TypeOK
  <1>4. Gated'
    BY <1>1 DEF Gated, Admitted, TypeOK
  <1>5. Held'
    BY <1>1 DEF Held, Earlier
  <1>6. Answered'
    <2>1. answer'[p] = a /\ \A q \in Clients : q # p => answer'[q] = answer[q]
      BY <1>a DEF TypeOK
    <2>2. pc'[p] = "identify" /\ \A q \in Clients : q # p => pc'[q] = pc[q]
      BY <1>1 DEF TypeOK
    <2>3. a.run = NoRun \/ a.run \in seen .. run
      BY <1>a DEF Held, TypeOK
    <2> QED
      BY <1>1, <1>a, <2>1, <2>2, <2>3 DEF Answered, Earlier
  <1>7. Replied' /\ FreshIsSuccess'
    BY <1>1 DEF Replied, FreshIsSuccess, TypeOK
  <1> QED
    BY <1>3, <1>4, <1>5, <1>6, <1>7

\* A run that was identified is the latest one, and what is of another is gone.
LEMMA IdentifyKeepsIInv ==
    ASSUME IInv, NEW p \in Clients, Identify(p)
    PROVE  IInv'
  <1> USE DisplayConstants DEF IInv
  <1> DEFINE a == answer[p]
  <1>1. /\ pc[p] = "identify"
        /\ state' = invalidateOnRunChange(p)
        /\ seen' = IF a.run = NoRun THEN seen ELSE a.run
        /\ UNCHANGED <<run, now, latest, request, reply, published>>
    BY DEF Identify, source
  <1>2. \/ /\ pc' = [pc EXCEPT ![p] = "idle"]
           /\ answer' = [answer EXCEPT ![p] = NoAnswer]
           /\ gate' = TRUE
        \/ /\ pc' = [pc EXCEPT ![p] = "conclude"]
           /\ UNCHANGED <<answer, gate>>
    BY DEF Identify
  <1>3. /\ a.run \in 0 .. MaxRun /\ seen \in 0 .. MaxRun /\ run \in 1 .. MaxRun
        /\ a.run = NoRun \/ a.run \in seen .. run
        /\ seen <= run
    BY <1>1 DEF TypeOK, Answers, NoAnswer, NoRun, Answered, Held
  <1>4. seen' \in seen .. run /\ (a.run = NoRun \/ seen' = a.run)
    BY <1>1, <1>3
  <1>5. state' = state \/ state' = Blank
    BY <1>1 DEF invalidateOnRunChange
  <1>6. TypeOK'
    <2>1. answer' \in [Clients -> Answers \cup {NoAnswer}] /\ gate' \in BOOLEAN
          /\ pc' \in [Clients -> {"idle", "waiting", "asking", "identify", "conclude"}]
      BY <1>2 DEF TypeOK
    <2>2. state' \in [status : {"unavailable", "fresh", "stale"}, run : 0 .. MaxRun,
                      shown : Shown \cup {Nothing}, failed : BOOLEAN]
      <3> DEFINE States == [status : {"unavailable", "fresh", "stale"}, run : 0 .. MaxRun,
                            shown : Shown \cup {Nothing}, failed : BOOLEAN]
      <3>1. 0 \in 0 .. MaxRun
        BY <1>3
      <3>2. Blank \in States
        BY <3>1, Zenon DEF Blank, NoRun
      <3>3. state \in States
        BY DEF TypeOK
      <3> QED
        BY <1>5, <3>2, <3>3
    <2>3. seen' \in 0 .. MaxRun
      BY <1>3, <1>4
    <2> QED
      BY <1>1, <2>1, <2>2, <2>3 DEF TypeOK
  <1>7. Gated'
    BY <1>1, <1>2 DEF Gated, Admitted, TypeOK
  <1>8. Held'
    <2>1. /\ state.shown # Nothing => state.shown = published /\ state.shown.run = seen /\ state.run = seen
          /\ state.shown = Nothing => state.run = NoRun
          /\ published # Nothing /\ state.shown = Nothing => published.run < seen
          /\ published # Nothing => published.run \in 1 .. MaxRun
      <3>1. published # Nothing => published \in Shown
        BY DEF TypeOK
      <3> QED
        BY <3>1, ShownFields DEF Held
    <2>2. published # Nothing => Earlier(published)'
      BY <1>1 DEF Held, Earlier
    <2>3. CASE a.run = NoRun \/ state.run \in {NoRun, a.run}
      <3>1. state' = state
        BY <1>1, <2>3 DEF invalidateOnRunChange
      <3>2. state.shown # Nothing => state.run = seen'
        BY <1>1, <1>3, <2>1, <2>3 DEF NoRun
      <3> QED
        BY <1>1, <1>3, <1>4, <2>1, <2>2, <3>1, <3>2 DEF Held
    <2>4. CASE ~(a.run = NoRun \/ state.run \in {NoRun, a.run})
      <3>1. state' = Blank /\ seen' = a.run
        BY <1>1, <2>4 DEF invalidateOnRunChange
      <3>2. state.shown # Nothing /\ published = state.shown /\ published.run = seen /\ seen < seen'
        BY <1>3, <2>1, <2>4, <3>1
      <3> QED
        BY <1>1, <1>3, <1>4, <2>1, <2>2, <3>1, <3>2 DEF Held, Blank
    <2> QED
      BY <2>3, <2>4
  <1>9. Answered'
    <2>1. \A q \in Clients : q # p => pc[q] \notin Admitted /\ answer[q] = NoAnswer
      BY <1>1 DEF Gated, Admitted, Answered
    <2>2. \A q \in Clients : q # p => pc'[q] = pc[q] /\ answer'[q] = answer[q]
      BY <1>2 DEF TypeOK
    <2>3. CASE answer'[p] = NoAnswer /\ pc'[p] = "idle"
      BY <1>1, <2>1, <2>2, <2>3 DEF Answered, Admitted, NoAnswer, Earlier
    <2>4. CASE answer'[p] = answer[p] /\ pc'[p] = "conclude"
      <3>1. a.run \in {NoRun, seen'}
        BY <1>4
      <3> QED
        BY <1>1, <2>1, <2>2, <2>4, <3>1 DEF Answered, Admitted, NoAnswer, Earlier
    <2> QED
      BY <1>2, <2>3, <2>4 DEF TypeOK
  <1>10. Replied'
    BY <1>1, <1>2 DEF Replied, TypeOK
  <1>11. FreshIsSuccess'
    BY <1>1, <1>5 DEF FreshIsSuccess, Blank
  <1> QED
    BY <1>6, <1>7, <1>8, <1>9, <1>10, <1>11

-------------------------------------------------------------------------------
(***************************************************************************)
(* Publishing and failing.                                                 *)
(***************************************************************************)

\* What is accepted is of the run identified, within what the source has, asked
\* for by this client, and no older than what it replaces.
LEMMA AcceptedFacts ==
    ASSUME IInv, NEW p \in Clients, pc[p] = "conclude",
           answer[p].shown # Nothing, checkProgress(answer[p].shown)
    PROVE  LET x == answer[p].shown
           IN  /\ x \in Shown
               /\ x.run = seen
               /\ x.selection = request[p].selection
               /\ published # Nothing => NotOlder(published, x)
  <1> USE DisplayConstants DEF IInv
  <1> DEFINE x == answer[p].shown
  <1>1. x \in Shown
    BY DEF TypeOK, Answers, NoAnswer
  <1>2. x.run \in 1 .. MaxRun
    BY <1>1, ShownFields
  <1>3. x.run = seen /\ x.selection = request[p].selection
    BY <1>2 DEF Answered, NoRun
  <1>4. ASSUME published # Nothing PROVE NotOlder(published, x)
    <2>1. CASE state.shown = Nothing
      BY <1>2, <1>3, <1>4, <2>1 DEF Held, NotOlder
    <2>2. CASE state.shown # Nothing
      <3>1. state.shown = published /\ state.run = x.run /\ published.run = x.run
        BY <1>3, <2>2 DEF Held
      <3>2. /\ x.now >= published.now
            /\ \A s \in x.selection \cap published.selection : x.latest[s] >= published.latest[s]
        BY <2>2, <3>1 DEF checkProgress
      <3> QED
        BY <3>1, <3>2 DEF NotOlder
    <2> QED
      BY <2>1, <2>2
  <1> QED
    BY <1>1, <1>3, <1>4

\* Observations published or a failure recorded leave the invariant standing.
LEMMA ConcludeKeepsIInv ==
    ASSUME IInv, NEW p \in Clients, Conclude(p)
    PROVE  IInv'
  <1> USE DisplayConstants DEF IInv
  <1> DEFINE x == answer[p].shown
             accepted == x # Nothing /\ checkProgress(x)
  <1>1. /\ pc[p] = "conclude"
        /\ state' = IF accepted THEN publish(x) ELSE fail(request[p].selection)
        /\ published' = IF accepted THEN x ELSE published
        /\ reply' = [reply EXCEPT ![p] = snapshotLocked(state')]
        /\ pc' = [pc EXCEPT ![p] = "idle"]
        /\ answer' = [answer EXCEPT ![p] = NoAnswer]
        /\ gate' = TRUE
        /\ UNCHANGED <<run, now, latest, request, seen>>
    BY DEF Conclude, source
  <1>2. ASSUME accepted
        PROVE  /\ x \in Shown /\ x.run = seen /\ x.selection = request[p].selection
               /\ state' = publish(x) /\ published' = x
    BY <1>1, <1>2, AcceptedFacts
  <1>3. ASSUME ~accepted
        PROVE  /\ state'.shown = state.shown /\ state'.run = state.run
               /\ state'.failed = TRUE
               /\ \/ state'.status = "unavailable"
                  \/ /\ state'.status = "stale" /\ state.shown # Nothing
                     /\ state.shown.selection = request[p].selection
               /\ published' = published
    BY <1>1, <1>3 DEF fail, TypeOK
  <1> DEFINE States == [status : {"unavailable", "fresh", "stale"}, run : 0 .. MaxRun,
                        shown : Shown \cup {Nothing}, failed : BOOLEAN]
             Replies == [status : {"unavailable", "fresh", "stale"},
                         shown : Shown \cup {Nothing}, failed : BOOLEAN]
  <1>4. state' \in States
    <2>1. CASE accepted
      <3>1. x.run \in 0 .. MaxRun
        BY <1>2, <2>1, ShownFields
      <3>2. x \in Shown /\ state' = publish(x)
        BY <1>2, <2>1
      <3>3. [status |-> "fresh", run |-> x.run, shown |-> x, failed |-> FALSE] \in States
        BY <3>1, <3>2, Zenon
      <3> QED
        BY <3>2, <3>3 DEF publish
    <2>2. CASE ~accepted
      <3>1. state \in States
        BY DEF TypeOK
      <3>2. PICK st \in {"unavailable", "fresh", "stale"} :
                state' = [state EXCEPT !.failed = TRUE, !.status = st]
        BY <1>1, <2>2 DEF fail
      <3>3. /\ state'.status = st /\ state'.run = state.run /\ state'.shown = state.shown
            /\ state' = [status |-> st, run |-> state.run, shown |-> state.shown, failed |-> TRUE]
        BY <3>1, <3>2
      <3>4. state.run \in 0 .. MaxRun /\ state.shown \in Shown \cup {Nothing}
        BY <3>1
      <3>5. [status |-> st, run |-> state.run, shown |-> state.shown, failed |-> TRUE] \in States
        BY <3>2, <3>4, Zenon
      <3> QED
        BY <3>3, <3>5
    <2> QED
      BY <2>1, <2>2
  <1>5. /\ snapshotLocked(state') \in Replies
        /\ snapshotLocked(state').status = state'.status
        /\ snapshotLocked(state').failed = state'.failed
        /\ snapshotLocked(state').shown
               = IF state'.status = "unavailable" THEN Nothing ELSE state'.shown
    BY <1>4 DEF snapshotLocked
  <1>6. TypeOK'
    <2>1. reply' \in [Clients -> Replies]
      <3>1. reply \in [Clients -> Replies]
        BY DEF TypeOK
      <3> HIDE DEF Replies
      <3> QED
        BY <1>1, <1>5, <3>1
    <2>2. published' \in Shown \cup {Nothing}
      BY <1>2, <1>3 DEF TypeOK
    <2>3. /\ answer' \in [Clients -> Answers \cup {NoAnswer}]
          /\ pc' \in [Clients -> {"idle", "waiting", "asking", "identify", "conclude"}]
          /\ gate' \in BOOLEAN
      BY <1>1 DEF TypeOK
    <2> QED
      BY <1>1, <1>4, <2>1, <2>2, <2>3 DEF TypeOK
  <1>7. Gated'
    BY <1>1 DEF Gated, Admitted, TypeOK
  <1>8. Held'
    <2>1. CASE accepted
      <3>1. state'.shown = x /\ state'.run = seen /\ x # Nothing
        BY <1>2, <2>1 DEF publish
      <3>2. Earlier(x)
        BY <2>1 DEF Answered
      <3> QED
        BY <1>1, <1>2, <2>1, <3>1, <3>2 DEF Held, Earlier
    <2>2. CASE ~accepted
      BY <1>1, <1>3, <2>2 DEF Held, Earlier
    <2> QED
      BY <2>1, <2>2
  <1>9. Answered'
    BY <1>1 DEF Answered, NoAnswer, Gated, Admitted, TypeOK
  <1>10. Replied'
    <2>1. /\ pc'[p] = "idle" /\ reply'[p] = snapshotLocked(state')
          /\ \A q \in Clients : q # p => reply'[q] = reply[q] /\ pc'[q] = pc[q]
      BY <1>1 DEF TypeOK
    <2>2. reply'[p].shown # Nothing => reply'[p].shown.selection = request[p].selection
      <3>1. CASE accepted
        BY <1>2, <1>5, <2>1, <3>1 DEF publish
      <3>2. CASE ~accepted
        BY <1>3, <1>5, <2>1, <3>2
      <3> QED
        BY <3>1, <3>2
    <2> QED
      BY <1>1, <2>1, <2>2 DEF Replied
  <1>11. FreshIsSuccess'
    <2>1. /\ state'.status = "fresh" => state'.shown # Nothing /\ ~state'.failed
          /\ state'.status = "stale" => state'.shown # Nothing /\ state'.failed
      <3>1. CASE accepted
        BY <1>2, <3>1 DEF publish
      <3>2. CASE ~accepted
        BY <1>3, <3>2
      <3> QED
        BY <3>1, <3>2
    <2>2. /\ reply'[p] = snapshotLocked(state')
          /\ \A q \in Clients : q # p => reply'[q] = reply[q]
      BY <1>1 DEF TypeOK
    <2> QED
      BY <1>5, <2>1, <2>2 DEF FreshIsSuccess
  <1> QED
    BY <1>6, <1>7, <1>8, <1>9, <1>10, <1>11

-------------------------------------------------------------------------------
(***************************************************************************)
(* The theorems.                                                           *)
(***************************************************************************)

\* Every reachable state satisfies the inductive invariant: one client at a time
\* is inside, the state held is what was last published or was dropped for a
\* later run, and an answer under way is of no run before the one identified.
THEOREM Invariance == Spec => []IInv
  <1>1. Init => IInv
    BY InitIInv
  <1>2. IInv /\ [Next]_vars => IInv'
    <2> SUFFICES ASSUME IInv, [Next]_vars PROVE IInv'
      OBVIOUS
    <2>1. CASE Advance \/ Restart
      BY <2>1, SourceKeepsIInv
    <2>3. ASSUME NEW p \in Clients, Call(p) \/ Refuse(p) \/ admit(p) PROVE IInv'
      BY <2>3, ClientsKeepIInv
    <2>4. ASSUME NEW p \in Clients, Answer(p) PROVE IInv'
      BY <2>4, AnswerKeepsIInv
    <2>5. ASSUME NEW p \in Clients, Identify(p) PROVE IInv'
      BY <2>5, IdentifyKeepsIInv
    <2>6. ASSUME NEW p \in Clients, Conclude(p) PROVE IInv'
      BY <2>6, ConcludeKeepsIInv
    <2>7. CASE UNCHANGED vars
      BY <2>7 DEF vars, source, IInv, TypeOK, Gated, Held, Earlier, Answered, Replied,
                  FreshIsSuccess
    <2> QED
      BY <2>1, <2>3, <2>4, <2>5, <2>6, <2>7 DEF Next, Handle
  <1> QED
    BY <1>1, <1>2, PTL DEF Spec

\* However many clients there are and in whatever order their answers come, what
\* is published never goes back to an earlier run, nor within a run.
THEOREM NothingOlderIsPublished == Spec => NeverShowsOlder
  <1>1. IInv /\ [Next]_vars =>
            [published # Nothing /\ published' # published => NotOlder(published, published')]_vars
    <2> SUFFICES ASSUME IInv, Next, published # Nothing, published' # published
                 PROVE  NotOlder(published, published')
      OBVIOUS
    <2>1. PICK p \in Clients : Conclude(p)
      BY DEF Next, Handle, Advance, Restart, Call, Refuse, admit, Answer, Identify
    <2>2. /\ pc[p] = "conclude" /\ published' = answer[p].shown
          /\ answer[p].shown # Nothing /\ checkProgress(answer[p].shown)
      BY <2>1 DEF Conclude
    <2> QED
      BY <2>2, AcceptedFacts
  <1> QED
    BY <1>1, Invariance, PTL DEF Spec, NeverShowsOlder

\* The display never holds observations of another run than the one that was
\* identified last, whoever identified it.
THEOREM OneRunIsShown == Spec => []OneRunAtATime
  <1>1. IInv => OneRunAtATime
    BY DEF IInv, Held, OneRunAtATime
  <1> QED
    BY <1>1, Invariance, PTL

\* No client is ever shown the selection of another.
THEOREM SelectionsAreSeparate == Spec => []OwnSelectionOnly
  <1>1. IInv => OwnSelectionOnly
    BY DEF IInv, Replied, OwnSelectionOnly
  <1> QED
    BY <1>1, Invariance, PTL
===============================================================================
