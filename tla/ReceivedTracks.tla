---------------------------- MODULE ReceivedTracks ----------------------------
(***************************************************************************)
(* What a consumer makes of the engine's receptions: the snapshot that     *)
(* simulation/reception_snapshot.go cuts from an engine's state, the       *)
(* display's validation of it (display/validate.go) and the tracks that    *)
(* display/decode.go rebuilds from it.                                     *)
(*                                                                         *)
(* The wire form is abstracted to what the validator compares.  Records    *)
(* are kept per station, in the order in which the sort by transmission    *)
(* leaves them: the validator looks at the order of one station's records  *)
(* only.                                                                   *)
(***************************************************************************)
EXTENDS EngineState

CONSTANTS
    MaxCPRAge,      \* how old the other half of a position pair may be
    Lifetime,       \* per field, how long it is shown
    \* SameZone(n, t, u): the positions of aircraft n at t and u lie in one
    \* latitude zone, which a pair of halves must share.
    SameZone(_, _, _)

Fields == {"identity", "position", "altitude", "velocity"}

ASSUME DecodingLimits == MaxCPRAge \in Nat /\ Lifetime \in [Fields -> Nat]

-------------------------------------------------------------------------------
(***************************************************************************)
(* The engine's snapshot.                                                  *)
(***************************************************************************)

\* Mutant: truncated whenever the ring is full.
RetentionWhenFull(ring) ==
    [oldest |-> IF ring = <<>> THEN 0 ELSE Head(ring).seq,
     latest |-> IF ring = <<>> THEN 0 ELSE Last(ring).seq,
     truncated |-> Len(ring) = ReceptionHistoryLimit,
     limit |-> ReceptionHistoryLimit]

\* bounds and StationRetention.
Retention(ring) ==
    LET oldest == IF ring = <<>> THEN 0 ELSE Head(ring).seq
        latest == IF ring = <<>> THEN 0 ELSE Last(ring).seq
    IN  [oldest |-> oldest, latest |-> latest, truncated |-> oldest > 1,
         limit |-> ReceptionHistoryLimit]

\* The records of one station, rearranged in the order of their transmissions.
ByTransmission(records) ==
    LET InOrder(p) == \A i, j \in DOMAIN records :
                         i < j => records[p[i]].frame.seq <= records[p[j]].frame.seq
        order == CHOOSE p \in Bijection(DOMAIN records, DOMAIN records) : InOrder(p)
    IN  [i \in DOMAIN records |-> records[order[i]]]

\* ReceptionSnapshot of active stations, under one lock.
Snapshot(s, selection) ==
    LET ring(id) == s.active[Find(s, id)].ring IN
    [now       |-> s.elapsed,
     retention |-> [id \in selection |-> Retention(ring(id))],
     records   |-> [id \in selection |-> ByTransmission(ring(id))]]

-------------------------------------------------------------------------------
(***************************************************************************)
(* The display's validation.                                               *)
(***************************************************************************)

RecordsOf(snap) == UNION {ToSet(snap.records[id]) : id \in DOMAIN snap.records}

\* validateReception: numbered from one, not from the future, and not from
\* before its receiver.
ValidReception(r, now) ==
    /\ r.seq > 0 /\ r.frame.seq > 0 /\ r.rev > 0
    /\ r.frame.at <= now
    /\ r.created <= r.frame.at

\* validateRecords, for the records of one station: no hole, no second copy of
\* a transmission, one set of settings for each revision.
ValidStation(records) ==
    /\ \A i \in 1 .. Len(records) - 1 : records[i + 1].seq = records[i].seq + 1
    /\ \A i, j \in DOMAIN records :
          /\ i # j => records[i].frame.seq # records[j].frame.seq
          /\ records[i].rev = records[j].rev => records[i].cfg = records[j].cfg

\* validateRecords, across stations.
CopiesOfOneFrame(snap) ==
    \A r, q \in RecordsOf(snap) : r.frame.seq = q.frame.seq => r.frame = q.frame

\* validateRetentionBounds.
DescribesRecords(entry, records) ==
    /\ Len(records) <= entry.limit
    /\ IF records = <<>>
       THEN entry.oldest = 0 /\ entry.latest = 0 /\ ~entry.truncated
       ELSE /\ entry.oldest = Head(records).seq
            /\ entry.latest = Last(records).seq
            /\ entry.truncated <=> entry.oldest > 1

\* validateSnapshot.
Validates(snap) ==
    /\ \A id \in DOMAIN snap.records :
          /\ \A i \in DOMAIN snap.records[id] : ValidReception(snap.records[id][i], snap.now)
          /\ ValidStation(snap.records[id])
          /\ DescribesRecords(snap.retention[id], snap.records[id])
    /\ CopiesOfOneFrame(snap)

-------------------------------------------------------------------------------
(***************************************************************************)
(* The display's decoding.                                                 *)
(***************************************************************************)

Never == -1

\* A track before any frame: when each field and each half was last received.
NoTrack == [identity |-> Never, position |-> Never, altitude |-> Never, velocity |-> Never,
            even |-> Never, odd |-> Never]

\* DecodeGlobal at the instant of the newer half: both halves are there, the
\* older one is recent enough, and both lie in one latitude zone.
Pairs(ord, even, odd, at) ==
    /\ even # Never /\ odd # Never
    /\ at - even <= MaxCPRAge /\ at - odd <= MaxCPRAge
    /\ SameZone(ord, even, odd)

\* accumulatePosition: altitude, one half, and a fix when the halves pair; an
\* unusable pair leaves the fix that was accepted before.
AccumulatePosition(track, frame) ==
    LET half == IF frame.odd THEN "odd" ELSE "even"
        seen == [track EXCEPT ![half] = frame.at, !.altitude = frame.at]
    IN  IF Pairs(frame.ord, seen.even, seen.odd, frame.at)
        THEN [seen EXCEPT !.position = frame.at] ELSE seen

Accumulate(track, frame) ==
    CASE frame.kind = "identification" -> [track EXCEPT !.identity = frame.at]
      [] frame.kind = "position"       -> AccumulatePosition(track, frame)
      [] frame.kind = "velocity"       -> [track EXCEPT !.velocity = frame.at]

\* groupEvidence: one frame for each transmission, in order.
Grouped(snap) ==
    LET frames == {r.frame : r \in RecordsOf(snap)}
        InOrder(order) == \A i, j \in DOMAIN order : i < j => order[i].seq < order[j].seq
    IN  CHOOSE order \in [1 .. Cardinality(frames) -> frames] : InOrder(order)

\* A transmission concerns the track of its own aircraft.
AccumulateFor(ord, track, frame) ==
    IF frame.ord = ord THEN Accumulate(track, frame) ELSE track

\* decodeSnapshot's loop: one aircraft's track after each transmission.  Every
\* field starts from nothing.
Decoding(order, ord) ==
    LET after[n \in Nat] ==
            IF n = 0 THEN NoTrack ELSE AccumulateFor(ord, after[n - 1], order[n])
    IN  after

Track(snap, ord) ==
    LET order == Grouped(snap) IN Decoding(order, ord)[Len(order)]

\* observe: when each field that is still fresh was received.
Observed(snap, ord) ==
    LET track == Track(snap, ord) IN
    [field \in Fields |->
        IF track[field] # Never /\ snap.now - track[field] <= Lifetime[field]
        THEN track[field] ELSE Never]
===============================================================================
