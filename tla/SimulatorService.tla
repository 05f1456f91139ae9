--------------------------- MODULE SimulatorService ---------------------------
(***************************************************************************)
(* The simulator's station and control commands as their clients see them  *)
(* (simulator/api.go): a command names the run it was written for and, for *)
(* a station that exists, the revision it replaces.                        *)
(*                                                                         *)
(* Runs are numbered in the order they were started in, and a station's    *)
(* run and revision stand for its settings.                                *)
(***************************************************************************)
EXTENDS Integers, FiniteSets

CONSTANTS
    StationIds,
    MaxRun,       \* bound: runs of the simulator
    MaxRevision   \* bound: the largest revision an update creates

ASSUME ServiceConstants == {MaxRun, MaxRevision} \subseteq Nat \ {0}

VARIABLES
    run,       \* API.runID of the service that answers
    revision,  \* per station its revision, NoRevision while it is not active
    reserved   \* the identifiers this run has used

service == <<run, revision, reserved>>

NoRun      == 0
NoRevision == 0

\* A command and what became of it.  Every refusal but a revision conflict fails
\* it: of another run, of an unknown or reused identifier, invalid.  So does an
\* answer that is lost or late, whether or not the command was applied.
Outcomes == {"ok", "conflict", "failed"}

ServiceTypeOK ==
    /\ run \in 1 .. MaxRun
    /\ revision \in [StationIds -> NoRevision .. MaxRevision]
    /\ reserved \subseteq StationIds

Active(id) == revision[id] # NoRevision

ServiceInit ==
    /\ run = 1
    /\ revision \in [StationIds -> {NoRevision, 1}]
    /\ reserved = {id \in StationIds : revision[id] # NoRevision}

-------------------------------------------------------------------------------
\* guardRun comes before everything else.
Verdict(c) ==
    IF c.run # run THEN "failed"
    ELSE CASE c.kind = "add" -> IF c.id \in reserved THEN "failed" ELSE "ok"
           [] c.kind \in {"update", "remove"} ->
                  IF ~Active(c.id) THEN "failed"
                  ELSE IF revision[c.id] # c.rev THEN "conflict" ELSE "ok"
           [] OTHER -> "ok"

Within(c) == c.kind = "update" => c.rev < MaxRevision

Apply(c) ==
    /\ revision' = CASE c.kind = "add"    -> [revision EXCEPT ![c.id] = 1]
                     [] c.kind = "update" -> [revision EXCEPT ![c.id] = @ + 1]
                     [] c.kind = "remove" -> [revision EXCEPT ![c.id] = NoRevision]
                     [] OTHER             -> revision
    /\ reserved' = IF c.kind = "add" THEN reserved \cup {c.id} ELSE reserved
    /\ UNCHANGED run

\* The service answers a command, and applies it if it accepts it.
Serve(c) ==
    IF Verdict(c) = "ok" THEN Within(c) /\ Apply(c) ELSE UNCHANGED service

\* What any other client may do.
OtherClient(id) ==
    \/ \E kind \in {"update", "remove"} :
          /\ Active(id)
          /\ LET c == [kind |-> kind, id |-> id, run |-> run, rev |-> revision[id]]
             IN  Within(c) /\ Apply(c)
    \/ /\ id \notin reserved
       /\ Apply([kind |-> "add", id |-> id])

\* The service is replaced by one of a fresh run, with some of the stations.
Restart ==
    /\ run < MaxRun
    /\ run' = run + 1
    /\ \E ids \in SUBSET StationIds :
          /\ revision' = [id \in StationIds |-> IF id \in ids THEN 1 ELSE NoRevision]
          /\ reserved' = ids
===============================================================================
