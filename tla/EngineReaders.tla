----------------------------- MODULE EngineReaders ----------------------------
(***************************************************************************)
(* simulation.Engine and a display that reads it: what one consumer sees   *)
(* in the receptions of one station, before and after a mutation.          *)
(***************************************************************************)
EXTENDS Engine, ReceivedTracks

\* append evicts the oldest reception, and decodeSnapshot starts from nothing:
\* as long as one station is selected, what the display shows of an aircraft may
\* vanish but never reverts to something received earlier, however the ring has
\* wrapped between the halves of a position pair.  (With two stations it can: one
\* station still retains what the other has evicted the successor of.)
NeverGoesBack ==
    [][\A id \in ActiveIds(state) \cap ActiveIds(state'), ord \in 1 .. MaxAddress :
        LET before == Observed(Snapshot(state, {id}), ord)
            after  == Observed(Snapshot(state', {id}), ord)
        IN  \A field \in Fields : after[field] # Never => after[field] >= before[field]]_state
===============================================================================
