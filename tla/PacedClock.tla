------------------------------ MODULE PacedClock ------------------------------
(***************************************************************************)
(* What the pacing driver promises, without its mutex, ticks, chunks,      *)
(* carry or failures: virtual time is the integral of the speed over real  *)
(* time.  Real time is settled up to a frontier; every stretch of real     *)
(* time the frontier crosses is paid once, at the speed in force.          *)
(*                                                                         *)
(* Virtual time is counted in hundredths of a tick, the unit in which the  *)
(* engine counts it (speeds are hundredths, clock.go keeps a carry), so a  *)
(* real tick at speed s is worth exactly s.                                *)
(***************************************************************************)
EXTENDS Integers

CONSTANTS
    MaxSpeed    \* the largest speed, in hundredths

VARIABLES
    frontier,   \* real instant up to which real time has been paid
    total,      \* virtual time granted so far, in hundredths
    speed       \* the speed in force

vars == <<frontier, total, speed>>

Init ==
    /\ frontier = 0
    /\ total = 0
    /\ speed \in 0 .. MaxSpeed

\* Pay the real time from the frontier to some later instant.
Settle ==
    /\ frontier' > frontier
    /\ total' = total + (frontier' - frontier) * speed
    /\ UNCHANGED speed

\* A new speed applies from the frontier on, and pays nothing by itself.
ChangeSpeed ==
    /\ speed' \in 0 .. MaxSpeed
    /\ UNCHANGED <<frontier, total>>

Next == Settle \/ ChangeSpeed

Spec == Init /\ [][Next]_vars
===============================================================================
