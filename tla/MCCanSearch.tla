----------------------------- MODULE MCCanSearch -----------------------------
(***************************************************************************)
(* The can search state machine for TLC.  A timer's byte has two values,   *)
(* so that every timeout above 1 carries from the low to the high byte.    *)
(***************************************************************************)
EXTENDS CanSearch

BothOrders == {"high first", "low first"}

\* avr-gcc stores the high byte of a volatile int first.
HighFirst == {"high first"}

\* A search nobody stops: what the liveness properties are about.  It is
\* started once, in either mode.
SearchNext ==
    \/ Tick
    \/ MainStep
    \/ \E sig \in MainSignals, p \in BOOLEAN : Signal(sig, p)
    \/ \E limit \in {DRIFTON_TIMEOUT, FAST_DRIFTON_TIMEOUT} : CanSearchInit(limit)

SearchSpec == Init /\ [][SearchNext]_vars /\ Fairness
=============================================================================
