----------------------------- MODULE SipTimers -----------------------------
(***************************************************************************)
(* The protocol timers of re/include/re_sip.h and the countdown timers     *)
(* (re/src/tmr) the SIP layers share.  A timer holds the time left until   *)
(* it fires, or Off; time is counted in fractions of SIP_T1.               *)
(***************************************************************************)
EXTENDS Integers

CONSTANTS
    T1, T2, T4,     \* SIP_T1, SIP_T2, SIP_T4
    Timeout,        \* 64 * SIP_T1
    CompleteWait    \* COMPLETE_WAIT of ctrans.c

ASSUME TimersAssumption ==
    /\ T1 \in Nat \ {0} /\ T2 \in Nat \ {0} /\ T4 \in Nat \ {0}
    /\ Timeout \in Nat \ {0} /\ CompleteWait \in Nat \ {0}

Off == -1

Timer == {n \in Int : n >= Off}

Min2(a, b) == IF a < b THEN a ELSE b

\* a running timer comes one unit closer
Elapse(n) == IF n = Off THEN Off ELSE n - 1
=============================================================================
