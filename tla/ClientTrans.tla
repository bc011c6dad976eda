---------------------------- MODULE ClientTrans ----------------------------
(***************************************************************************)
(* SIP client transactions: re/src/sip/ctrans.c.                           *)
(*                                                                         *)
(* One INVITE or non-INVITE request may be tried MaxAttempts times, each   *)
(* time in a transaction of its own (the attempts are the request layer's  *)
(* business, see ClientRequest); key 0 is the CANCEL transaction that      *)
(* sip_ctrans_cancel starts on the branch of an attempt.                   *)
(*                                                                         *)
(* A transaction is a record: its state, the time left on its two timers   *)
(* (Off when not running), the retransmission counter txc and, so that no  *)
(* power is needed, shift = SIP_T1 << txc.  Time passes in Tick, which     *)
(* never steps over a timer that is due.                                   *)
(***************************************************************************)
EXTENDS SipTimers

CONSTANT MaxAttempts    \* bound on the attempts of the request layer

ASSUME AttemptsAssumption == MaxAttempts \in Nat \ {0}

VARIABLES
    invite,     \* TRUE: the method is INVITE; never changes
    reliable,   \* sip_transp_reliable(tp); never changes
    ct,         \* the transactions
    finals      \* how often each transaction told its user a final outcome

ctvars == <<invite, reliable, ct, finals>>

CancelId == 0
Attempt  == 1..MaxAttempts
Txn      == {CancelId} \union Attempt

Open   == {"TRYING", "CALLING", "PROCEEDING"}
States == Open \union {"none", "COMPLETED", "freed"}

IsInvite(k) == invite /\ k # CancelId

(***************************************************************************)
(* What the handlers make of a transaction record.                         *)
(***************************************************************************)
Unused == [state |-> "none", tmr |-> Off, tmre |-> Off, txc |-> 0, shift |-> T1]
Freed  == [Unused EXCEPT !.state = "freed"]

\* sip_ctrans_request: the transaction as it is after its first transmission
Requested(isInvite) ==
    [state |-> IF isInvite THEN "CALLING" ELSE "TRYING",
     tmr   |-> Timeout,
     tmre  |-> IF reliable THEN Off ELSE T1,
     txc   |-> 0,
     shift |-> T1]

\* mutation: a completed transaction still calls resph
ReportsCompleted(t) == t.state \in Open \union {"COMPLETED"}

\* terminate() and the response handlers call resph in these states only
Reports(t) == t.state \in Open

\* mutation: a completed transaction has no deadline
CompletedUntimed(wait) ==
    IF reliable THEN Freed ELSE [Unused EXCEPT !.state = "COMPLETED"]

\* the final response ends the transaction, or leaves it absorbing
\* retransmissions of that response for `wait' (txc is of no more use)
Completed(wait) ==
    IF reliable THEN Freed
    ELSE [Unused EXCEPT !.state = "COMPLETED", !.tmr = wait]

InviteResponse(t, class) ==
    CASE t.state = "CALLING" /\ class = "1xx" ->
            [t EXCEPT !.state = "PROCEEDING", !.tmr = Off, !.tmre = Off]
      [] Reports(t) /\ class = "2xx" -> Freed
      [] Reports(t) /\ class \notin {"1xx", "2xx"} -> Completed(CompleteWait)
      [] OTHER -> t

NonInviteResponse(t, class) ==
    CASE Reports(t) /\ class = "1xx" -> [t EXCEPT !.state = "PROCEEDING"]
      [] Reports(t) /\ class # "1xx" -> Completed(T4)
      [] OTHER -> t

Responded(k, t, class) ==
    IF IsInvite(k) THEN InviteResponse(t, class) ELSE NonInviteResponse(t, class)

\* mutation: the delay does not grow
RetransmitDelayFlat(t) == T1

RetransmitDelay(t) ==
    CASE t.state = "TRYING"  -> Min2(2 * t.shift, T2)
      [] t.state = "CALLING" -> 2 * t.shift
      [] OTHER               -> T2

Retransmitted(t) ==
    [t EXCEPT !.txc = @ + 1, !.shift = 2 * @, !.tmre = RetransmitDelay(t)]

\* mutation: the cancelled attempt gets no deadline
CancelledUntimed(f, k, ok) ==
    IF IsInvite(k) /\ f[k].state = "PROCEEDING" /\ ok
    THEN [f EXCEPT ![CancelId] = Requested(FALSE)]
    ELSE f

\* sip_ctrans_cancel on attempt k of the transactions f: the attempt gets a
\* deadline and the CANCEL a transaction of its own (ok: it could be sent)
Cancelled(f, k, ok) ==
    IF IsInvite(k) /\ f[k].state = "PROCEEDING"
    THEN [f EXCEPT ![k].tmr = Timeout,
                   ![CancelId] = IF ok THEN Requested(FALSE) ELSE @]
    ELSE f

NothingDue ==
    \A k \in Txn : ct[k].tmr # 0 /\ ct[k].tmre # 0

Elapsed(t) == [t EXCEPT !.tmr = Elapse(@), !.tmre = Elapse(@)]

(***************************************************************************)
(* The actions.  Report(k) counts the final outcomes handed to resph.      *)
(***************************************************************************)
Report(k) == finals' = [finals EXCEPT ![k] = @ + 1]

CtInit ==
    /\ invite \in BOOLEAN
    /\ reliable \in BOOLEAN
    /\ ct = [k \in Txn |-> Unused]
    /\ finals = [k \in Txn |-> 0]

Request ==
    /\ ct[1].state = "none"
    /\ ct' = [ct EXCEPT ![1] = Requested(invite)]
    /\ UNCHANGED <<invite, reliable, finals>>

Response(k, class) ==
    /\ ct[k].state \notin {"none", "freed"}
    /\ ct' = [ct EXCEPT ![k] = Responded(k, @, class)]
    /\ IF Reports(ct[k]) /\ class # "1xx" THEN Report(k) ELSE UNCHANGED finals
    /\ UNCHANGED <<invite, reliable>>

\* the transaction ends with an error: resph hears of it while still waiting
Fail(k) ==
    /\ ct' = [ct EXCEPT ![k] = Freed]
    /\ IF Reports(ct[k]) THEN Report(k) ELSE UNCHANGED finals
    /\ UNCHANGED <<invite, reliable>>

TmrHandler(k) ==
    /\ ct[k].tmr = 0
    /\ Fail(k)

RetransmitHandler(k) ==
    /\ ct[k].tmre = 0
    /\ Reports(ct[k])
    /\ \/ ct' = [ct EXCEPT ![k] = Retransmitted(@)] /\ UNCHANGED <<invite, reliable, finals>>
       \/ Fail(k)                                   \* sip_transp_send failed

\* the connection of a stream transport broke while the request was queued
TransportHandler(k) ==
    /\ reliable
    /\ Reports(ct[k])
    /\ Fail(k)

\* sip_ctrans_cancel, called once for a transaction (its timer is still off);
\* in any other state than PROCEEDING it is refused and changes nothing
Cancel(ok) ==
    /\ ct[1].tmr = Off
    /\ invite /\ ct[1].state = "PROCEEDING"
    /\ ct' = Cancelled(ct, 1, ok)
    /\ UNCHANGED <<invite, reliable, finals>>

Tick ==
    /\ NothingDue
    /\ ct' = [k \in Txn |-> Elapsed(ct[k])]
    /\ UNCHANGED <<invite, reliable, finals>>

CtNext ==
    \/ Request
    \/ \E k \in Txn, class \in {"1xx", "2xx", "fail"} : Response(k, class)
    \/ \E k \in Txn : TmrHandler(k) \/ RetransmitHandler(k) \/ TransportHandler(k)
    \/ \E ok \in BOOLEAN : Cancel(ok)
    \/ Tick

\* The event loop runs every timer that is due (re_main, tmr_poll).
CtFairness ==
    /\ WF_ctvars(Tick)
    /\ \A k \in Txn : WF_ctvars(TmrHandler(k)) /\ WF_ctvars(RetransmitHandler(k))

CtSpec == CtInit /\ [][CtNext]_ctvars /\ CtFairness

(***************************************************************************)
(* Properties                                                              *)
(***************************************************************************)
Trans == [state : States, tmr : Timer, tmre : Timer, txc : Nat, shift : Nat]

CtTypeOK ==
    /\ invite \in BOOLEAN
    /\ reliable \in BOOLEAN
    /\ ct \in [Txn -> Trans]
    /\ finals \in [Txn -> Nat]

\* resph is told a final outcome exactly once: however often the response is
\* repeated, whichever timer or transport error comes after it, a transaction
\* that is no longer open has reported once and an open one not yet.  (The
\* user's argument is freed after the report, so a second one would be a use
\* of freed memory.)
ReportsOnce ==
    \A k \in Txn :
        finals[k] = IF ct[k].state \in {"COMPLETED", "freed"} THEN 1 ELSE 0

\* Every transaction holds a running deadline timer, so none is left in the
\* table for ever; the only exception is an INVITE that got a provisional
\* response, which may ring as long as it likes until it is cancelled.
DeadlineArmed ==
    \A k \in Txn :
        ct[k].state \notin {"none", "freed"} =>
            \/ ct[k].tmr # Off
            \/ IsInvite(k) /\ ct[k].state = "PROCEEDING" /\ ct[CancelId].state = "none"

\* An INVITE is sent at most 7 times and another request at most 11 times
\* (T1 doubling, capped at T2 for non-INVITE, within 64*T1), and an INVITE
\* is not sent again once any response has come.
TransmissionBound ==
    \A k \in Txn :
        /\ ct[k].txc <= IF IsInvite(k) THEN 6 ELSE 10
        /\ IsInvite(k) /\ ct[k].state # "CALLING" => ct[k].tmre = Off

\* An INVITE for which CANCEL was sent always ends, even when neither the
\* CANCEL nor the INVITE is ever answered again.
CancelledEnds ==
    (ct[CancelId].state # "none") ~> (ct[1].state = "freed")
=============================================================================
