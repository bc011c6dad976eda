---------------------------- MODULE ServerTrans ----------------------------
(***************************************************************************)
(* SIP server transactions: re/src/sip/strans.c.                           *)
(*                                                                         *)
(* One request of a peer, INVITE or not, over a stream or a datagram       *)
(* transport, with its retransmissions, its ACK and its CANCEL.  held says *)
(* that the transaction user (a SIP session, re/src/sipsess/accept.c)      *)
(* still has the pointer he may answer with; the answer that ends the      *)
(* transaction for him (2xx or worse) takes it away.                       *)
(***************************************************************************)
EXTENDS SipTimers

CONSTANT MaxRequests    \* bound on how often the request is handed to the user

ASSUME RequestsAssumption == MaxRequests \in Nat \ {0}

VARIABLES
    sinvite,    \* TRUE: the method is INVITE; never changes
    sreliable,  \* sip_transp_reliable(msg->tp); never changes
    st,         \* the transaction
    requests,   \* how often the request went up to the user
    cancels     \* how often cancelh was called

stvars == <<sinvite, sreliable, st, requests, cancels>>

Unanswered == {"TRYING", "PROCEEDING"}
SStates == Unanswered \union {"none", "ACCEPTED", "COMPLETED", "CONFIRMED", "freed"}

NoTrans == [state |-> "none", held |-> FALSE, tmr |-> Off, tmrg |-> Off, txc |-> 0,
            shift |-> T1]
Gone    == [NoTrans EXCEPT !.state = "freed"]

Live(t) == t.state \notin {"none", "freed"}

(***************************************************************************)
(* What the handlers make of the transaction.                              *)
(***************************************************************************)
\* sip_strans_alloc
Allocated == [NoTrans EXCEPT !.state = "TRYING", !.held = TRUE]

\* mutation: the user keeps the pointer of a transaction he accepted
InviteRepliedHeld(t, class) ==
    CASE class = "1xx" -> [t EXCEPT !.state = "PROCEEDING"]
      [] class = "2xx" -> [t EXCEPT !.state = "ACCEPTED", !.tmr = Timeout]
      [] OTHER -> [t EXCEPT !.state = "COMPLETED", !.held = FALSE, !.tmr = Timeout,
                            !.tmrg = IF sreliable THEN Off ELSE T1]

\* mutation: an accepted transaction has no deadline
InviteRepliedUntimed(t, class) ==
    CASE class = "1xx" -> [t EXCEPT !.state = "PROCEEDING"]
      [] class = "2xx" -> [t EXCEPT !.state = "ACCEPTED", !.held = FALSE]
      [] OTHER -> [t EXCEPT !.state = "COMPLETED", !.held = FALSE, !.tmr = Timeout,
                            !.tmrg = IF sreliable THEN Off ELSE T1]

\* sip_strans_reply for an INVITE and for any other request; a response that
\* could not be sent (~ok) frees the transaction
InviteReplied(t, class) ==
    CASE class = "1xx" -> [t EXCEPT !.state = "PROCEEDING"]
      [] class = "2xx" -> [t EXCEPT !.state = "ACCEPTED", !.held = FALSE, !.tmr = Timeout]
      [] OTHER -> [t EXCEPT !.state = "COMPLETED", !.held = FALSE, !.tmr = Timeout,
                            !.tmrg = IF sreliable THEN Off ELSE T1]

\* mutation: an answered request that was no INVITE has no deadline
OtherRepliedUntimed(t, class) ==
    CASE class = "1xx" -> [t EXCEPT !.state = "PROCEEDING"]
      [] class # "1xx" /\ sreliable -> Gone
      [] OTHER -> [t EXCEPT !.state = "COMPLETED", !.held = FALSE]

OtherReplied(t, class) ==
    CASE class = "1xx" -> [t EXCEPT !.state = "PROCEEDING"]
      [] class # "1xx" /\ sreliable -> Gone
      [] OTHER -> [t EXCEPT !.state = "COMPLETED", !.held = FALSE, !.tmr = Timeout]

Replied(t, class, ok) ==
    IF ~ok THEN Gone
    ELSE IF sinvite THEN InviteReplied(t, class) ELSE OtherReplied(t, class)

\* mutation: an acknowledged transaction does not linger
AckedGone(t) == IF t.state = "COMPLETED" THEN Gone ELSE t

\* ack_handler: the ACK of a failure response ends the retransmissions, the
\* ACK of a 2xx goes up to the user
Acked(t) ==
    CASE t.state = "COMPLETED" /\ sreliable  -> Gone
      [] t.state = "COMPLETED" /\ ~sreliable ->
            [t EXCEPT !.state = "CONFIRMED", !.tmr = T4, !.tmrg = Off]
      [] OTHER -> t

\* the response is sent again when the request is (request_handler)
Repeats(t) == t.state \in {"PROCEEDING", "COMPLETED"}

\* retransmit_handler: the delay doubles up to SIP_T2
ResponseRetransmitted(t) ==
    [t EXCEPT !.txc = @ + 1, !.shift = 2 * @, !.tmrg = Min2(2 * t.shift, T2)]

TransElapsed(t) == [t EXCEPT !.tmr = Elapse(@), !.tmrg = Elapse(@)]

(***************************************************************************)
(* The actions                                                             *)
(***************************************************************************)
StInit ==
    /\ sinvite \in BOOLEAN
    /\ sreliable \in BOOLEAN
    /\ st = NoTrans
    /\ requests = 0
    /\ cancels = 0

Unchanged == UNCHANGED <<sinvite, sreliable>>

\* request_handler: a request that matches no transaction goes up, and the
\* user allocates one; a retransmission is absorbed
RequestArrives ==
    /\ IF Live(st) THEN UNCHANGED <<st, requests>>
       ELSE /\ requests < MaxRequests
            /\ st' = Allocated
            /\ requests' = requests + 1
    /\ UNCHANGED cancels /\ Unchanged

Reply(class, ok) ==
    /\ st.held
    /\ st' = Replied(st, class, ok)
    /\ UNCHANGED <<requests, cancels>> /\ Unchanged

AckArrives ==
    /\ sinvite /\ Live(st)
    /\ st' = Acked(st)
    /\ UNCHANGED <<requests, cancels>> /\ Unchanged

\* mutation: the user is told whether or not he has answered
CancelArrivesAnyway(ok) ==
    /\ Live(st)
    /\ st' = IF st.state \in Unanswered THEN Replied(st, "487", ok) ELSE st
    /\ cancels' = cancels + 1
    /\ UNCHANGED requests /\ Unchanged

\* cancel_handler: an unanswered request is the user's to end: his handler
\* (accept.c) answers it with 487 at once
CancelArrives(ok) ==
    /\ Live(st)
    /\ IF st.state \in Unanswered
       THEN st' = Replied(st, "487", ok) /\ cancels' = cancels + 1
       ELSE UNCHANGED <<st, cancels>>
    /\ UNCHANGED requests /\ Unchanged

StExpire ==
    /\ st.tmr = 0
    /\ st' = Gone
    /\ UNCHANGED <<requests, cancels>> /\ Unchanged

StRetransmit ==
    /\ st.tmrg = 0
    /\ st' = ResponseRetransmitted(st)
    /\ UNCHANGED <<requests, cancels>> /\ Unchanged

StTick ==
    /\ st.tmr # 0 /\ st.tmrg # 0
    /\ st' = TransElapsed(st)
    /\ UNCHANGED <<requests, cancels>> /\ Unchanged

StNext ==
    \/ RequestArrives
    \/ \E class \in {"1xx", "2xx", "fail"}, ok \in BOOLEAN : Reply(class, ok)
    \/ AckArrives
    \/ \E ok \in BOOLEAN : CancelArrives(ok)
    \/ StExpire \/ StRetransmit \/ StTick

StFairness == WF_stvars(StTick) /\ WF_stvars(StExpire) /\ WF_stvars(StRetransmit)

StSpec == StInit /\ [][StNext]_stvars /\ StFairness

(***************************************************************************)
(* Properties                                                              *)
(***************************************************************************)
STrans == [state : SStates, held : BOOLEAN, tmr : Timer, tmrg : Timer, txc : Nat,
           shift : Nat]

StTypeOK ==
    /\ sinvite \in BOOLEAN
    /\ sreliable \in BOOLEAN
    /\ st \in STrans
    /\ requests \in Nat
    /\ cancels \in Nat

\* The pointer the user holds is never stale, and a transaction he does not
\* hold is on its deadline timer: neither a use of freed memory nor a leak,
\* whatever order of answer, CANCEL, ACK and failed sends.
HeldOrTimed ==
    /\ st.held => st.state \in Unanswered
    /\ Live(st) /\ ~st.held => st.tmr # Off

\* The user hears of a CANCEL at most once for each request and never after
\* he has answered it.
CancelToldOnce == [][ cancels' # cancels => st.held /\ ~st'.held ]_stvars

\* Once the user has answered, the transaction goes away without any more
\* help from him or from the peer.
AnsweredEnds == (Live(st) /\ ~st.held) ~> (st.state = "freed")
=============================================================================
