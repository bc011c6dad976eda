----------------------------- MODULE InviteCall -----------------------------
(***************************************************************************)
(* One call over a datagram network: the caller's INVITE client            *)
(* transaction and its CANCEL (ClientTrans), the callee's INVITE server    *)
(* transaction (ServerTrans), and between them datagrams that are lost,    *)
(* repeated, delayed and reordered.  The users of the transactions are the *)
(* two SIP sessions, as far as their own handshake goes: the ACK of a 2xx  *)
(* (re/src/sipsess/ack.c), the repetition of the 2xx until that ACK comes  *)
(* (sipsess_reply.c), hanging up while it rings (sip_request_cancel).      *)
(***************************************************************************)
EXTENDS ClientTrans, ServerTrans

CONSTANT Life   \* how long a datagram stays deliverable

ASSUME LifeAssumption == Life \in Nat

\* what the protocol expects of the network and its timers: a datagram arrives
\* within T1, the estimate of a round trip, or is lost, and does not outlive T4;
\* and the deadline, 64 * T1, is no moment at which an INVITE is repeated
ASSUME PromptAssumption ==
    /\ Life < T1 /\ Life < T4
    /\ \E n \in 1..Timeout : Timeout = 2 * (n * T1)

VARIABLES
    net,        \* time each kind of datagram remains deliverable, or Off
    canceled,   \* caller: sip_request.canceled
    outcome,    \* caller: how the INVITE ended for the session
    ackKept,    \* caller: timer of the struct sipsess_ack kept to repeat the ACK
    decision,   \* callee: the answer the session gave
    answer,     \* callee: struct sipsess_reply, the 2xx not yet acknowledged
    acked       \* callee: the ACK of the 2xx came

callvars == <<net, canceled, outcome, ackKept, decision, answer, acked>>
vars == <<ctvars, stvars, callvars>>

Failures == {"fail", "487"}
Datagram == {"INVITE", "CANCEL", "ACK", "ACK2xx", "1xx", "2xx", "200CANCEL"} \union Failures

NoReply  == [tmr |-> Off, tmrg |-> Off, shift |-> T1]
NewReply == [tmr |-> Timeout, tmrg |-> T1, shift |-> T1]

Deliverable(m) == net[m] # Off
Sent(ms) == [m \in Datagram |-> IF m \in ms THEN Life ELSE net[m]]

Init ==
    /\ CtInit /\ invite /\ ~reliable
    /\ StInit /\ sinvite /\ ~sreliable
    /\ net = [m \in Datagram |-> Off]
    /\ canceled = FALSE /\ outcome = "none" /\ ackKept = Off
    /\ decision = "none" /\ answer = NoReply /\ acked = FALSE

Rigid == UNCHANGED <<invite, reliable, sinvite, sreliable, finals, cancels>>
CallerSame == UNCHANGED <<ct, canceled, outcome, ackKept>>
CalleeSame == UNCHANGED <<st, requests, decision, answer, acked>>

(***************************************************************************)
(* The caller                                                              *)
(***************************************************************************)
Dial ==
    /\ ct[1].state = "none"
    /\ ct' = [ct EXCEPT ![1] = Requested(TRUE)]
    /\ net' = Sent({"INVITE"})
    /\ UNCHANGED <<canceled, outcome, ackKept>> /\ CalleeSame /\ Rigid

\* sip_request_cancel: CANCEL now if it rings already, else with the first
\* provisional response
HangUp ==
    /\ ct[1].state \in Open /\ ~canceled
    /\ canceled' = TRUE
    /\ ct' = Cancelled(ct, 1, TRUE)
    /\ net' = IF ct[1].state = "PROCEEDING" THEN Sent({"CANCEL"}) ELSE net
    /\ UNCHANGED <<outcome, ackKept>> /\ CalleeSame /\ Rigid

RecvProvisional ==
    /\ Deliverable("1xx") /\ ct[1].state = "CALLING"
    /\ LET f == [ct EXCEPT ![1] = Responded(1, @, "1xx")]
       IN  IF canceled
           THEN ct' = Cancelled(f, 1, TRUE) /\ net' = Sent({"CANCEL"})
           ELSE ct' = f /\ net' = net
    /\ UNCHANGED <<canceled, outcome, ackKept>> /\ CalleeSame /\ Rigid

\* a failure response is acknowledged by the transaction, each time it comes
RecvFailure(m) ==
    /\ m \in Failures /\ Deliverable(m) /\ ct[1].state \in Open \union {"COMPLETED"}
    /\ ct' = [ct EXCEPT ![1] = Responded(1, @, m)]
    /\ outcome' = IF Reports(ct[1]) THEN m ELSE outcome
    /\ net' = Sent({"ACK"})
    /\ UNCHANGED <<canceled, ackKept>> /\ CalleeSame /\ Rigid

\* the first 2xx goes to the session, which acknowledges it; a repeated one
\* is acknowledged again as long as the struct sipsess_ack is kept
RecvSuccess ==
    /\ Deliverable("2xx")
    /\ \/ /\ Reports(ct[1])
          /\ ct' = [ct EXCEPT ![1] = Responded(1, @, "2xx")]
          /\ outcome' = "2xx"
          /\ ackKept' = Timeout
       \/ /\ ct[1].state = "freed" /\ ackKept # Off
          /\ UNCHANGED <<ct, outcome, ackKept>>
    /\ net' = Sent({"ACK2xx"})
    /\ UNCHANGED canceled /\ CalleeSame /\ Rigid

RecvCancelOk ==
    /\ Deliverable("200CANCEL") /\ ct[CancelId].state \in Open
    /\ ct' = [ct EXCEPT ![CancelId] = Responded(CancelId, @, "2xx")]
    /\ UNCHANGED <<net, canceled, outcome, ackKept>> /\ CalleeSame /\ Rigid

CallerTimer(k) ==
    /\ \/ /\ ct[k].tmr = 0
          /\ ct' = [ct EXCEPT ![k] = Freed]
          /\ outcome' = IF k = 1 /\ Reports(ct[k]) THEN "error" ELSE outcome
          /\ net' = net
       \/ /\ ct[k].tmre = 0 /\ Reports(ct[k])
          /\ ct' = [ct EXCEPT ![k] = Retransmitted(@)]
          /\ net' = Sent({IF k = CancelId THEN "CANCEL" ELSE "INVITE"})
          /\ outcome' = outcome
    /\ UNCHANGED <<canceled, ackKept>> /\ CalleeSame /\ Rigid

AckForgotten ==
    /\ ackKept = 0 /\ ackKept' = Off
    /\ UNCHANGED <<ct, canceled, outcome, net>> /\ CalleeSame /\ Rigid

(***************************************************************************)
(* The callee                                                              *)
(***************************************************************************)
\* the response a repeated request makes the transaction send again
LastResponse == IF st.state = "PROCEEDING" THEN "1xx" ELSE decision

\* a new INVITE becomes a session that rings at once (sipsess_accept)
InviteArrives ==
    /\ Deliverable("INVITE")
    /\ IF Live(st)
       THEN /\ net' = IF Repeats(st) THEN Sent({LastResponse}) ELSE net
            /\ UNCHANGED <<st, requests, decision>>
       ELSE /\ requests < MaxRequests
            /\ requests' = requests + 1
            /\ st' = Replied(Allocated, "1xx", TRUE)
            /\ decision' = "none"
            /\ net' = Sent({"1xx"})
    /\ UNCHANGED <<answer, acked>> /\ CallerSame /\ Rigid

Accept ==
    /\ st.held
    /\ st' = Replied(st, "2xx", TRUE)
    /\ decision' = "2xx"
    /\ answer' = NewReply
    /\ net' = Sent({"2xx"})
    /\ UNCHANGED <<requests, acked>> /\ CallerSame /\ Rigid

Reject ==
    /\ st.held
    /\ st' = Replied(st, "fail", TRUE)
    /\ decision' = "fail"
    /\ net' = Sent({"fail"})
    /\ UNCHANGED <<requests, answer, acked>> /\ CallerSame /\ Rigid

\* mutation: CANCEL ends an answered call too
CancelOverrides ==
    /\ Deliverable("CANCEL") /\ Live(st)
    /\ st' = IF st.state \in Unanswered THEN Replied(st, "487", TRUE) ELSE st
    /\ decision' = "487"
    /\ net' = Sent({"200CANCEL", "487"})
    /\ UNCHANGED <<requests, answer, acked>> /\ CallerSame /\ Rigid

CancelIsReceived ==
    /\ Deliverable("CANCEL") /\ Live(st)
    /\ IF st.state \in Unanswered
       THEN /\ st' = Replied(st, "487", TRUE)
            /\ decision' = "487"
            /\ net' = Sent({"200CANCEL", "487"})
       ELSE /\ net' = Sent({"200CANCEL"})
            /\ UNCHANGED <<st, decision>>
    /\ UNCHANGED <<requests, answer, acked>> /\ CallerSame /\ Rigid

AckIsReceived ==
    /\ Deliverable("ACK") /\ Live(st)
    /\ st' = Acked(st)
    /\ UNCHANGED <<net, requests, decision, answer, acked>> /\ CallerSame /\ Rigid

\* ack_handler of the session: the reply is done
SessionAcked ==
    /\ Deliverable("ACK2xx") /\ answer.tmr # Off
    /\ answer' = NoReply
    /\ acked' = TRUE
    /\ UNCHANGED <<net, st, requests, decision>> /\ CallerSame /\ Rigid

CalleeTimer ==
    /\ \/ st.tmr = 0 /\ st' = Gone /\ net' = net
       \/ st.tmrg = 0 /\ st' = ResponseRetransmitted(st) /\ net' = Sent({LastResponse})
    /\ UNCHANGED <<requests, decision, answer, acked>> /\ CallerSame /\ Rigid

AnswerTimer ==
    /\ \/ answer.tmr = 0 /\ answer' = NoReply /\ net' = net
       \/ /\ answer.tmrg = 0
          /\ answer' = [answer EXCEPT !.shift = 2 * @, !.tmrg = Min2(2 * answer.shift, T2)]
          /\ net' = Sent({"2xx"})
    /\ UNCHANGED <<st, requests, decision, acked>> /\ CallerSame /\ Rigid

(***************************************************************************)
(* Time                                                                    *)
(***************************************************************************)
Running == {ackKept, st.tmr, st.tmrg, answer.tmr, answer.tmrg}

Clock ==
    /\ NothingDue /\ 0 \notin Running
    /\ ct' = [k \in Txn |-> Elapsed(ct[k])]
    /\ st' = TransElapsed(st)
    /\ answer' = [answer EXCEPT !.tmr = Elapse(@), !.tmrg = Elapse(@)]
    /\ ackKept' = Elapse(ackKept)
    /\ net' = [m \in Datagram |-> Elapse(net[m])]
    /\ UNCHANGED <<canceled, outcome, requests, decision, acked>> /\ Rigid

Timers == (\E k \in Txn : CallerTimer(k)) \/ AckForgotten \/ CalleeTimer \/ AnswerTimer

Next ==
    \/ Dial \/ HangUp \/ RecvProvisional \/ RecvSuccess \/ RecvCancelOk
    \/ \E m \in Failures : RecvFailure(m)
    \/ InviteArrives \/ Accept \/ Reject \/ CancelIsReceived \/ AckIsReceived
    \/ SessionAcked
    \/ Timers \/ Clock

\* Only time and the local timers are certain; no datagram ever has to arrive.
Spec == Init /\ [][Next]_vars /\ WF_vars(Clock) /\ WF_vars(Timers)

(***************************************************************************)
(* Properties                                                              *)
(***************************************************************************)
CallTypeOK ==
    /\ CtTypeOK /\ StTypeOK
    /\ net \in [Datagram -> Off..Life]
    /\ outcome \in {"none", "2xx", "error"} \union Failures
    /\ decision \in {"none", "2xx"} \union Failures
    /\ ackKept \in Timer

\* One call rings once: no retransmitted or delayed INVITE is ever taken for
\* a new one, because the transaction that absorbs it outlives the caller's
\* retransmissions (64*T1) and, once acknowledged, the datagrams (T4).
RingsOnce == requests <= 1

\* What the caller is told is what the callee decided, also when a CANCEL
\* and the answer cross on the way; he never believes in a call that was
\* refused or cancelled, and 487 only comes to a caller who hung up.
SameOutcome ==
    /\ outcome \in {"2xx"} \union Failures => outcome = decision
    /\ decision = "487" => canceled
    /\ acked => outcome = "2xx" /\ decision = "2xx"

\* The callee stops repeating his answer: an accepted call is acknowledged or
\* given up, a refused one acknowledged or forgotten.
AnswerSettles == (decision # "none") ~> (answer = NoReply /\ st.state = "freed")

\* A caller who hung up gets rid of the call, whatever is lost.
HangUpEnds == canceled ~> (outcome # "none")
=============================================================================
