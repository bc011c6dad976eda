------------------------- MODULE InviteCall_proof -------------------------
(***************************************************************************)
(* Proofs about the server transactions of ServerTrans, for every value of *)
(* the timers and however often the request is handed up: type             *)
(* correctness, HeldOrTimed and CancelToldOnce; and about a call over a    *)
(* network that loses, repeats and reorders datagrams (InviteCall), for    *)
(* all timers that are in the proportion the protocol asks for             *)
(* (PromptAssumption): RingsOnce and SameOutcome.                          *)
(***************************************************************************)
EXTENDS InviteCall, ClientTrans_proof

(***************************************************************************)
(* The callee's transaction by itself, whatever it receives.               *)
(* The inductive invariant: HeldOrTimed with its converse, the user holds  *)
(* every unanswered transaction; a CANCEL could else reach one he gave up. *)
(***************************************************************************)
UserHolds == st.held <=> st.state \in Unanswered

StInv == StTypeOK /\ HeldOrTimed /\ UserHolds

\* what the value of st must satisfy, whatever step led to it
Consistent(t) ==
    /\ t \in STrans
    /\ t.held <=> t.state \in Unanswered
    /\ Live(t) /\ ~t.held => t.tmr # Off

LEMMA InvIsConsistent ==
  StInv <=> /\ sinvite \in BOOLEAN /\ sreliable \in BOOLEAN
            /\ requests \in Nat /\ cancels \in Nat
            /\ Consistent(st)
  BY DEF StInv, StTypeOK, HeldOrTimed, UserHolds, Consistent

(***************************************************************************)
(* Lemmas about the handlers                                               *)
(***************************************************************************)
LEMMA Delays ==
  /\ Timeout \in Timer /\ Timeout # Off /\ T4 \in Timer /\ T4 # Off
  /\ T1 \in Timer /\ Off \in Timer /\ T1 \in Nat /\ T2 \in Nat
  BY TimersAssumption DEF Timer, Off

LEMMA NewTrans ==
  /\ NoTrans \in STrans /\ NoTrans.state = "none" /\ ~NoTrans.held
  /\ Gone \in STrans /\ Gone.state = "freed" /\ ~Gone.held
  /\ Allocated \in STrans /\ Allocated.state = "TRYING" /\ Allocated.held
<1>1. NoTrans \in STrans /\ NoTrans.state = "none" /\ ~NoTrans.held
  BY Delays DEF NoTrans, STrans, SStates
<1>2. Gone \in STrans /\ Gone.state = "freed" /\ ~Gone.held
  BY <1>1 DEF Gone, STrans, SStates
<1>3. Allocated \in STrans /\ Allocated.state = "TRYING" /\ Allocated.held
  BY <1>1 DEF Allocated, STrans, SStates, Unanswered
<1>. QED BY <1>1, <1>2, <1>3

LEMMA NewConsistent == Consistent(NoTrans) /\ Consistent(Gone) /\ Consistent(Allocated)
  BY NewTrans DEF Consistent, Live, Unanswered

\* an answer leaves the transaction with the user, or ends it for him
LEMMA RepliedConsistent ==
  ASSUME NEW t, Consistent(t), t.held, NEW class, NEW ok \in BOOLEAN,
         sinvite \in BOOLEAN, sreliable \in BOOLEAN
  PROVE  /\ Consistent(Replied(t, class, ok))
         /\ class # "1xx" => ~Replied(t, class, ok).held
<1>. DEFINE r == Replied(t, class, ok)
            tmrg == IF sreliable THEN Off ELSE T1
<1>1. CASE ~ok \/ (~sinvite /\ class # "1xx" /\ sreliable)
  <2>1. CASE ~ok
    <3>1. r = Gone
      BY <2>1 DEF Replied
    <3>. QED BY <3>1, <1>1, NewTrans, NewConsistent
  <2>2. CASE ok /\ ~sinvite /\ class # "1xx" /\ sreliable
    <3>1. r = OtherReplied(t, class)
      BY <2>2 DEF Replied
    <3>2. r = Gone
      BY <2>2, <3>1 DEF OtherReplied
    <3>. QED BY <3>2, NewTrans, NewConsistent
  <2>. QED BY <1>1, <2>1, <2>2
<1>2. CASE ok /\ class = "1xx"
  <2>1. r = [t EXCEPT !.state = "PROCEEDING"]
    BY <1>2 DEF Replied, InviteReplied, OtherReplied
  <2>. QED BY <1>2, <2>1 DEF Consistent, STrans, SStates, Unanswered, Live
<1>3. CASE ok /\ ((sinvite /\ class = "2xx") \/ (~sinvite /\ class # "1xx" /\ ~sreliable))
  <2>. DEFINE s == IF sinvite THEN "ACCEPTED" ELSE "COMPLETED"
  <2>1. r = [t EXCEPT !.state = s, !.held = FALSE, !.tmr = Timeout]
    BY <1>3 DEF Replied, InviteReplied, OtherReplied
  <2>2. s \in SStates /\ s \notin Unanswered
    BY DEF SStates, Unanswered
  <2>. HIDE DEF s
  <2>. QED BY <2>1, <2>2, Delays DEF Consistent, STrans
<1>4. CASE ok /\ sinvite /\ class \notin {"1xx", "2xx"}
  <2>1. r = [t EXCEPT !.state = "COMPLETED", !.held = FALSE, !.tmr = Timeout, !.tmrg = tmrg]
    BY <1>4 DEF Replied, InviteReplied
  <2>2. "COMPLETED" \in SStates /\ "COMPLETED" \notin Unanswered /\ tmrg \in Timer
    BY Delays DEF SStates, Unanswered
  <2>. HIDE DEF tmrg
  <2>. QED BY <2>1, <2>2, Delays DEF Consistent, STrans
<1>. QED BY <1>1, <1>2, <1>3, <1>4

LEMMA AckedConsistent ==
  ASSUME NEW t, Consistent(t)
  PROVE  Consistent(Acked(t))
<1>1. CASE t.state = "COMPLETED" /\ sreliable
  BY <1>1, NewConsistent DEF Acked
<1>2. CASE t.state = "COMPLETED" /\ ~sreliable
  <2>1. Acked(t) = [t EXCEPT !.state = "CONFIRMED", !.tmr = T4, !.tmrg = Off]
    BY <1>2 DEF Acked
  <2>2. ~t.held /\ t \in STrans
    BY <1>2 DEF Consistent, Unanswered
  <2>3. "CONFIRMED" \in SStates /\ "CONFIRMED" \notin Unanswered
    BY DEF SStates, Unanswered
  <2>. QED BY <2>1, <2>2, <2>3, Delays DEF Consistent, STrans
<1>3. CASE t.state # "COMPLETED"
  BY <1>3 DEF Acked
<1>. QED BY <1>1, <1>2, <1>3

LEMMA TimedConsistent ==
  ASSUME NEW t, Consistent(t)
  PROVE  /\ Consistent(ResponseRetransmitted(t))
         /\ t.tmr # 0 /\ t.tmrg # 0 => Consistent(TransElapsed(t))
<1>1. /\ 2 * t.shift \in Nat /\ t.txc + 1 \in Nat
      /\ Min2(2 * t.shift, T2) \in Timer
  BY Delays DEF Consistent, STrans, Min2, Timer, Off
<1>2. \A n \in Timer : n # 0 => Elapse(n) \in Timer /\ (Elapse(n) = Off <=> n = Off)
  BY DEF Elapse, Timer, Off
<1>3. Consistent(ResponseRetransmitted(t))
  BY <1>1 DEF ResponseRetransmitted, Consistent, STrans, Live
<1>4. ASSUME t.tmr # 0, t.tmrg # 0 PROVE Consistent(TransElapsed(t))
  <2>1. t.tmr \in Timer /\ t.tmrg \in Timer
    BY DEF Consistent, STrans
  <2>. QED BY <1>2, <1>4, <2>1 DEF TransElapsed, Consistent, STrans, Live
<1>. QED BY <1>3, <1>4

(***************************************************************************)
(* The invariant is inductive.                                             *)
(***************************************************************************)
LEMMA ServerInit == StInit => StInv
  BY NewConsistent, InvIsConsistent DEF StInit

THEOREM ServerStep == StInv /\ [StNext]_stvars => StInv'
<1>. SUFFICES ASSUME StInv, [StNext]_stvars PROVE StInv'
  OBVIOUS
<1>0. /\ Consistent(st) /\ requests \in Nat /\ cancels \in Nat
      /\ sinvite \in BOOLEAN /\ sreliable \in BOOLEAN
  BY InvIsConsistent
<1>1. CASE RequestArrives
  <2>1. Consistent(st)' /\ requests' \in Nat /\ cancels' \in Nat
    BY <1>0, <1>1, NewConsistent DEF RequestArrives, Consistent
  <2>. QED BY <1>0, <1>1, <2>1 DEF RequestArrives, Unchanged, StInv, StTypeOK, HeldOrTimed,
                                   UserHolds, Consistent
<1>2. ASSUME NEW class \in {"1xx", "2xx", "fail"}, NEW ok \in BOOLEAN, Reply(class, ok)
      PROVE  StInv'
  <2>1. Consistent(Replied(st, class, ok))
    BY <1>0, <1>2, RepliedConsistent DEF Reply
  <2>. QED BY <1>0, <1>2, <2>1 DEF Reply, Unchanged, StInv, StTypeOK, HeldOrTimed,
                                   UserHolds, Consistent
<1>3. CASE AckArrives
  <2>1. Consistent(Acked(st))
    BY <1>0, AckedConsistent
  <2>. QED BY <1>0, <1>3, <2>1 DEF AckArrives, Unchanged, StInv, StTypeOK, HeldOrTimed,
                                   UserHolds, Consistent
<1>4. ASSUME NEW ok \in BOOLEAN, CancelArrives(ok) PROVE StInv'
  <2>1. CASE st.state \in Unanswered
    <3>1. Consistent(Replied(st, "487", ok))
      BY <1>0, <2>1, RepliedConsistent DEF Consistent
    <3>2. /\ st' = Replied(st, "487", ok) /\ cancels' = cancels + 1
          /\ UNCHANGED <<requests, sinvite, sreliable>>
      BY <1>4, <2>1 DEF CancelArrives, Unchanged
    <3>. QED BY <1>0, <3>1, <3>2 DEF StInv, StTypeOK, HeldOrTimed, UserHolds, Consistent
  <2>2. CASE st.state \notin Unanswered
    <3>1. UNCHANGED stvars
      BY <1>4, <2>2 DEF CancelArrives, Unchanged, stvars
    <3>. QED BY <3>1 DEF stvars, StInv, StTypeOK, HeldOrTimed, UserHolds
  <2>. QED BY <2>1, <2>2
<1>5. CASE StExpire
  BY <1>0, <1>5, NewConsistent
  DEF StExpire, Unchanged, StInv, StTypeOK, HeldOrTimed, UserHolds, Consistent
<1>6. CASE StRetransmit
  <2>1. Consistent(ResponseRetransmitted(st))
    BY <1>0, TimedConsistent
  <2>. QED BY <1>0, <1>6, <2>1 DEF StRetransmit, Unchanged, StInv, StTypeOK, HeldOrTimed,
                                   UserHolds, Consistent
<1>7. CASE StTick
  <2>1. Consistent(TransElapsed(st))
    BY <1>0, <1>7, TimedConsistent DEF StTick
  <2>. QED BY <1>0, <1>7, <2>1 DEF StTick, Unchanged, StInv, StTypeOK, HeldOrTimed,
                                   UserHolds, Consistent
<1>8. CASE UNCHANGED stvars
  BY <1>8 DEF stvars, StInv, StTypeOK, HeldOrTimed, UserHolds
<1>. QED BY <1>1, <1>2, <1>3, <1>4, <1>5, <1>6, <1>7, <1>8 DEF StNext

(***************************************************************************)
(* The theorems                                                            *)
(***************************************************************************)
LEMMA ServerAlways == StSpec => []StInv
  BY ServerInit, ServerStep, PTL DEF StSpec

\* The transaction is well formed in every reachable state.
THEOREM ServerTypeCorrect == StSpec => []StTypeOK
<1>1. StInv => StTypeOK
  BY DEF StInv
<1>. QED BY <1>1, ServerAlways, PTL

\* The pointer a session holds to its server transaction is never stale, and
\* what nobody holds is on its way out (sip_strans_reply of strans.c).
THEOREM NeverStale == StSpec => []HeldOrTimed
<1>1. StInv => HeldOrTimed
  BY DEF StInv
<1>. QED BY <1>1, ServerAlways, PTL

\* cancel_handler of strans.c tells the user of a CANCEL only while he has
\* not answered, and takes the transaction from him with it.
THEOREM CancelTold == StSpec => CancelToldOnce
<1>1. StInv /\ [StNext]_stvars => [cancels' # cancels => st.held /\ ~st'.held]_stvars
  <2>. SUFFICES ASSUME StInv, StNext, cancels' # cancels PROVE st.held /\ ~st'.held
    BY DEF stvars
  <2>1. PICK ok \in BOOLEAN : CancelArrives(ok)
    BY DEF StNext, RequestArrives, Reply, AckArrives, StExpire, StRetransmit, StTick
  <2>2. st.state \in Unanswered /\ st' = Replied(st, "487", ok)
    BY <2>1 DEF CancelArrives
  <2>3. Consistent(st) /\ st.held /\ sinvite \in BOOLEAN /\ sreliable \in BOOLEAN
    BY <2>2, InvIsConsistent DEF Consistent
  <2>4. ~Replied(st, "487", ok).held
    BY <2>3, RepliedConsistent
  <2>. QED BY <2>2, <2>3, <2>4
<1>. QED BY <1>1, ServerAlways, PTL DEF StSpec, CancelToldOnce

(***************************************************************************)
(* The call.  Its inductive invariant.                                     *)
(***************************************************************************)
Replies == [tmr : Timer, tmrg : Timer, shift : Nat]

\* the kinds of transaction and the types of the variables
CallTyped ==
    /\ invite = TRUE /\ reliable = FALSE /\ sinvite = TRUE /\ sreliable = FALSE
    /\ ct \in [Txn -> Trans] /\ st \in STrans /\ requests \in Nat
    /\ net \in [Datagram -> Off..Life]
    /\ canceled \in BOOLEAN /\ acked \in BOOLEAN
    /\ outcome \in {"none", "2xx", "error"} \union Failures
    /\ decision \in {"none", "2xx"} \union Failures
    /\ ackKept \in Timer /\ answer \in Replies

\* counted in T1
Whole(n) == \E m \in Nat : n = m * T1

\* The caller's INVITE is repeated while it is CALLING, and then at moments
\* that follow from its deadline.
Scheduled(t) ==
    /\ t.state # "TRYING"
    /\ t.state # "CALLING" => t.tmre = Off
    /\ t.state = "CALLING" =>
          /\ t.tmr \in 0..Timeout /\ t.tmre \in Nat
          /\ Whole(t.shift)
          /\ Timeout - t.tmr + t.tmre = 2 * t.shift - T1

\* no other attempt is used, and no deadline runs for what was never sent
OneInvite ==
    /\ \A k \in Attempt : k # 1 => ~Reports(ct[k])
    /\ \A k \in Txn : ct[k].state = "none" => ct[k].tmr = Off

\* The server transaction t absorbs every INVITE that c may send or that is
\* deliverable for another n: while it is live it outlasts them.
Absorbs(t, c, n) ==
    /\ t.held <=> t.state \in Unanswered
    /\ t.state \in Unanswered \union {"none", "freed"} => t.tmr = Off
    /\ t.state \in {"ACCEPTED", "COMPLETED"} =>
          n < t.tmr /\ (c.state = "CALLING" => c.tmr <= t.tmr)
    /\ t.state = "CONFIRMED" => n < t.tmr /\ c.state \in {"COMPLETED", "freed"}
    /\ t.state = "freed" => n = Off /\ (c.state = "CALLING" => c.tmr = 0)
    /\ c.state = "none" => n = Off /\ t.state = "none"

\* the callee's answer and the state of his transaction agree
Decided ==
    /\ decision = "none" <=> st.state \in Unanswered \union {"none"}
    /\ st.state = "ACCEPTED" => decision = "2xx"
    /\ st.state \in {"COMPLETED", "CONFIRMED"} => decision \in Failures
    /\ answer # NoReply => decision = "2xx"

\* what may be delivered was sent for a reason that still holds
Founded ==
    /\ \A m \in {"2xx"} \union Failures : Deliverable(m) => decision = m
    /\ Deliverable("ACK") => ct[1].state \in {"COMPLETED", "freed"}
    /\ Deliverable("ACK2xx") \/ ackKept # Off => outcome = "2xx"
    /\ Deliverable("CANCEL") \/ ct[CancelId].state # "none" => canceled
    /\ ct[1].state \in Open \union {"none"} => outcome = "none"

CallInv ==
    /\ CallTyped /\ Scheduled(ct[1]) /\ OneInvite
    /\ Absorbs(st, ct[1], net["INVITE"])
    /\ requests = (IF st.state = "none" THEN 0 ELSE 1)
    /\ Decided /\ Founded /\ SameOutcome

(***************************************************************************)
(* Lemmas                                                                  *)
(***************************************************************************)
LEMMA Durations ==
  /\ T1 \in Nat \ {0} /\ T2 \in Nat \ {0} /\ T4 \in Nat \ {0} /\ Life \in Nat
  /\ Timeout \in Nat \ {0} /\ CompleteWait \in Nat \ {0}
  /\ Life < T1 /\ Life < T4 /\ Life < Timeout
<1>1. PICK n \in 1..Timeout : Timeout = 2 * (n * T1)
  BY PromptAssumption
<1>2. n * T1 >= T1
  BY <1>1, TimersAssumption
<1>. QED BY <1>1, <1>2, TimersAssumption, LifeAssumption, PromptAssumption

LEMMA SentNet ==
  ASSUME NEW ms, net \in [Datagram -> Off..Life]
  PROVE  /\ Sent(ms) \in [Datagram -> Off..Life]
         /\ \A m \in Datagram : Sent(ms)[m] = IF m \in ms THEN Life ELSE net[m]
<1>1. Life \in Off..Life
  BY Durations DEF Off
<1>. QED BY <1>1 DEF Sent

\* the caller's INVITE as the handlers leave it
LEMMA FirstSent ==
  ASSUME reliable = FALSE
  PROVE  LET r == Requested(TRUE) IN
         r \in Trans /\ Scheduled(r) /\ r.state = "CALLING" /\ r.tmr = Timeout
<1>. DEFINE r == Requested(TRUE)
<1>1. /\ r.state = "CALLING" /\ r.tmr = Timeout /\ r.tmre = T1 /\ r.shift = T1
  BY DEF Requested
<1>2. r \in Trans
  BY RequestedTrans
<1>. HIDE DEF r
<1>3. Whole(T1) /\ T1 \in Nat /\ Timeout \in Nat
  <2>1. T1 = 1 * T1
    BY Durations
  <2>. QED BY <2>1, Durations DEF Whole
<1>4. Scheduled(r)
  BY <1>1, <1>3 DEF Scheduled
<1>. QED BY <1>1, <1>2, <1>4 DEF r

\* An INVITE is repeated no later than T1 before its deadline: both are counted in T1, the
\* moments of the repetitions by odd numbers and the deadline by an even one.
LEMMA RepeatedInTime ==
  ASSUME NEW t \in Trans, Scheduled(t), t.state = "CALLING", t.tmre = 0
  PROVE  /\ t.tmr >= T1
         /\ Retransmitted(t) \in Trans /\ Scheduled(Retransmitted(t))
         /\ Retransmitted(t).state = "CALLING" /\ Retransmitted(t).tmr = t.tmr
<1>. DEFINE r == Retransmitted(t)
<1>1. PICK m \in Nat : t.shift = m * T1
  BY DEF Scheduled, Whole
<1>2. PICK n \in 1..Timeout : Timeout = 2 * (n * T1)
  BY PromptAssumption
<1>3. /\ t.tmr \in 0..Timeout /\ Timeout - t.tmr = 2 * t.shift - T1
      /\ t.shift \in Nat /\ T1 \in Nat \ {0} /\ Timeout \in Nat
  BY Durations DEF Scheduled, Trans
<1>4. t.tmr >= T1
  <2>. DEFINE a == m * T1
              b == n * T1
  <2>1. a \in Nat /\ b \in Nat /\ 2 * a <= 2 * b + T1 /\ Timeout = 2 * b /\ t.shift = a
    BY <1>1, <1>2, <1>3
  <2>2. m <= n
    <3>1. ASSUME m >= n + 1 PROVE FALSE
      <4>1. m * T1 >= (n + 1) * T1
        BY <1>3, <3>1
      <4>2. (n + 1) * T1 = n * T1 + T1
        BY <1>3
      <4>. QED BY <1>3, <2>1, <4>1, <4>2
    <3>. QED BY <3>1
  <2>3. a <= b
    BY <1>3, <2>2
  <2>. HIDE DEF a, b
  <2>. QED BY <1>3, <2>1, <2>3
<1>5. r = [t EXCEPT !.txc = @ + 1, !.shift = 2 * @, !.tmre = 2 * t.shift]
  BY DEF Retransmitted, RetransmitDelay
<1>6. r.state = "CALLING" /\ r.tmr = t.tmr /\ r.shift = 2 * t.shift /\ r.tmre = 2 * t.shift
  BY <1>5 DEF Trans
<1>7. r \in Trans
  BY RetransmittedTrans
<1>. HIDE DEF r
<1>8. Whole(r.shift)
  <2>1. r.shift = (2 * m) * T1 /\ 2 * m \in Nat
    BY <1>1, <1>3, <1>6
  <2>. QED BY <2>1 DEF Whole
<1>9. Timeout - r.tmr + r.tmre = 2 * r.shift - T1
  BY <1>3, <1>6
<1>10. Scheduled(r)
  BY <1>3, <1>6, <1>8, <1>9 DEF Scheduled
<1>. QED BY <1>4, <1>6, <1>7, <1>10 DEF r

LEMMA Ended ==
  ASSUME reliable = FALSE
  PROVE  /\ Freed \in Trans /\ Scheduled(Freed) /\ Freed.state = "freed"
         /\ LET r == Completed(CompleteWait) IN
            r \in Trans /\ Scheduled(r) /\ r.state = "COMPLETED"
<1>1. Unused = [state |-> "none", tmr |-> Off, tmre |-> Off, txc |-> 0, shift |-> T1]
  BY DEF Unused
<1>2. Freed = [state |-> "freed", tmr |-> Off, tmre |-> Off, txc |-> 0, shift |-> T1]
  BY <1>1 DEF Freed
<1>3. Completed(CompleteWait)
        = [state |-> "COMPLETED", tmr |-> CompleteWait, tmre |-> Off, txc |-> 0, shift |-> T1]
  BY <1>1 DEF Completed
<1>4. Freed \in Trans /\ Completed(CompleteWait) \in Trans
  BY Durations, EndedTrans
<1>. QED BY <1>2, <1>3, <1>4 DEF Scheduled

\* a final response ends the INVITE, or finds it ended
LEMMA FinalResponse ==
  ASSUME invite, reliable = FALSE, NEW t \in Trans, Scheduled(t), NEW class \in Failures
  PROVE  LET r == Responded(1, t, class) IN
         t.state \in Open \union {"COMPLETED"} =>
            r \in Trans /\ Scheduled(r) /\ r.state = "COMPLETED"
<1>1. IsInvite(1)
  BY DEF IsInvite, CancelId
<1>2. CASE Reports(t)
  <2>1. Responded(1, t, class) = Completed(CompleteWait)
    BY <1>1, <1>2 DEF Responded, InviteResponse, Failures
  <2>. QED BY <2>1, Ended
<1>3. CASE ~Reports(t)
  <2>1. Responded(1, t, class) = t /\ t.state \notin Open
    BY <1>1, <1>3 DEF Responded, InviteResponse, Failures, Reports, Open
  <2>. QED BY <2>1
<1>. QED BY <1>2, <1>3

\* the callee's answer
LEMMA Answered ==
  ASSUME NEW t \in STrans, NEW class, class # "1xx", sinvite = TRUE
  PROVE  LET r == Replied(t, class, TRUE) IN
         /\ r \in STrans /\ ~r.held /\ r.tmr = Timeout
         /\ r.state = IF class = "2xx" THEN "ACCEPTED" ELSE "COMPLETED"
<1>. DEFINE r == Replied(t, class, TRUE)
            d == IF sreliable THEN Off ELSE T1
<1>0. {Off, T1, Timeout} \subseteq Timer
  BY Durations DEF Timer, Off
<1>1. CASE class = "2xx"
  <2>1. r = [t EXCEPT !.state = "ACCEPTED", !.held = FALSE, !.tmr = Timeout]
    BY <1>1 DEF Replied, InviteReplied
  <2>. QED BY <1>0, <1>1, <2>1 DEF STrans, SStates
<1>2. CASE class # "2xx"
  <2>1. r = [t EXCEPT !.state = "COMPLETED", !.held = FALSE, !.tmr = Timeout, !.tmrg = d]
    BY <1>2 DEF Replied, InviteReplied
  <2>2. d \in Timer
    BY <1>0
  <2>. HIDE DEF d
  <2>. QED BY <1>0, <1>2, <2>1, <2>2 DEF STrans, SStates
<1>. QED BY <1>1, <1>2

LEMMA Strans ==
  /\ NoTrans \in STrans /\ NoTrans.state = "none" /\ ~NoTrans.held /\ NoTrans.tmr = Off
  /\ Gone \in STrans /\ Gone.state = "freed" /\ ~Gone.held /\ Gone.tmr = Off
  /\ sinvite = TRUE =>
        LET r == Replied(Allocated, "1xx", TRUE) IN
        r \in STrans /\ r.state = "PROCEEDING" /\ r.held /\ r.tmr = Off
<1>0. Off \in Timer /\ T1 \in Nat
  BY Durations DEF Timer, Off
<1>1. NoTrans \in STrans /\ NoTrans.state = "none" /\ ~NoTrans.held /\ NoTrans.tmr = Off
  BY <1>0 DEF NoTrans, STrans, SStates
<1>2. Gone \in STrans /\ Gone.state = "freed" /\ ~Gone.held /\ Gone.tmr = Off
  BY <1>1 DEF Gone, STrans, SStates
<1>3. Allocated \in STrans /\ Allocated.held /\ Allocated.tmr = Off
  BY <1>1 DEF Allocated, STrans, SStates, Unanswered
<1>4. ASSUME sinvite = TRUE
      PROVE  LET r == Replied(Allocated, "1xx", TRUE) IN
             r \in STrans /\ r.state = "PROCEEDING" /\ r.held /\ r.tmr = Off
  <2>1. Replied(Allocated, "1xx", TRUE) = [Allocated EXCEPT !.state = "PROCEEDING"]
    BY <1>4 DEF Replied, InviteReplied
  <2>. QED BY <1>3, <2>1 DEF STrans, SStates, Unanswered
<1>. QED BY <1>1, <1>2, <1>4

\* one transaction of the caller changes
LEMMA OneTxn ==
  ASSUME ct \in [Txn -> Trans], NEW k \in Txn, NEW r \in Trans,
         ct' = [ct EXCEPT ![k] = r]
  PROVE  /\ ct' \in [Txn -> Trans] /\ ct'[k] = r
         /\ \A j \in Txn : j # k => ct'[j] = ct[j]
         /\ OneInvite /\ r.state # "none" /\ (k \in Attempt /\ k # 1 => ~Reports(r))
              => OneInvite'
<1>1. /\ ct' \in [Txn -> Trans] /\ ct'[k] = r
      /\ \A j \in Txn : j # k => ct'[j] = ct[j]
  OBVIOUS
<1>. QED BY <1>1, Keys DEF OneInvite

\* sip_request_cancel on the caller's INVITE
LEMMA CancelSent ==
  ASSUME invite, reliable = FALSE, NEW f \in [Txn -> Trans], Scheduled(f[1])
  PROVE  LET g == Cancelled(f, 1, TRUE) IN
         /\ g \in [Txn -> Trans] /\ Scheduled(g[1]) /\ g[1].state = f[1].state
         /\ f[1].state # "PROCEEDING" => g = f
         /\ g[CancelId] = f[CancelId] \/ g[CancelId].state = "TRYING"
         /\ \A k \in Txn : k \notin {CancelId, 1} => g[k] = f[k]
<1>. DEFINE g == Cancelled(f, 1, TRUE)
            u == [f[1] EXCEPT !.tmr = Timeout]
<1>1. IsInvite(1) /\ CancelId \in Txn /\ 1 \in Txn /\ CancelId # 1
  BY Keys DEF IsInvite, CancelId
<1>2. CASE f[1].state = "PROCEEDING"
  <2>1. g = [f EXCEPT ![1] = u, ![CancelId] = Requested(FALSE)]
    BY <1>1, <1>2 DEF Cancelled
  <2>2. Requested(FALSE) \in Trans /\ Requested(FALSE).state = "TRYING"
    BY RequestedTrans
  <2>3. u \in Trans /\ u.state = "PROCEEDING" /\ u.tmre = f[1].tmre
    <3>1. Timeout \in Timer /\ f[1] \in Trans
      BY <1>1, Durations DEF Timer, Off
    <3>. QED BY <1>2, <3>1 DEF Trans
  <2>4. Scheduled(u)
    BY <1>2, <2>3 DEF Scheduled
  <2>. HIDE DEF u
  <2>. QED BY <1>1, <1>2, <2>1, <2>2, <2>3, <2>4
<1>3. CASE f[1].state # "PROCEEDING"
  BY <1>3 DEF Cancelled
<1>. QED BY <1>2, <1>3

\* time
LEMMA TimePasses ==
  ASSUME NEW t \in Trans, Scheduled(t), t.tmr # 0, t.tmre # 0
  PROVE  /\ Elapsed(t) \in Trans /\ Scheduled(Elapsed(t)) /\ Elapsed(t).state = t.state
         /\ t.state = "CALLING" => Elapsed(t).tmr = t.tmr - 1
<1>. DEFINE r == Elapsed(t)
<1>1. r \in Trans /\ r.state = t.state
  BY ElapsedTrans
<1>2. r.tmr = Elapse(t.tmr) /\ r.tmre = Elapse(t.tmre) /\ r.shift = t.shift
  BY DEF Elapsed, Trans
<1>. HIDE DEF r
<1>3. CASE t.state = "CALLING"
  <2>1. t.tmr \in 1..Timeout /\ t.tmre \in Nat \ {0} /\ Timeout \in Nat /\ T1 \in Nat
        /\ t.shift \in Nat
    BY <1>3, Durations DEF Scheduled, Trans
  <2>2. r.tmr = t.tmr - 1 /\ r.tmre = t.tmre - 1
    BY <1>2, <2>1 DEF Elapse, Off
  <2>3. Timeout - r.tmr + r.tmre = Timeout - t.tmr + t.tmre
    BY <2>1, <2>2
  <2>4. Scheduled(r)
    BY <1>1, <1>2, <1>3, <2>1, <2>2, <2>3 DEF Scheduled
  <2>. QED BY <1>1, <2>2, <2>4 DEF r
<1>4. CASE t.state # "CALLING"
  <2>1. r.tmre = Off
    BY <1>2, <1>4 DEF Scheduled, Elapse
  <2>2. Scheduled(r)
    BY <1>1, <1>4, <2>1 DEF Scheduled
  <2>. QED BY <1>1, <1>4, <2>2 DEF r
<1>. QED BY <1>3, <1>4

(***************************************************************************)
(* The invariant is inductive.                                             *)
(***************************************************************************)
LEMMA InitHolds == Init => CallInv
<1>. SUFFICES ASSUME Init PROVE CallInv
  OBVIOUS
<1>. USE DEF Init, CtInit, StInit
<1>1. Unused \in Trans /\ Unused.state = "none" /\ Unused.tmre = Off
      /\ Unused.tmr = Off
  <2>1. Unused = [state |-> "none", tmr |-> Off, tmre |-> Off, txc |-> 0, shift |-> T1]
    BY DEF Unused
  <2>. QED BY <2>1, EndedTrans, Durations
<1>2. Off \in Timer /\ Off \in Off..Life /\ NoReply \in Replies
  BY Durations DEF Timer, Off, NoReply, Replies
<1>3. CallTyped
  BY <1>1, <1>2, Strans DEF CallTyped
<1>4. /\ \A k \in Txn : ct[k] = Unused
      /\ \A m \in Datagram : net[m] = Off
      /\ {"INVITE", "CANCEL", "ACK", "ACK2xx", "2xx"} \union Failures \subseteq Datagram
      /\ CancelId \in Txn /\ 1 \in Txn /\ Attempt \subseteq Txn
  BY Keys DEF Datagram, CancelId, Attempt
<1>5. Scheduled(ct[1]) /\ OneInvite
  BY <1>1, <1>4 DEF Scheduled, OneInvite, Reports, Open
<1>6. Absorbs(st, ct[1], net["INVITE"]) /\ requests = (IF st.state = "none" THEN 0 ELSE 1)
  BY <1>1, <1>4, Strans DEF Absorbs, Unanswered
<1>7. Decided /\ Founded /\ SameOutcome
  BY <1>1, <1>4, Strans DEF Decided, Founded, SameOutcome, Deliverable, Failures
<1>. QED BY <1>3, <1>5, <1>6, <1>7 DEF CallInv

\* what every step of the proof takes from the invariant
LEMMA Given ==
  ASSUME CallInv
  PROVE  /\ invite = TRUE /\ reliable = FALSE /\ sinvite = TRUE /\ sreliable = FALSE
         /\ ct \in [Txn -> Trans] /\ st \in STrans /\ net \in [Datagram -> Off..Life]
         /\ ct[1] \in Trans /\ Scheduled(ct[1]) /\ net["INVITE"] \in Off..Life
         /\ CancelId \in Txn /\ 1 \in Txn /\ CancelId # 1
         /\ {"INVITE", "CANCEL", "ACK", "ACK2xx", "1xx", "2xx", "200CANCEL"} \union Failures
              \subseteq Datagram
<1>1. CancelId \in Txn /\ 1 \in Txn /\ CancelId # 1
  BY Keys DEF CancelId
<1>. QED BY <1>1 DEF CallInv, CallTyped, Datagram

LEMMA DialInv == CallInv /\ Dial => CallInv'
<1>. SUFFICES ASSUME CallInv, Dial PROVE CallInv'
  OBVIOUS
<1>. USE Given DEF Rigid, CalleeSame
<1>1. /\ ct' \in [Txn -> Trans] /\ ct'[1] = Requested(TRUE) /\ OneInvite'
      /\ \A k \in Txn : k # 1 => ct'[k] = ct[k]
  <2>1. Requested(TRUE) \in Trans /\ Requested(TRUE).state # "none"
    BY FirstSent
  <2>. QED BY <2>1, OneTxn DEF Dial, CallInv
<1>2. /\ Scheduled(ct'[1]) /\ ct'[1].state = "CALLING"
  BY <1>1, FirstSent
<1>3. /\ net' \in [Datagram -> Off..Life]
      /\ \A m \in Datagram : net'[m] = IF m = "INVITE" THEN Life ELSE net[m]
  BY SentNet DEF Dial
<1>4. ct[1].state = "none" /\ st.state = "none"
  BY DEF Dial, CallInv, Absorbs
<1>5. CallTyped'
  BY <1>1, <1>3 DEF Dial, CallInv, CallTyped
<1>6. Absorbs(st, ct[1], net["INVITE"])'
  BY <1>2, <1>4 DEF Dial, CallInv, Absorbs, Unanswered
<1>7. Decided' /\ SameOutcome'
  BY DEF Dial, CallInv, Decided, SameOutcome
<1>8. Founded'
  BY <1>1, <1>2, <1>3, <1>4
  DEF Dial, CallInv, Founded, Deliverable, Datagram, Failures, Open
<1>. QED BY <1>1, <1>2, <1>5, <1>6, <1>7, <1>8 DEF Dial, CallInv

LEMMA HangUpInv == CallInv /\ HangUp => CallInv'
<1>. SUFFICES ASSUME CallInv, HangUp PROVE CallInv'
  OBVIOUS
<1>. USE Given DEF Rigid, CalleeSame
<1>1. /\ ct' \in [Txn -> Trans] /\ Scheduled(ct'[1]) /\ ct'[1].state = ct[1].state
      /\ ct[1].state = "CALLING" => ct'[1] = ct[1]
      /\ ct'[CancelId] = ct[CancelId] \/ ct'[CancelId].state # "none"
      /\ ct'[1].state # "none"
      /\ \A k \in Txn : k \notin {CancelId, 1} => ct'[k] = ct[k]
  BY CancelSent DEF HangUp, Open
<1>2. OneInvite'
  BY <1>1, Keys DEF CallInv, OneInvite, CancelId
<1>3. /\ net' \in [Datagram -> Off..Life]
      /\ \A m \in Datagram : m # "CANCEL" => net'[m] = net[m]
  BY SentNet DEF HangUp
<1>4. CallTyped'
  BY <1>1, <1>3 DEF HangUp, CallInv, CallTyped
<1>5. Absorbs(st, ct[1], net["INVITE"])'
  BY <1>1, <1>3 DEF HangUp, CallInv, Absorbs
<1>6. Decided' /\ SameOutcome'
  BY DEF HangUp, CallInv, Decided, SameOutcome
<1>7. Founded'
  BY <1>1, <1>3 DEF HangUp, CallInv, Founded, Deliverable, Datagram, Failures
<1>. QED BY <1>1, <1>2, <1>4, <1>5, <1>6, <1>7 DEF HangUp, CallInv

LEMMA ProvisionalInv == CallInv /\ RecvProvisional => CallInv'
<1>. SUFFICES ASSUME CallInv, RecvProvisional PROVE CallInv'
  OBVIOUS
<1>. USE Given DEF Rigid, CalleeSame
<1>. DEFINE r == Responded(1, ct[1], "1xx")
            f == [ct EXCEPT ![1] = r]
<1>1. r \in Trans /\ Scheduled(r) /\ r.state = "PROCEEDING"
  <2>1. r = [ct[1] EXCEPT !.state = "PROCEEDING", !.tmr = Off, !.tmre = Off]
    BY DEF RecvProvisional, Responded, InviteResponse, IsInvite, CancelId
  <2>2. "PROCEEDING" \in States /\ Off \in Timer
    BY DEF States, Open, Timer, Off
  <2>. QED BY <2>1, <2>2 DEF Trans, Scheduled
<1>. HIDE DEF r
<1>2. f \in [Txn -> Trans] /\ f[1] = r /\ \A k \in Txn : k # 1 => f[k] = ct[k]
  BY <1>1
<1>3. ct' = IF canceled THEN Cancelled(f, 1, TRUE) ELSE f
  BY DEF RecvProvisional, r
<1>. HIDE DEF f
<1>4. /\ ct' \in [Txn -> Trans] /\ Scheduled(ct'[1]) /\ ct'[1].state = "PROCEEDING"
      /\ ~canceled => ct'[CancelId] = ct[CancelId]
      /\ ct'[CancelId] = ct[CancelId] \/ ct'[CancelId].state # "none"
      /\ \A k \in Txn : k \notin {CancelId, 1} => ct'[k] = ct[k]
  BY <1>1, <1>2, <1>3, CancelSent
<1>5. OneInvite'
  BY <1>4, Keys DEF CallInv, OneInvite, CancelId
<1>6. /\ net' \in [Datagram -> Off..Life]
      /\ \A m \in Datagram : m # "CANCEL" \/ ~canceled => net'[m] = net[m]
  <2>1. net' = IF canceled THEN Sent({"CANCEL"}) ELSE net
    BY DEF RecvProvisional
  <2>. QED BY <2>1, SentNet
<1>7. ct[1].state = "CALLING"
  BY DEF RecvProvisional
<1>8. CallTyped'
  BY <1>4, <1>6 DEF RecvProvisional, CallInv, CallTyped
<1>9. Absorbs(st, ct[1], net["INVITE"])'
  BY <1>4, <1>6, <1>7 DEF RecvProvisional, CallInv, Absorbs
<1>10. Decided' /\ SameOutcome'
  BY DEF RecvProvisional, CallInv, Decided, SameOutcome
<1>11. Founded'
  BY <1>4, <1>6, <1>7
  DEF RecvProvisional, CallInv, Founded, Deliverable, Datagram, Failures, Open
<1>. QED BY <1>4, <1>5, <1>8, <1>9, <1>10, <1>11 DEF RecvProvisional, CallInv

LEMMA FailureInv == \A m \in Failures : CallInv /\ RecvFailure(m) => CallInv'
<1>. SUFFICES ASSUME NEW m \in Failures, CallInv, RecvFailure(m) PROVE CallInv'
  OBVIOUS
<1>. USE Given DEF Rigid, CalleeSame
<1>1. /\ ct' \in [Txn -> Trans] /\ Scheduled(ct'[1]) /\ ct'[1].state = "COMPLETED"
      /\ OneInvite' /\ \A k \in Txn : k # 1 => ct'[k] = ct[k]
  <2>. DEFINE r == Responded(1, ct[1], m)
  <2>1. r \in Trans /\ Scheduled(r) /\ r.state = "COMPLETED"
    BY FinalResponse DEF RecvFailure
  <2>2. ct' = [ct EXCEPT ![1] = r]
    BY DEF RecvFailure
  <2>. HIDE DEF r
  <2>. QED BY <2>1, <2>2, OneTxn DEF CallInv
<1>2. /\ net' \in [Datagram -> Off..Life]
      /\ \A d \in Datagram : d # "ACK" => net'[d] = net[d]
  BY SentNet DEF RecvFailure
<1>3. decision = m /\ ct[1].state \in Open \union {"COMPLETED"}
  BY DEF RecvFailure, CallInv, Founded
<1>4. outcome' \in {outcome, m}
  BY DEF RecvFailure
<1>5. outcome # "2xx" /\ ~acked
  BY <1>3 DEF CallInv, SameOutcome, Failures
<1>6. CallTyped'
  BY <1>1, <1>2, <1>4 DEF RecvFailure, CallInv, CallTyped
<1>7. Absorbs(st, ct[1], net["INVITE"])'
  BY <1>1, <1>2, <1>3 DEF RecvFailure, CallInv, Absorbs, Open
<1>8. Decided' /\ SameOutcome'
  BY <1>3, <1>4, <1>5 DEF RecvFailure, CallInv, Decided, SameOutcome
<1>9. Founded'
  BY <1>1, <1>2, <1>3, <1>5
  DEF RecvFailure, CallInv, Founded, Deliverable, Datagram, Failures, Open
<1>. QED BY <1>1, <1>6, <1>7, <1>8, <1>9 DEF RecvFailure, CallInv

LEMMA SuccessInv == CallInv /\ RecvSuccess => CallInv'
<1>. SUFFICES ASSUME CallInv, RecvSuccess PROVE CallInv'
  OBVIOUS
<1>. USE Given DEF Rigid, CalleeSame
<1>1. /\ net' \in [Datagram -> Off..Life]
      /\ \A d \in Datagram : d # "ACK2xx" => net'[d] = net[d]
  BY SentNet DEF RecvSuccess
<1>2. decision = "2xx"
  BY DEF RecvSuccess, CallInv, Founded
<1>3. CASE ~Reports(ct[1])
  <2>1. /\ UNCHANGED <<ct, outcome, ackKept, canceled>> /\ outcome = "2xx"
        /\ UNCHANGED <<st, requests, decision, answer, acked>>
    BY <1>3 DEF RecvSuccess, CallInv, Founded
  <2>2. CallTyped' /\ OneInvite'
    BY <1>1, <2>1 DEF RecvSuccess, CallInv, CallTyped, OneInvite
  <2>3. Absorbs(st, ct[1], net["INVITE"])'
    BY <1>1, <2>1 DEF CallInv
  <2>4. Decided' /\ SameOutcome'
    BY <2>1 DEF CallInv, Decided, SameOutcome
  <2>5. Founded'
    BY <1>1, <2>1 DEF CallInv, Founded, Deliverable, Datagram, Failures
  <2>. QED BY <2>1, <2>2, <2>3, <2>4, <2>5 DEF CallInv
<1>4. CASE Reports(ct[1])
  <2>1. ct' = [ct EXCEPT ![1] = Freed] /\ outcome' = "2xx" /\ ackKept' = Timeout
    <3>1. ct[1].state # "freed" /\ Responded(1, ct[1], "2xx") = Freed
      BY <1>4 DEF Responded, InviteResponse, IsInvite, CancelId, Reports, Open
    <3>. QED BY <3>1 DEF RecvSuccess
  <2>2. /\ ct' \in [Txn -> Trans] /\ Scheduled(ct'[1]) /\ ct'[1].state = "freed"
        /\ OneInvite' /\ \A k \in Txn : k # 1 => ct'[k] = ct[k]
    BY <2>1, Ended, OneTxn DEF CallInv
  <2>3. Timeout \in Timer
    BY Durations DEF Timer, Off
  <2>4. CallTyped'
    BY <1>1, <2>1, <2>2, <2>3 DEF RecvSuccess, CallInv, CallTyped
  <2>5. Absorbs(st, ct[1], net["INVITE"])'
    BY <1>1, <1>4, <2>2 DEF RecvSuccess, CallInv, Absorbs, Reports, Open
  <2>6. Decided' /\ SameOutcome'
    BY <1>2, <2>1 DEF RecvSuccess, CallInv, Decided, SameOutcome
  <2>7. Founded'
    BY <1>1, <2>1, <2>2
    DEF RecvSuccess, CallInv, Founded, Deliverable, Datagram, Failures, Open
  <2>. QED BY <2>2, <2>4, <2>5, <2>6, <2>7 DEF RecvSuccess, CallInv
<1>. QED BY <1>3, <1>4

LEMMA CancelOkInv == CallInv /\ RecvCancelOk => CallInv'
<1>. SUFFICES ASSUME CallInv, RecvCancelOk PROVE CallInv'
  OBVIOUS
<1>. USE Given DEF Rigid, CalleeSame
<1>. DEFINE r == Responded(CancelId, ct[CancelId], "2xx")
<1>1. r \in Trans /\ r.state # "none"
  <2>1. r = Completed(T4)
    BY DEF RecvCancelOk, Responded, NonInviteResponse, IsInvite, Reports
  <2>. QED BY <2>1, Durations, EndedTrans
<1>2. ct' = [ct EXCEPT ![CancelId] = r]
  BY DEF RecvCancelOk
<1>. HIDE DEF r
<1>3. /\ ct' \in [Txn -> Trans] /\ ct'[1] = ct[1] /\ OneInvite'
      /\ ct[CancelId].state # "none"
  <2>1. CancelId \notin Attempt
    BY DEF CancelId, Attempt
  <2>. QED BY <1>1, <1>2, <2>1, OneTxn DEF CallInv, RecvCancelOk, Open
<1>4. CallTyped'
  BY <1>3 DEF RecvCancelOk, CallInv, CallTyped
<1>5. Absorbs(st, ct[1], net["INVITE"])' /\ Decided' /\ SameOutcome'
  BY <1>3 DEF RecvCancelOk, CallInv, Decided, SameOutcome
<1>6. Founded'
  BY <1>3 DEF RecvCancelOk, CallInv, Founded, Deliverable
<1>. QED BY <1>3, <1>4, <1>5, <1>6 DEF RecvCancelOk, CallInv

\* a transaction of the caller runs into its deadline
LEMMA ExpiryInv ==
  ASSUME CallInv, NEW k \in Txn, ct[k].tmr = 0, ct' = [ct EXCEPT ![k] = Freed], net' = net,
         outcome' = IF k = 1 /\ Reports(ct[k]) THEN "error" ELSE outcome,
         UNCHANGED <<canceled, ackKept>>, CalleeSame, Rigid
  PROVE  CallInv'
<1>. USE Given DEF Rigid, CalleeSame
<1>1. /\ ct' \in [Txn -> Trans] /\ ct'[k] = Freed /\ OneInvite'
      /\ \A j \in Txn : j # k => ct'[j] = ct[j]
  <2>1. Freed \in Trans /\ ~Reports(Freed) /\ Freed.state # "none"
    BY Ended DEF Reports, Open
  <2>. QED BY <2>1, OneTxn DEF CallInv
<1>2. Scheduled(Freed) /\ Freed.state = "freed"
  BY Ended
<1>3. CallTyped'
  BY <1>1 DEF CallInv, CallTyped
<1>4. CASE k = 1
  <2>1. ct[1].state # "none"
    BY <1>4 DEF CallInv, OneInvite, Off
  <2>2. Absorbs(st, ct[1], net["INVITE"])'
    BY <1>1, <1>2, <1>4, <2>1 DEF CallInv, Absorbs
  <2>3. Decided' /\ SameOutcome'
    BY <1>4 DEF CallInv, Decided, SameOutcome, Founded, Reports, Failures
  <2>4. Founded'
    BY <1>1, <1>2, <1>4 DEF CallInv, Founded, Deliverable, Reports, Open
  <2>. QED BY <1>1, <1>2, <1>3, <1>4, <2>2, <2>3, <2>4 DEF CallInv
<1>5. CASE k # 1
  <2>1. Absorbs(st, ct[1], net["INVITE"])' /\ Decided' /\ SameOutcome'
    BY <1>1, <1>5 DEF CallInv, Decided, SameOutcome
  <2>2. k = CancelId => canceled
    BY DEF CallInv, Founded, OneInvite, Off
  <2>3. Founded'
    BY <1>1, <1>5, <2>2 DEF CallInv, Founded, Deliverable
  <2>. QED BY <1>1, <1>3, <1>5, <2>1, <2>3 DEF CallInv
<1>. QED BY <1>4, <1>5

\* Another copy of the INVITE, or of the CANCEL, goes out.  While the server transaction waits
\* for its own deadline, that of the caller is no later.
LEMMA RepeatInv ==
  ASSUME CallInv, NEW k \in Txn, ct[k].tmre = 0, Reports(ct[k]),
         ct' = [ct EXCEPT ![k] = Retransmitted(ct[k])],
         net' = Sent({IF k = CancelId THEN "CANCEL" ELSE "INVITE"}),
         UNCHANGED <<outcome, canceled, ackKept>>, CalleeSame, Rigid
  PROVE  CallInv'
<1>. USE Given DEF Rigid, CalleeSame
<1>1. k \in {CancelId, 1}
  BY Keys DEF CallInv, OneInvite, CancelId
<1>2. /\ ct' \in [Txn -> Trans] /\ ct'[k] = Retransmitted(ct[k]) /\ OneInvite'
      /\ ct'[k].state = ct[k].state /\ ct[k].state # "none"
      /\ \A j \in Txn : j # k => ct'[j] = ct[j]
  <2>1. ct[k] \in Trans /\ ct[k].state # "none"
    BY DEF Reports, Open
  <2>2. Retransmitted(ct[k]) \in Trans /\ Retransmitted(ct[k]).state = ct[k].state
    BY <2>1, RetransmittedTrans
  <2>3. k \in Attempt => k = 1
    BY <1>1 DEF CancelId, Attempt
  <2>. QED BY <2>1, <2>2, <2>3, OneTxn DEF CallInv
<1>3. /\ net' \in [Datagram -> Off..Life]
      /\ \A m \in Datagram :
           net'[m] = IF m = IF k = CancelId THEN "CANCEL" ELSE "INVITE" THEN Life ELSE net[m]
  BY SentNet
<1>4. CallTyped'
  BY <1>2, <1>3 DEF CallInv, CallTyped
<1>5. Decided' /\ SameOutcome'
  BY DEF CallInv, Decided, SameOutcome
<1>6. CASE k = CancelId
  <2>1. ct'[1] = ct[1] /\ net'["INVITE"] = net["INVITE"] /\ canceled
    BY <1>2, <1>3, <1>6 DEF CallInv, Founded
  <2>2. Founded'
    BY <1>3, <1>6, <2>1 DEF CallInv, Founded, Deliverable, Datagram, Failures
  <2>. QED BY <1>2, <1>4, <1>5, <2>1, <2>2 DEF CallInv
<1>7. CASE k = 1
  <2>1. ct[1].state = "CALLING"
    BY <1>7 DEF CallInv, Scheduled, Off
  <2>2. /\ ct[1].tmr >= T1 /\ ct'[1].tmr = ct[1].tmr /\ Scheduled(ct'[1])
        /\ ct'[1].state = "CALLING"
    BY <1>2, <1>7, <2>1, RepeatedInTime
  <2>3. net'["INVITE"] = Life /\ \A m \in Datagram : m # "INVITE" => net'[m] = net[m]
    BY <1>3, <1>7
  <2>4. Absorbs(st, ct[1], net["INVITE"])'
    <3>1. ct[1].tmr \in Nat /\ st.tmr \in Int /\ T1 \in Nat /\ Life \in Nat /\ Life < T1 /\ T1 # 0
      BY <2>1, Durations DEF Scheduled, STrans, Timer
    <3>. QED BY <2>1, <2>2, <2>3, <3>1 DEF CallInv, Absorbs
  <2>5. Founded'
    BY <1>2, <1>7, <2>1, <2>2, <2>3
    DEF CallInv, Founded, Deliverable, Datagram, Failures
  <2>. QED BY <1>2, <1>4, <1>5, <2>2, <2>4, <2>5 DEF CallInv
<1>. QED BY <1>1, <1>6, <1>7

LEMMA CallerTimerInv == \A k \in Txn : CallInv /\ CallerTimer(k) => CallInv'
  BY ExpiryInv, RepeatInv DEF CallerTimer

LEMMA AckForgottenInv == CallInv /\ AckForgotten => CallInv'
<1>. SUFFICES ASSUME CallInv, AckForgotten PROVE CallInv'
  OBVIOUS
<1>. USE DEF Rigid, CalleeSame, AckForgotten
<1>1. CallTyped' /\ OneInvite'
  BY DEF CallInv, CallTyped, OneInvite, Timer, Off
<1>2. Decided' /\ Founded' /\ SameOutcome'
  BY DEF CallInv, Decided, Founded, SameOutcome, Deliverable
<1>. QED BY <1>1, <1>2 DEF CallInv

(***************************************************************************)
(* The callee                                                              *)
(***************************************************************************)
\* A copy of the INVITE is absorbed; only the first one makes a transaction.
LEMMA ArrivalInv == CallInv /\ InviteArrives => CallInv'
<1>. SUFFICES ASSUME CallInv, InviteArrives PROVE CallInv'
  OBVIOUS
<1>. USE Given DEF Rigid, CallerSame
<1>1. /\ net["INVITE"] # Off /\ st.state # "freed" /\ ct[1].state # "none"
      /\ UNCHANGED <<ct, canceled, outcome, ackKept, answer, acked>>
  BY DEF InviteArrives, CallInv, Absorbs, Deliverable
<1>2. OneInvite'
  BY <1>1 DEF CallInv, OneInvite
<1>3. CASE Live(st)
  <2>1. UNCHANGED <<st, requests, decision>> /\ net' \in {Sent({LastResponse}), net}
        /\ (Repeats(st) \/ net' = net)
    BY <1>3 DEF InviteArrives
  <2>2. Repeats(st) => LastResponse \in {"1xx"} \union Failures
                       /\ (LastResponse # "1xx" => LastResponse = decision)
    BY DEF CallInv, Decided, LastResponse, Repeats
  <2>3. /\ net' \in [Datagram -> Off..Life] /\ net'["INVITE"] = net["INVITE"]
        /\ \A m \in Datagram : m \notin {"1xx", decision} => net'[m] = net[m]
        /\ \A m \in Datagram \ ({"1xx"} \union Failures) : net'[m] = net[m]
    BY <2>1, <2>2, SentNet DEF Failures
  <2>4. CallTyped'
    BY <1>1, <2>1, <2>3 DEF InviteArrives, CallInv, CallTyped
  <2>5. Decided' /\ SameOutcome'
    BY <1>1, <2>1 DEF CallInv, Decided, SameOutcome
  <2>6. Founded'
    BY <1>1, <2>1, <2>3 DEF CallInv, Founded, Deliverable, Datagram, Failures
  <2>. QED BY <1>1, <1>2, <2>1, <2>3, <2>4, <2>5, <2>6 DEF CallInv
<1>4. CASE ~Live(st)
  <2>1. st.state = "none" /\ requests = 0
    BY <1>1, <1>4 DEF Live, CallInv
  <2>2. /\ st' = Replied(Allocated, "1xx", TRUE) /\ requests' = 1
        /\ decision' = "none" /\ net' = Sent({"1xx"})
        /\ UNCHANGED <<invite, reliable, sinvite, sreliable>>
    BY <1>4, <2>1 DEF InviteArrives
  <2>3. st' \in STrans /\ st'.state = "PROCEEDING" /\ st'.held /\ st'.tmr = Off
    BY <2>2, Strans
  <2>4. /\ net' \in [Datagram -> Off..Life]
        /\ \A m \in Datagram : m # "1xx" => net'[m] = net[m]
    BY <2>2, SentNet
  <2>5. decision = "none"
    BY <2>1 DEF CallInv, Decided
  <2>6. CallTyped'
    BY <1>1, <2>2, <2>3, <2>4 DEF CallInv, CallTyped
  <2>7. Absorbs(st, ct[1], net["INVITE"])'
    BY <1>1, <2>3 DEF Absorbs, Unanswered
  <2>8. Decided' /\ SameOutcome'
    BY <1>1, <2>2, <2>3, <2>5 DEF CallInv, Decided, SameOutcome, Unanswered, Failures
  <2>9. Founded'
    BY <1>1, <2>2, <2>4, <2>5 DEF CallInv, Founded, Deliverable, Datagram, Failures
  <2>10. Scheduled(ct[1])' /\ requests' = (IF st'.state = "none" THEN 0 ELSE 1)
    BY <1>1, <2>2, <2>3
  <2>. QED BY <1>2, <2>6, <2>7, <2>8, <2>9, <2>10 DEF CallInv
<1>. QED BY <1>3, <1>4

\* The callee answers an INVITE that he has not answered, with a class and what may be
\* delivered for it.
LEMMA AnswerInv ==
  ASSUME CallInv, st.held, NEW class \in {"2xx"} \union Failures,
         st' = Replied(st, class, TRUE), decision' = class,
         net' = Sent({class}) \/ net' = Sent({"200CANCEL", class}),
         class = "2xx" \/ UNCHANGED answer, class = "2xx" => answer' = NewReply,
         class = "487" => canceled,
         UNCHANGED <<requests, acked>>, CallerSame, Rigid
  PROVE  CallInv'
<1>. USE Given DEF Rigid, CallerSame
<1>1. /\ st' \in STrans /\ ~st'.held /\ st'.tmr = Timeout
      /\ st'.state = IF class = "2xx" THEN "ACCEPTED" ELSE "COMPLETED"
  BY Answered DEF Failures
<1>2. /\ net' \in [Datagram -> Off..Life]
      /\ \A m \in Datagram : m \notin {"200CANCEL", class} => net'[m] = net[m]
  BY SentNet
<1>3. decision = "none" /\ st.state \in Unanswered /\ answer = NoReply
  BY DEF CallInv, Absorbs, Decided
<1>4. OneInvite'
  BY DEF CallInv, OneInvite
<1>5. CallTyped'
  <2>1. NewReply \in Replies
    BY Durations DEF NewReply, Replies, Timer, Off
  <2>. QED BY <1>1, <1>2, <2>1 DEF CallInv, CallTyped
<1>6. Absorbs(st, ct[1], net["INVITE"])'
  <2>1. net'["INVITE"] = net["INVITE"] /\ net["INVITE"] < Timeout
    BY <1>2, Durations DEF Failures, Off
  <2>2. ct[1].state = "CALLING" => ct[1].tmr <= Timeout
    BY Durations DEF Scheduled
  <2>3. ct[1].state # "none"
    BY <1>3 DEF CallInv, Absorbs, Unanswered
  <2>4. st'.state \in {"ACCEPTED", "COMPLETED"}
    BY <1>1
  <2>. QED BY <1>1, <2>1, <2>2, <2>3, <2>4 DEF Absorbs, Unanswered
<1>7. Decided'
  BY <1>1, <1>3 DEF Decided, Unanswered, Failures
<1>8. outcome \in {"none", "error"} /\ ~acked
  BY <1>3 DEF CallInv, CallTyped, SameOutcome, Failures
<1>9. SameOutcome'
  BY <1>8 DEF SameOutcome, Failures
<1>10. Founded'
  BY <1>2, <1>3 DEF CallInv, Founded, Deliverable, Datagram, Failures
<1>. QED BY <1>1, <1>3, <1>4, <1>5, <1>6, <1>7, <1>9, <1>10 DEF CallInv, Unanswered

LEMMA AcceptInv == CallInv /\ Accept => CallInv'
  BY AnswerInv DEF Accept, Failures

LEMMA RejectInv == CallInv /\ Reject => CallInv'
  BY AnswerInv DEF Reject, Failures

LEMMA CancelIsReceivedInv == CallInv /\ CancelIsReceived => CallInv'
<1>. SUFFICES ASSUME CallInv, CancelIsReceived PROVE CallInv'
  OBVIOUS
<1>. USE Given DEF Rigid, CallerSame
<1>1. canceled
  BY DEF CancelIsReceived, CallInv, Founded
<1>2. CASE st.state \in Unanswered
  <2>1. st.held
    BY <1>2 DEF CallInv, Absorbs
  <2>2. /\ st' = Replied(st, "487", TRUE) /\ decision' = "487"
        /\ net' = Sent({"200CANCEL", "487"}) /\ UNCHANGED <<requests, answer, acked>>
    BY <1>2 DEF CancelIsReceived
  <2>. QED BY <1>1, <2>1, <2>2, AnswerInv DEF CancelIsReceived, Failures
<1>3. CASE st.state \notin Unanswered
  <2>1. UNCHANGED <<ct, canceled, outcome, ackKept, st, decision, requests, answer, acked>>
    BY <1>3 DEF CancelIsReceived
  <2>2. /\ net' \in [Datagram -> Off..Life]
        /\ \A m \in Datagram : m # "200CANCEL" => net'[m] = net[m]
    BY <1>3, SentNet DEF CancelIsReceived
  <2>3. CallTyped' /\ OneInvite'
    BY <2>1, <2>2 DEF CancelIsReceived, CallInv, CallTyped, OneInvite
  <2>4. Decided' /\ SameOutcome'
    BY <2>1 DEF CallInv, Decided, SameOutcome
  <2>5. Founded'
    BY <2>1, <2>2 DEF CallInv, Founded, Deliverable, Datagram, Failures
  <2>. QED BY <2>1, <2>2, <2>3, <2>4, <2>5 DEF CallInv
<1>. QED BY <1>2, <1>3

\* The caller acknowledges a failure when he has it, and sends no INVITE after that; the copies
\* of before are gone when T4 is over.
LEMMA AckIsReceivedInv == CallInv /\ AckIsReceived => CallInv'
<1>. SUFFICES ASSUME CallInv, AckIsReceived PROVE CallInv'
  OBVIOUS
<1>. USE Given DEF Rigid, CallerSame
<1>1. /\ UNCHANGED <<ct, canceled, outcome, ackKept, net, requests, decision, answer, acked>>
      /\ ct[1].state \in {"COMPLETED", "freed"} /\ st' = Acked(st)
  BY DEF AckIsReceived, CallInv, Founded
<1>2. OneInvite' /\ SameOutcome' /\ Founded'
  BY <1>1 DEF CallInv, OneInvite, SameOutcome, Founded, Deliverable
<1>3. CASE st.state = "COMPLETED"
  <2>1. st' = [st EXCEPT !.state = "CONFIRMED", !.tmr = T4, !.tmrg = Off]
    BY <1>1, <1>3 DEF Acked
  <2>2. T4 \in Timer /\ Off \in Timer /\ "CONFIRMED" \in SStates
    BY Durations DEF Timer, Off, SStates
  <2>3. st' \in STrans /\ st'.state = "CONFIRMED" /\ st'.tmr = T4 /\ st'.held = st.held
    BY <2>1, <2>2 DEF STrans
  <2>4. ~st.held
    BY <1>3 DEF CallInv, Absorbs, Unanswered
  <2>5. CallTyped'
    BY <1>1, <2>3 DEF AckIsReceived, CallInv, CallTyped
  <2>6. net["INVITE"] < T4
    BY Durations DEF Off
  <2>7. Absorbs(st, ct[1], net["INVITE"])'
    BY <1>1, <2>3, <2>4, <2>6 DEF Absorbs, Unanswered
  <2>8. Decided'
    BY <1>1, <1>3, <2>3 DEF CallInv, Decided, Unanswered
  <2>. QED BY <1>1, <1>2, <1>3, <2>3, <2>5, <2>7, <2>8 DEF CallInv
<1>4. CASE st.state # "COMPLETED"
  <2>1. st' = st
    BY <1>1, <1>4 DEF Acked
  <2>2. CallTyped' /\ Decided'
    BY <1>1, <2>1 DEF AckIsReceived, CallInv, CallTyped, Decided
  <2>. QED BY <1>1, <1>2, <2>1, <2>2 DEF CallInv
<1>. QED BY <1>3, <1>4

LEMMA SessionAckedInv == CallInv /\ SessionAcked => CallInv'
<1>. SUFFICES ASSUME CallInv, SessionAcked PROVE CallInv'
  OBVIOUS
<1>. USE Given DEF Rigid, CallerSame
<1>1. UNCHANGED <<ct, canceled, outcome, ackKept, net, st, requests, decision>>
  BY DEF SessionAcked
<1>2. answer' = NoReply /\ NoReply \in Replies /\ acked' = TRUE
  BY Durations DEF SessionAcked, NoReply, Replies, Timer, Off
<1>3. outcome = "2xx" /\ decision = "2xx"
  BY DEF SessionAcked, CallInv, Founded, SameOutcome
<1>4. CallTyped' /\ OneInvite'
  BY <1>1, <1>2 DEF SessionAcked, CallInv, CallTyped, OneInvite
<1>5. Decided' /\ SameOutcome' /\ Founded'
  BY <1>1, <1>2, <1>3 DEF CallInv, Decided, SameOutcome, Founded, Deliverable
<1>. QED BY <1>1, <1>4, <1>5 DEF CallInv

\* When the server transaction goes, no INVITE is left and none will follow.
LEMMA CalleeTimerInv == CallInv /\ CalleeTimer => CallInv'
<1>. SUFFICES ASSUME CallInv, CalleeTimer PROVE CallInv'
  OBVIOUS
<1>. USE Given DEF Rigid, CallerSame
<1>1. /\ UNCHANGED <<ct, canceled, outcome, ackKept, requests, decision, answer, acked>>
      /\ UNCHANGED <<invite, reliable, sinvite, sreliable>>
  BY DEF CalleeTimer
<1>2. OneInvite' /\ SameOutcome'
  BY <1>1 DEF CallInv, OneInvite, SameOutcome
<1>3. CASE st.tmr = 0 /\ st' = Gone /\ net' = net
  <2>1. st.state \in {"ACCEPTED", "COMPLETED", "CONFIRMED"}
    <3>1. st.state \in SStates
      BY DEF STrans
    <3>2. st.state \notin Unanswered \union {"none", "freed"}
      BY <1>3 DEF CallInv, Absorbs, Off
    <3>. QED BY <3>1, <3>2 DEF SStates
  <2>2. st' \in STrans /\ st'.state = "freed" /\ ~st'.held /\ st'.tmr = Off
    BY <1>3, Strans
  <2>3. CallTyped'
    BY <1>1, <1>3, <2>2 DEF CallInv, CallTyped
  <2>4. net["INVITE"] = Off
    <3>1. net["INVITE"] < 0
      BY <1>3, <2>1 DEF CallInv, Absorbs
    <3>. QED BY <3>1, Durations DEF Off
  <2>5. ct[1].state = "CALLING" => ct[1].tmr = 0
    BY <1>3, <2>1 DEF CallInv, Absorbs, Scheduled
  <2>6. ct[1].state # "none"
    BY <2>1 DEF CallInv, Absorbs
  <2>7. Absorbs(st, ct[1], net["INVITE"])'
    BY <1>1, <1>3, <2>2, <2>4, <2>5, <2>6 DEF Absorbs, Unanswered
  <2>8. Decided' /\ Founded'
    BY <1>1, <1>3, <2>1, <2>2 DEF CallInv, Decided, Founded, Deliverable, Unanswered
  <2>. QED BY <1>1, <1>2, <2>1, <2>2, <2>3, <2>7, <2>8 DEF CallInv
<1>4. CASE st' = ResponseRetransmitted(st) /\ net' = Sent({LastResponse})
  <2>1. /\ st' \in STrans /\ st'.state = st.state /\ st'.held = st.held /\ st'.tmr = st.tmr
    <3>1. 2 * st.shift \in Nat /\ st.txc + 1 \in Nat /\ Min2(2 * st.shift, T2) \in Timer
      BY Durations DEF STrans, Min2, Timer, Off
    <3>. QED BY <1>4, <3>1 DEF ResponseRetransmitted, STrans
  <2>2. LastResponse \in {"1xx", "none", "2xx"} \union Failures
        /\ (LastResponse # "1xx" => LastResponse = decision)
    BY DEF CallInv, CallTyped, LastResponse
  <2>3. /\ net' \in [Datagram -> Off..Life]
        /\ \A m \in Datagram : m \notin {"1xx", decision} => net'[m] = net[m]
        /\ \A m \in Datagram \ ({"1xx", "2xx"} \union Failures) : net'[m] = net[m]
    <3>1. /\ net' \in [Datagram -> Off..Life]
          /\ \A m \in Datagram : m # LastResponse => net'[m] = net[m]
      BY <1>4, SentNet
    <3>2. "none" \notin Datagram
      BY DEF Datagram, Failures
    <3>. QED BY <2>2, <3>1, <3>2
  <2>4. CallTyped'
    BY <1>1, <2>1, <2>3 DEF CallInv, CallTyped
  <2>5. Absorbs(st, ct[1], net["INVITE"])'
    <3>1. net'["INVITE"] = net["INVITE"]
      BY <2>3 DEF Failures
    <3>. QED BY <1>1, <2>1, <3>1 DEF CallInv, Absorbs
  <2>6. Decided'
    BY <1>1, <2>1 DEF CallInv, Decided
  <2>7. Founded'
    BY <1>1, <2>3 DEF CallInv, Founded, Deliverable, Datagram, Failures
  <2>. QED BY <1>1, <1>2, <2>1, <2>4, <2>5, <2>6, <2>7 DEF CallInv
<1>. QED BY <1>3, <1>4 DEF CalleeTimer

LEMMA AnswerTimerInv == CallInv /\ AnswerTimer => CallInv'
<1>. SUFFICES ASSUME CallInv, AnswerTimer PROVE CallInv'
  OBVIOUS
<1>. USE Given DEF Rigid, CallerSame
<1>1. UNCHANGED <<ct, canceled, outcome, ackKept, st, requests, decision, acked>>
  BY DEF AnswerTimer
<1>2. answer.tmr # Off \/ answer.tmrg # Off
  BY DEF AnswerTimer, Off
<1>3. decision = "2xx"
  BY <1>2 DEF CallInv, Decided, NoReply
<1>4. answer' \in Replies
  <2>1. NoReply \in Replies
    BY Durations DEF NoReply, Replies, Timer, Off
  <2>2. answer \in Replies
    BY DEF CallInv, CallTyped
  <2>3. 2 * answer.shift \in Nat /\ Min2(2 * answer.shift, T2) \in Timer
    BY <2>2, Durations DEF Replies, Min2, Timer, Off
  <2>. QED BY <2>1, <2>2, <2>3 DEF AnswerTimer, Replies
<1>5. /\ net' \in [Datagram -> Off..Life]
      /\ \A m \in Datagram : m # "2xx" => net'[m] = net[m]
  BY SentNet DEF AnswerTimer
<1>6. CallTyped' /\ OneInvite'
  BY <1>1, <1>4, <1>5 DEF AnswerTimer, CallInv, CallTyped, OneInvite
<1>7. Decided' /\ SameOutcome'
  BY <1>1, <1>3 DEF CallInv, Decided, SameOutcome
<1>8. Founded'
  BY <1>1, <1>3, <1>5 DEF CallInv, Founded, Deliverable, Datagram, Failures
<1>. QED BY <1>1, <1>5, <1>6, <1>7, <1>8 DEF CallInv

(***************************************************************************)
(* Time                                                                    *)
(***************************************************************************)
LEMMA Later ==
  /\ \A n \in Timer : n # 0 => Elapse(n) \in Timer /\ (Elapse(n) = Off <=> n = Off)
  /\ \A n \in Off..Life : Elapse(n) \in Off..Life /\ (n = Off => Elapse(n) = Off)
  BY Durations DEF Elapse, Timer, Off

LEMMA ClockInv == CallInv /\ Clock => CallInv'
<1>. SUFFICES ASSUME CallInv, Clock PROVE CallInv'
  OBVIOUS
<1>. USE Given DEF Rigid
<1>1. /\ UNCHANGED <<canceled, outcome, requests, decision, acked>>
      /\ UNCHANGED <<invite, reliable, sinvite, sreliable>>
  BY DEF Clock
<1>2. \A k \in Txn : /\ ct'[k] = Elapsed(ct[k]) /\ ct'[k] \in Trans /\ ct'[k].state = ct[k].state
                     /\ ct'[k].tmr = Off <=> ct[k].tmr = Off
  BY ElapsedTrans DEF Clock, NothingDue
<1>3. /\ Scheduled(ct'[1]) /\ ct[1].tmr # 0
      /\ ct[1].state = "CALLING" => ct'[1].tmr = ct[1].tmr - 1
  BY <1>2, TimePasses DEF Clock, NothingDue
<1>4. ct' \in [Txn -> Trans]
  BY <1>2 DEF Clock
<1>5. OneInvite'
  BY <1>2, Keys DEF CallInv, OneInvite, Reports
<1>6. /\ net' \in [Datagram -> Off..Life]
      /\ \A m \in Datagram : net'[m] = Elapse(net[m]) /\ (net'[m] # Off => net[m] # Off)
  BY Later DEF Clock
<1>7. /\ st' \in STrans /\ st'.state = st.state /\ st'.held = st.held
      /\ st'.tmr = Elapse(st.tmr) /\ st.tmr # 0
  <2>1. st.tmr \in Timer \ {0} /\ st.tmrg \in Timer \ {0} /\ st' = TransElapsed(st)
    BY DEF Clock, Running, STrans
  <2>. QED BY <2>1, Later DEF TransElapsed, STrans
<1>8. answer' \in Replies /\ (answer = NoReply => answer' = NoReply)
  <2>1. /\ answer \in Replies /\ answer.tmr # 0 /\ answer.tmrg # 0
        /\ answer' = [answer EXCEPT !.tmr = Elapse(@), !.tmrg = Elapse(@)]
    BY DEF Clock, Running, CallInv, CallTyped
  <2>2. answer' \in Replies
    BY <2>1, Later DEF Replies
  <2>3. ASSUME answer = NoReply PROVE answer' = NoReply
    BY <2>1, <2>3 DEF NoReply, Elapse
  <2>. QED BY <2>2, <2>3
<1>9. ackKept' \in Timer /\ (ackKept' # Off => ackKept # Off)
  BY Later DEF Clock, Running, CallInv, CallTyped
<1>10. CallTyped'
  BY <1>1, <1>4, <1>6, <1>7, <1>8, <1>9 DEF CallInv, CallTyped
<1>11. Absorbs(st, ct[1], net["INVITE"])'
  <2>. DEFINE n == net["INVITE"]
              v == net'["INVITE"]
  <2>1. v = Elapse(n) /\ n \in Off..Life /\ Life \in Nat
    BY <1>6, Durations
  <2>2. ct'[1].state = ct[1].state /\ ct[1].tmr \in Timer /\ st.tmr \in Timer
    BY <1>2 DEF Trans, STrans
  <2>. HIDE DEF n, v
  <2>3. Absorbs(st, ct[1], n)
    BY DEF n, CallInv
  <2>4. Absorbs(st', ct'[1], v)
    BY <1>3, <1>7, <2>1, <2>2, <2>3 DEF Absorbs, Elapse, Timer, Off, Unanswered
  <2>. QED BY <2>4 DEF v
<1>12. Decided' /\ SameOutcome'
  BY <1>1, <1>7, <1>8 DEF CallInv, Decided, SameOutcome
<1>13. Founded'
  BY <1>1, <1>2, <1>6, <1>9 DEF CallInv, Founded, Deliverable
<1>. QED BY <1>1, <1>3, <1>5, <1>7, <1>10, <1>11, <1>12, <1>13 DEF CallInv

LEMMA CallStep == CallInv /\ [Next]_vars => CallInv'
<1>. SUFFICES ASSUME CallInv, [Next]_vars PROVE CallInv'
  OBVIOUS
<1>1. CASE UNCHANGED vars
  BY <1>1
  DEF vars, ctvars, stvars, callvars, CallInv, CallTyped, OneInvite, Decided, Founded,
      SameOutcome, Deliverable
<1>2. CASE Timers
  BY <1>2, CallerTimerInv, AckForgottenInv, CalleeTimerInv, AnswerTimerInv DEF Timers
<1>3. ASSUME NEW m \in Failures, RecvFailure(m) PROVE CallInv'
  BY <1>3, FailureInv
<1>. QED
  BY <1>1, <1>2, <1>3, DialInv, HangUpInv, ProvisionalInv, SuccessInv, CancelOkInv, ArrivalInv,
     AcceptInv, RejectInv, CancelIsReceivedInv, AckIsReceivedInv, SessionAckedInv, ClockInv
  DEF Next

LEMMA AlwaysCall == Spec => []CallInv
  BY InitHolds, CallStep, PTL DEF Spec

(***************************************************************************)
(* The theorems                                                            *)
(***************************************************************************)
\* However often the INVITE is repeated, delayed or overtaken, the callee gets one session of
\* it: the server transaction (strans.c) outlives every copy, after a failure that was
\* acknowledged as after one that was not.
THEOREM RingsOnceOnly == Spec => []RingsOnce
<1>1. CallInv => RingsOnce
  BY DEF CallInv, RingsOnce
<1>. QED BY <1>1, AlwaysCall, PTL

\* What the caller is told is what the callee decided, in whichever order answer, CANCEL and
\* their repetitions cross; 487 is for those who hung up, and an ACK for those who were accepted.
THEOREM EndsAgree == Spec => []SameOutcome
<1>1. CallInv => SameOutcome
  BY DEF CallInv
<1>. QED BY <1>1, AlwaysCall, PTL
=============================================================================
