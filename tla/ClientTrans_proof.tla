------------------------- MODULE ClientTrans_proof -------------------------
(***************************************************************************)
(* Proofs about the client transactions of ClientTrans, for every value of *)
(* the timers and every number of attempts: type correctness, ReportsOnce  *)
(* and DeadlineArmed; and, with the timers in the proportion the source    *)
(* has them, TransmissionBound.                                            *)
(***************************************************************************)
EXTENDS ClientTrans, TLAPS

(***************************************************************************)
(* The inductive invariant.  ReportsOnce alone is not inductive: a timer   *)
(* running for a transaction that was never started would free it without  *)
(* a report (NoIdleTimer), and a CANCEL started twice would reopen a       *)
(* transaction that has reported (CancelFresh).                            *)
(***************************************************************************)
\* no deadline runs for a transaction that does not exist (any more)
NoIdleTimer ==
    \A k \in Txn : ct[k].state \in {"none", "freed"} => ct[k].tmr = Off

\* the request layer alone starts further attempts
OneAttempt == \A k \in Attempt : k # 1 => ct[k].state = "none"

\* there is no CANCEL before the deadline of the INVITE is started again
CancelFresh ==
    invite /\ ( \/ ct[1].state \in {"none", "CALLING"}
                \/ ct[1].state = "PROCEEDING" /\ ct[1].tmr = Off )
        => ct[CancelId].state = "none"

CtInv ==
    /\ CtTypeOK /\ ReportsOnce /\ DeadlineArmed
    /\ NoIdleTimer /\ OneAttempt /\ CancelFresh

Classes == {"1xx", "2xx", "fail"}

(***************************************************************************)
(* Lemmas about the handlers                                               *)
(***************************************************************************)
LEMMA Keys == /\ 0 \in Txn /\ 1 \in Txn /\ 1 \in Attempt
              /\ \A k \in Txn : k = 0 \/ k \in Attempt
              /\ \A k \in Attempt : k \in Txn /\ k # 0
  BY AttemptsAssumption DEF Txn, Attempt, CancelId

\* a request that goes out is a well-formed transaction with a deadline
LEMMA RequestedTrans ==
  ASSUME NEW b \in BOOLEAN
  PROVE  /\ Requested(b) \in Trans
         /\ Requested(b).state = IF b THEN "CALLING" ELSE "TRYING"
         /\ Requested(b).tmr # Off
  BY TimersAssumption DEF Requested, Trans, States, Open, Timer, Off

LEMMA EndedTrans ==
  ASSUME NEW wait \in Nat
  PROVE  /\ Freed \in Trans /\ Freed.state = "freed" /\ Freed.tmr = Off
         /\ Unused \in Trans /\ Unused.state = "none" /\ Unused.tmr = Off
         /\ Completed(wait) \in Trans
         /\ \/ Completed(wait) = Freed
            \/ Completed(wait).state = "COMPLETED" /\ Completed(wait).tmr = wait
<1>1. Unused = [state |-> "none", tmr |-> Off, tmre |-> Off, txc |-> 0, shift |-> T1]
  BY DEF Unused
<1>2. Freed = [state |-> "freed", tmr |-> Off, tmre |-> Off, txc |-> 0, shift |-> T1]
  BY <1>1 DEF Freed
<1>3. CASE reliable
  BY <1>1, <1>2, <1>3, TimersAssumption
  DEF Completed, Trans, States, Open, Timer, Off
<1>4. CASE ~reliable
  <2>1. Completed(wait)
          = [state |-> "COMPLETED", tmr |-> wait, tmre |-> Off, txc |-> 0, shift |-> T1]
    BY <1>1, <1>4 DEF Completed
  <2>. QED BY <1>1, <1>2, <2>1, TimersAssumption DEF Trans, States, Open, Timer, Off
<1>. QED BY <1>3, <1>4

\* what a response makes of an existing transaction: it completes exactly the
\* open ones with a final response, and the only deadline it stops for good
\* is that of an INVITE with its first provisional response
LEMMA RespondedTrans ==
  ASSUME NEW k \in Txn, NEW t \in Trans, NEW class \in Classes,
         t.state \notin {"none", "freed"},
         t.tmr # Off \/ (IsInvite(k) /\ t.state = "PROCEEDING")
  PROVE  LET r == Responded(k, t, class) IN
         /\ r \in Trans
         /\ r.state # "none"
         /\ r.state \in {"COMPLETED", "freed"}
              <=> t.state = "COMPLETED" \/ (Reports(t) /\ class # "1xx")
         /\ r.state = "freed" => r.tmr = Off
         /\ r.state = "CALLING" => t.state = "CALLING"
         /\ r.state # "freed" /\ r.tmr = Off
              => /\ IsInvite(k) /\ r.state = "PROCEEDING"
                 /\ t.state = "CALLING" \/ r = t
<1>1. /\ T4 \in Nat /\ CompleteWait \in Nat /\ T4 # Off /\ CompleteWait # Off
  BY TimersAssumption DEF Off
<1>2. /\ \A w \in Nat : /\ Completed(w) \in Trans
                        /\ \/ Completed(w) = Freed
                           \/ Completed(w).state = "COMPLETED" /\ Completed(w).tmr = w
      /\ Freed \in Trans /\ Freed.state = "freed" /\ Freed.tmr = Off
  BY EndedTrans
<1>3. t.state \in {"TRYING", "CALLING", "PROCEEDING", "COMPLETED"}
  BY DEF Trans, States, Open
<1>4. CASE IsInvite(k)
  <2>1. CASE t.state = "CALLING" /\ class = "1xx"
    <3>1. Responded(k, t, class) = [t EXCEPT !.state = "PROCEEDING", !.tmr = Off, !.tmre = Off]
      BY <1>4, <2>1 DEF Responded, InviteResponse
    <3>2. Responded(k, t, class) \in Trans
      <4>1. /\ "PROCEEDING" \in States /\ Off \in Timer
        BY DEF States, Open, Timer, Off
      <4>. QED BY <3>1, <4>1 DEF Trans
    <3>. QED BY <3>1, <3>2, <1>4, <2>1 DEF Reports, Open, Trans
  <2>2. CASE Reports(t) /\ class = "2xx"
    <3>1. Responded(k, t, class) = Freed
      BY <1>4, <2>2 DEF Responded, InviteResponse
    <3>. QED BY <3>1, <1>2, <2>2
  <2>3. CASE Reports(t) /\ class = "fail"
    <3>1. Responded(k, t, class) = Completed(CompleteWait)
      BY <1>4, <2>3 DEF Responded, InviteResponse
    <3>. QED BY <3>1, <1>1, <1>2, <2>3
  <2>4. CASE ~Reports(t) \/ (class = "1xx" /\ t.state # "CALLING")
    <3>1. Responded(k, t, class) = t
      BY <1>4, <2>4 DEF Responded, InviteResponse, Reports, Open
    <3>. QED BY <3>1, <1>3, <2>4 DEF Reports, Open
  <2>. QED BY <2>1, <2>2, <2>3, <2>4 DEF Classes
<1>5. CASE ~IsInvite(k)
  <2>1. CASE Reports(t) /\ class = "1xx"
    <3>1. Responded(k, t, class) = [t EXCEPT !.state = "PROCEEDING"]
      BY <1>5, <2>1 DEF Responded, NonInviteResponse
    <3>2. Responded(k, t, class) \in Trans
      BY <3>1 DEF Trans, States, Open
    <3>. QED BY <3>1, <3>2, <1>5, <2>1 DEF Reports, Open, Trans
  <2>2. CASE Reports(t) /\ class # "1xx"
    <3>1. Responded(k, t, class) = Completed(T4)
      BY <1>5, <2>2 DEF Responded, NonInviteResponse
    <3>. QED BY <3>1, <1>1, <1>2, <1>5, <2>2
  <2>3. CASE ~Reports(t)
    <3>1. Responded(k, t, class) = t
      BY <1>5, <2>3 DEF Responded, NonInviteResponse
    <3>. QED BY <3>1, <1>3, <2>3 DEF Reports, Open
  <2>. QED BY <2>1, <2>2, <2>3
<1>. QED BY <1>4, <1>5

\* a retransmission or the passing of time changes no state and no deadline
\* but the time left on it
LEMMA RetransmittedTrans ==
  ASSUME NEW t \in Trans
  PROVE  /\ Retransmitted(t) \in Trans
         /\ Retransmitted(t).state = t.state
         /\ Retransmitted(t).tmr = t.tmr
<1>1. RetransmitDelay(t) \in Timer
  BY TimersAssumption DEF RetransmitDelay, Min2, Trans, Timer, Off
<1>2. 2 * t.shift \in Nat /\ t.txc + 1 \in Nat
  BY DEF Trans
<1>. QED BY <1>1, <1>2 DEF Retransmitted, Trans

LEMMA ElapsedTrans ==
  ASSUME NEW t \in Trans, t.tmr # 0, t.tmre # 0
  PROVE  /\ Elapsed(t) \in Trans
         /\ Elapsed(t).state = t.state
         /\ Elapsed(t).tmr = Off <=> t.tmr = Off
<1>1. \A n \in Timer : n # 0 => Elapse(n) \in Timer /\ (Elapse(n) = Off <=> n = Off)
  BY DEF Elapse, Timer, Off
<1>2. t.tmr \in Timer /\ t.tmre \in Timer
  BY DEF Trans
<1>. QED BY <1>1, <1>2 DEF Elapsed, Trans

(***************************************************************************)
(* The invariant is inductive.                                             *)
(***************************************************************************)
\* what a new value r of one transaction must satisfy
Sound(k, r) ==
    /\ r \in Trans
    /\ r.state \in {"none", "freed"} => r.tmr = Off
    /\ r.state \notin {"none", "freed"} /\ r.tmr = Off
         => IsInvite(k) /\ r.state = "PROCEEDING" /\ ct[CancelId].state = "none"
    /\ k \in {CancelId, 1}
    /\ k = CancelId /\ ct[CancelId].state = "none" => r.state = "none"
    /\ k = 1 /\ invite /\ ( \/ r.state \in {"none", "CALLING"}
                            \/ r.state = "PROCEEDING" /\ r.tmr = Off )
         => ct[CancelId].state = "none"

LEMMA OneChanged ==
  ASSUME CtInv, NEW k \in Txn, NEW r, Sound(k, r),
         ct' = [ct EXCEPT ![k] = r],
         finals' = [finals EXCEPT ![k] = IF r.state \in {"COMPLETED", "freed"} THEN 1 ELSE 0],
         UNCHANGED <<invite, reliable>>
  PROVE  CtInv'
<1>. USE Keys DEF CancelId
<1>1. CtTypeOK'
  BY DEF CtInv, CtTypeOK, Sound
<1>2. /\ ct'[k] = r
      /\ \A j \in Txn \ {k} : ct'[j] = ct[j] /\ finals'[j] = finals[j]
      /\ finals'[k] = IF r.state \in {"COMPLETED", "freed"} THEN 1 ELSE 0
  BY DEF CtInv, CtTypeOK
<1>3. ReportsOnce'
  BY <1>2 DEF CtInv, ReportsOnce
<1>4. NoIdleTimer'
  BY <1>2 DEF CtInv, NoIdleTimer, Sound
<1>5. OneAttempt'
  BY <1>2 DEF CtInv, OneAttempt, Sound
<1>6. CancelFresh'
  BY <1>2 DEF CtInv, CancelFresh, Sound
<1>7. ct[0].state = "none" => ct'[0].state = "none"
  BY <1>2 DEF Sound
<1>8. DeadlineArmed'
  BY <1>2, <1>7 DEF CtInv, DeadlineArmed, IsInvite, Sound
<1>. QED BY <1>1, <1>3, <1>4, <1>5, <1>6, <1>8 DEF CtInv

LEMMA InitInv == CtInit => CtInv
<1>. SUFFICES ASSUME CtInit PROVE CtInv
  OBVIOUS
<1>1. Unused \in Trans /\ Unused.state = "none" /\ Unused.tmr = Off
  BY EndedTrans
<1>2. \A k \in Txn : ct[k] = Unused /\ finals[k] = 0
  BY DEF CtInit
<1>3. CtTypeOK
  BY <1>1 DEF CtInit, CtTypeOK
<1>. QED
  BY <1>1, <1>2, <1>3, Keys
  DEF CtInv, ReportsOnce, DeadlineArmed, NoIdleTimer, OneAttempt, CancelFresh, CancelId

LEMMA FailInv ==
  ASSUME CtInv, NEW k \in Txn, ct[k].state \notin {"none", "freed"}, Fail(k)
  PROVE  CtInv'
<1>1. Freed \in Trans /\ Freed.state = "freed" /\ Freed.tmr = Off
  BY EndedTrans
<1>2. k \in {CancelId, 1}
  BY Keys DEF CtInv, OneAttempt, CancelId
<1>3. Sound(k, Freed)
  BY <1>1, <1>2 DEF Sound
<1>4. finals' = [finals EXCEPT ![k] = 1]
  <2>1. ct[k] \in Trans /\ finals \in [Txn -> Nat]
    BY DEF CtInv, CtTypeOK
  <2>2. CASE Reports(ct[k])
    BY <2>1, <2>2 DEF Fail, Report, CtInv, ReportsOnce, Reports, Open
  <2>3. CASE ~Reports(ct[k])
    <3>1. finals[k] = 1 /\ finals' = finals
      BY <2>1, <2>3 DEF Fail, CtInv, ReportsOnce, Reports, Open, Trans, States
    <3>. QED BY <3>1, <2>1
  <2>. QED BY <2>2, <2>3
<1>. QED BY <1>1, <1>3, <1>4, OneChanged DEF Fail

THEOREM StepInv == CtInv /\ [CtNext]_ctvars => CtInv'
<1>. SUFFICES ASSUME CtInv, [CtNext]_ctvars PROVE CtInv'
  OBVIOUS
<1>0. /\ ct \in [Txn -> Trans] /\ finals \in [Txn -> Nat]
      /\ \A k \in Txn : ct[k].state \notin {"none", "freed"} => k \in {CancelId, 1}
  BY Keys DEF CtInv, CtTypeOK, OneAttempt, CancelId
<1>1. CASE Request
  <2>1. invite \in BOOLEAN /\ ct[1].state = "none" /\ finals[1] = 0
    BY <1>1, Keys DEF Request, CtInv, CtTypeOK, ReportsOnce
  <2>2. Sound(1, Requested(invite))
    <3>1. invite => ct[CancelId].state = "none"
      BY <2>1 DEF CtInv, CancelFresh
    <3>. QED BY <2>1, <3>1, RequestedTrans DEF Sound, IsInvite, CancelId
  <2>3. finals' = [finals EXCEPT ![1] = 0]
    BY <1>0, <1>1, <2>1, Keys DEF Request
  <2>4. Requested(invite).state \notin {"COMPLETED", "freed"}
    BY <2>1, RequestedTrans
  <2>. QED BY <1>1, <2>2, <2>3, <2>4, Keys, OneChanged DEF Request
<1>2. ASSUME NEW k \in Txn, NEW class \in Classes, Response(k, class) PROVE CtInv'
  <2>. DEFINE r == Responded(k, ct[k], class)
  <2>1. /\ ct[k] \in Trans /\ ct[k].state \notin {"none", "freed"}
        /\ ct[k].tmr # Off \/ (IsInvite(k) /\ ct[k].state = "PROCEEDING")
        /\ k \in {CancelId, 1}
    BY <1>0, <1>2 DEF Response, CtInv, DeadlineArmed
  <2>2. /\ r \in Trans
        /\ r.state # "none"
        /\ r.state \in {"COMPLETED", "freed"}
             <=> ct[k].state = "COMPLETED" \/ (Reports(ct[k]) /\ class # "1xx")
        /\ r.state = "freed" => r.tmr = Off
        /\ r.state = "CALLING" => ct[k].state = "CALLING"
        /\ r.state # "freed" /\ r.tmr = Off
             => /\ IsInvite(k) /\ r.state = "PROCEEDING"
                /\ ct[k].state = "CALLING" \/ r = ct[k]
    BY <2>1, RespondedTrans
  <2>3. Sound(k, r)
    <3>1. IsInvite(k) /\ (ct[k].state = "CALLING" \/ r = ct[k])
            /\ r.state = "PROCEEDING" /\ r.tmr = Off => ct[CancelId].state = "none"
      BY <2>1 DEF CtInv, CancelFresh, IsInvite
    <3>2. k = 1 /\ invite /\ ct[k].state = "CALLING" => ct[CancelId].state = "none"
      BY DEF CtInv, CancelFresh
    <3>. QED BY <2>1, <2>2, <3>1, <3>2 DEF Sound
  <2>4. finals' = [finals EXCEPT ![k] = IF r.state \in {"COMPLETED", "freed"} THEN 1 ELSE 0]
    <3>1. CASE Reports(ct[k]) /\ class # "1xx"
      BY <1>0, <1>2, <2>2, <3>1 DEF Response, Report, CtInv, ReportsOnce, Reports, Open
    <3>2. CASE ~(Reports(ct[k]) /\ class # "1xx")
      <4>1. finals' = finals
        BY <1>2, <3>2 DEF Response
      <4>2. finals[k] = IF r.state \in {"COMPLETED", "freed"} THEN 1 ELSE 0
        BY <2>1, <2>2, <3>2 DEF CtInv, ReportsOnce
      <4>. QED BY <1>0, <4>1, <4>2
    <3>. QED BY <3>1, <3>2
  <2>. QED BY <1>2, <2>3, <2>4, OneChanged DEF Response
<1>3. ASSUME NEW k \in Txn, TmrHandler(k) PROVE CtInv'
  <2>1. ct[k].state \notin {"none", "freed"}
    BY <1>3 DEF TmrHandler, CtInv, NoIdleTimer, Off
  <2>. QED BY <1>3, <2>1, FailInv DEF TmrHandler
<1>4. ASSUME NEW k \in Txn, RetransmitHandler(k) PROVE CtInv'
  <2>1. ct[k] \in Trans /\ ct[k].state \in Open /\ k \in {CancelId, 1}
    BY <1>0, <1>4 DEF RetransmitHandler, Reports, Open
  <2>2. CASE Fail(k)
    BY <2>1, <2>2, FailInv DEF Open
  <2>3. CASE ct' = [ct EXCEPT ![k] = Retransmitted(@)] /\ UNCHANGED <<invite, reliable, finals>>
    <3>. DEFINE r == Retransmitted(ct[k])
    <3>1. r \in Trans /\ r.state = ct[k].state /\ r.tmr = ct[k].tmr
      BY <2>1, RetransmittedTrans
    <3>2. Sound(k, r)
      BY <2>1, <3>1 DEF Sound, CtInv, NoIdleTimer, DeadlineArmed, CancelFresh, Open
    <3>3. finals' = [finals EXCEPT ![k] = IF r.state \in {"COMPLETED", "freed"} THEN 1 ELSE 0]
      BY <1>0, <2>3, <3>1 DEF CtInv, ReportsOnce
    <3>. QED BY <2>3, <3>2, <3>3, OneChanged
  <2>. QED BY <1>4, <2>2, <2>3 DEF RetransmitHandler
<1>5. ASSUME NEW k \in Txn, TransportHandler(k) PROVE CtInv'
  BY <1>5, FailInv DEF TransportHandler, Reports, Open
<1>6. ASSUME NEW ok \in BOOLEAN, Cancel(ok) PROVE CtInv'
  <2>1. /\ ct[1].state = "PROCEEDING" /\ ct[1].tmr = Off /\ invite
        /\ ct[CancelId].state = "none" /\ finals[CancelId] = 0 /\ finals[1] = 0
    BY <1>6, Keys DEF Cancel, CtInv, CancelFresh, ReportsOnce, CancelId
  <2>2. /\ ct' = [ct EXCEPT ![1].tmr = Timeout,
                            ![CancelId] = IF ok THEN Requested(FALSE) ELSE ct[CancelId]]
        /\ UNCHANGED <<invite, reliable, finals>>
    BY <1>6, <2>1 DEF Cancel, Cancelled, IsInvite, CancelId
  <2>3. /\ Requested(FALSE) \in Trans /\ Requested(FALSE).state = "TRYING"
        /\ Requested(FALSE).tmr # Off
    BY RequestedTrans
  <2>4. Timeout \in Timer /\ Timeout # Off
    BY TimersAssumption DEF Timer, Off
  <2>5. /\ ct'[1] \in Trans /\ ct'[1].state = "PROCEEDING" /\ ct'[1].tmr = Timeout
        /\ ct'[CancelId] = IF ok THEN Requested(FALSE) ELSE ct[CancelId]
        /\ \A k \in Txn : k \notin {CancelId, 1} => ct'[k] = ct[k]
        /\ ct' \in [Txn -> Trans]
    <3>1. [ct[1] EXCEPT !.tmr = Timeout] \in Trans
      BY <1>0, <2>4, Keys DEF Trans
    <3>2. ct' = [ct EXCEPT ![1] = [ct[1] EXCEPT !.tmr = Timeout],
                           ![CancelId] = IF ok THEN Requested(FALSE) ELSE ct[CancelId]]
      BY <2>2
    <3>3. ct[CancelId] \in Trans /\ ct[1] \in Trans /\ CancelId # 1
      BY <1>0, Keys DEF CancelId
    <3>. QED BY <1>0, <2>1, <2>3, <3>1, <3>2, <3>3, Keys DEF CancelId, Trans
  <2>6. CtTypeOK' /\ NoIdleTimer' /\ OneAttempt' /\ CancelFresh'
    BY <2>2, <2>3, <2>4, <2>5, Keys
    DEF CtInv, CtTypeOK, NoIdleTimer, OneAttempt, CancelFresh, CancelId
  <2>7. ReportsOnce'
    BY <2>1, <2>2, <2>3, <2>5, Keys DEF CtInv, ReportsOnce, CancelId
  <2>8. DeadlineArmed'
    BY <2>1, <2>2, <2>3, <2>4, <2>5, Keys DEF CtInv, DeadlineArmed, OneAttempt, CancelId
  <2>. QED BY <2>6, <2>7, <2>8 DEF CtInv
<1>7. CASE Tick
  <2>1. \A k \in Txn : /\ ct'[k] \in Trans
                       /\ ct'[k].state = ct[k].state
                       /\ ct'[k].tmr = Off <=> ct[k].tmr = Off
    BY <1>0, <1>7, ElapsedTrans DEF Tick, NothingDue
  <2>2. ct' \in [Txn -> Trans] /\ UNCHANGED <<invite, reliable, finals>>
    BY <1>7, <2>1 DEF Tick
  <2>. QED
    BY <2>1, <2>2, Keys
    DEF CtInv, CtTypeOK, ReportsOnce, DeadlineArmed, NoIdleTimer, OneAttempt, CancelFresh,
        CancelId, IsInvite
<1>8. CASE UNCHANGED ctvars
  BY <1>8
  DEF ctvars, CtInv, CtTypeOK, ReportsOnce, DeadlineArmed, NoIdleTimer, OneAttempt,
      CancelFresh, IsInvite
<1>. QED BY <1>1, <1>2, <1>3, <1>4, <1>5, <1>6, <1>7, <1>8 DEF CtNext, Classes

(***************************************************************************)
(* The theorems                                                            *)
(***************************************************************************)
LEMMA AlwaysInv == CtSpec => []CtInv
  BY InitInv, StepInv, PTL DEF CtSpec

\* Every transaction is well formed in every reachable state.
THEOREM TypeCorrect == CtSpec => []CtTypeOK
<1>1. CtInv => CtTypeOK
  BY DEF CtInv
<1>. QED BY <1>1, AlwaysInv, PTL

\* resph is called with a final outcome exactly once (terminate() and the
\* response handlers of ctrans.c).
THEOREM ReportedOnce == CtSpec => []ReportsOnce
<1>1. CtInv => ReportsOnce
  BY DEF CtInv
<1>. QED BY <1>1, AlwaysInv, PTL

\* No transaction is left without a deadline, save an INVITE that rings and
\* was not cancelled (invite_response and sip_ctrans_cancel of ctrans.c).
THEOREM AlwaysArmed == CtSpec => []DeadlineArmed
<1>1. CtInv => DeadlineArmed
  BY DEF CtInv
<1>. QED BY <1>1, AlwaysInv, PTL

(***************************************************************************)
(* How often a request is sent.  The bound is a matter of time: each       *)
(* transmission comes a doubled delay after the one before, and the        *)
(* deadline leaves room for so many of them only.  It depends on the       *)
(* ratios of the timers in re/include/re_sip.h.                            *)
(***************************************************************************)
SourceTimers == T2 = 8 * T1 /\ Timeout = 64 * T1

\* the delay doubles with every retransmission
Doubled(t) ==
    \/ t.txc = 0 /\ t.shift = T1
    \/ t.txc = 1 /\ t.shift = 2 * T1
    \/ t.txc = 2 /\ t.shift = 4 * T1
    \/ t.txc = 3 /\ t.shift = 8 * T1
    \/ t.txc = 4 /\ t.shift = 16 * T1
    \/ t.txc = 5 /\ t.shift = 32 * T1
    \/ t.txc = 6 /\ t.shift = 64 * T1
    \/ t.txc > 6 /\ t.shift > 64 * T1

\* when retransmission n + 1 of a request other than INVITE comes, at the
\* earliest, counted from the first transmission
DueAfter(n) ==
    CASE n = 0 -> T1       [] n = 1 -> 3 * T1   [] n = 2 -> 7 * T1   [] n = 3 -> 15 * T1
      [] n = 4 -> 23 * T1  [] n = 5 -> 31 * T1  [] n = 6 -> 39 * T1  [] n = 7 -> 47 * T1
      [] n = 8 -> 55 * T1  [] n = 9 -> 63 * T1  [] OTHER -> 71 * T1

\* the time of the next retransmission, counted from the first transmission
NextSent(t) == Timeout - t.tmr + t.tmre

Paced(k, t) ==
    /\ Doubled(t)
    /\ t.txc <= IF IsInvite(k) THEN 6 ELSE 10
    /\ t.state \notin Open => t.tmre = Off
    /\ IsInvite(k) /\ t.state # "CALLING" => t.tmre = Off
    /\ t.tmre # Off => IF IsInvite(k) THEN NextSent(t) = 2 * t.shift - T1
                                      ELSE NextSent(t) >= DueAfter(t.txc)

PacedInv == CtInv /\ \A k \in Txn : Paced(k, ct[k])

\* nothing is retransmitted while the timer is off
LEMMA SilentPaced ==
  ASSUME NEW k \in Txn, NEW t, t.tmre = Off, t.txc = 0, t.shift = T1
  PROVE  Paced(k, t)
<1>1. Doubled(t)
  BY DEF Doubled
<1>. QED BY <1>1 DEF Paced

LEMMA StartPaced ==
  ASSUME NEW k \in Txn, NEW wait \in Nat, SourceTimers
  PROVE  /\ Paced(k, Unused) /\ Paced(k, Freed) /\ Paced(k, Completed(wait))
         /\ Paced(k, Requested(IsInvite(k)))
<1>1. Unused = [state |-> "none", tmr |-> Off, tmre |-> Off, txc |-> 0, shift |-> T1]
  BY DEF Unused
<1>2. Freed = [state |-> "freed", tmr |-> Off, tmre |-> Off, txc |-> 0, shift |-> T1]
  BY <1>1 DEF Freed
<1>3. Paced(k, Unused) /\ Paced(k, Freed)
  BY <1>1, <1>2, SilentPaced
<1>4. Paced(k, Completed(wait))
  <2>1. CASE reliable
    BY <1>3, <2>1 DEF Completed
  <2>2. CASE ~reliable
    <3>1. Completed(wait)
            = [state |-> "COMPLETED", tmr |-> wait, tmre |-> Off, txc |-> 0, shift |-> T1]
      BY <1>1, <2>2 DEF Completed
    <3>. QED BY <3>1, SilentPaced
  <2>. QED BY <2>1, <2>2
<1>5. Paced(k, Requested(IsInvite(k)))
  <2>. DEFINE r == Requested(IsInvite(k))
  <2>1. /\ r.state = IF IsInvite(k) THEN "CALLING" ELSE "TRYING"
        /\ r.tmr = Timeout /\ r.tmre = (IF reliable THEN Off ELSE T1)
        /\ r.txc = 0 /\ r.shift = T1
    BY DEF Requested
  <2>2. T1 \in Nat /\ Timeout \in Nat /\ DueAfter(0) = T1
    BY TimersAssumption DEF DueAfter
  <2>. HIDE DEF r
  <2>3. Doubled(r) /\ r.state \in Open
    BY <2>1 DEF Doubled, Open
  <2>4. r.tmre # Off => NextSent(r) = T1 /\ 2 * r.shift - T1 = T1
    BY <2>1, <2>2 DEF NextSent
  <2>5. Paced(k, r)
    BY <2>1, <2>2, <2>3, <2>4 DEF Paced
  <2>. QED BY <2>5 DEF r
<1>. QED BY <1>3, <1>4, <1>5

LEMMA RespondedPaced ==
  ASSUME NEW k \in Txn, NEW t \in Trans, NEW class \in Classes, Paced(k, t), SourceTimers
  PROVE  Paced(k, Responded(k, t, class))
<1>1. /\ Paced(k, Freed) /\ Paced(k, Completed(CompleteWait)) /\ Paced(k, Completed(T4))
  BY TimersAssumption, StartPaced
<1>2. Paced(k, [t EXCEPT !.state = "PROCEEDING", !.tmr = Off, !.tmre = Off])
  BY DEF Paced, Doubled, Trans, Open
<1>3. ASSUME ~IsInvite(k), Reports(t) PROVE Paced(k, [t EXCEPT !.state = "PROCEEDING"])
  BY <1>3 DEF Paced, Doubled, Trans, Open, NextSent
<1>4. CASE IsInvite(k)
  BY <1>1, <1>2, <1>4 DEF Responded, InviteResponse
<1>5. CASE ~IsInvite(k)
  BY <1>1, <1>3, <1>5 DEF Responded, NonInviteResponse
<1>. QED BY <1>4, <1>5

LEMMA RetransmittedPaced ==
  ASSUME NEW k \in Txn, NEW t \in Trans, Paced(k, t), SourceTimers,
         t.tmre = 0, t.tmr # Off, Reports(t)
  PROVE  Paced(k, Retransmitted(t))
<1>. DEFINE r == Retransmitted(t)
<1>0. /\ T1 \in Nat /\ T1 > 0 /\ t.txc \in Nat /\ t.shift \in Nat /\ t.tmr \in Nat
      /\ t.state \in Open /\ Timeout = 64 * T1 /\ T2 = 8 * T1
  BY TimersAssumption DEF Trans, Timer, Off, Reports, SourceTimers
<1>1. /\ r.state = t.state /\ r.tmr = t.tmr /\ r.txc = t.txc + 1 /\ r.shift = 2 * t.shift
      /\ r.tmre = RetransmitDelay(t)
  BY DEF Retransmitted, Trans
<1>2. Doubled(r)
  <2>1. Doubled(t)
    BY DEF Paced
  <2>. HIDE DEF r
  <2>. QED BY <1>0, <1>1, <2>1 DEF Doubled
<1>3. CASE IsInvite(k)
  <2>1. t.state = "CALLING" /\ 64 * T1 - t.tmr = 2 * t.shift - T1
    BY <1>0, <1>3 DEF Paced, NextSent, Off
  <2>2. t.txc <= 5
    BY <1>0, <2>1 DEF Paced, Doubled
  <2>3. r.tmre = 2 * t.shift
    BY <1>1, <2>1 DEF RetransmitDelay
  <2>4. NextSent(r) = 2 * r.shift - T1
    <3>. HIDE DEF r
    <3>. QED BY <1>0, <1>1, <2>1, <2>3 DEF NextSent
  <2>. HIDE DEF r
  <2>5. Paced(k, r)
    BY <1>0, <1>1, <1>2, <1>3, <2>1, <2>2, <2>4 DEF Paced
  <2>. QED BY <2>5 DEF r
<1>4. CASE ~IsInvite(k)
  <2>1. 64 * T1 - t.tmr >= DueAfter(t.txc) /\ t.txc <= 10
    BY <1>0, <1>4 DEF Paced, NextSent, Off
  <2>2. t.txc <= 9
    <3>1. CASE t.txc = 10
      BY <1>0, <2>1, <3>1 DEF DueAfter
    <3>. QED BY <1>0, <2>1, <3>1
  <2>3. r.tmre \in Nat /\ DueAfter(t.txc) + r.tmre >= DueAfter(t.txc + 1)
    <3>1. \/ r.tmre = 8 * T1
          \/ r.tmre = 2 * t.shift /\ (t.state = "CALLING" \/ 2 * t.shift < 8 * T1)
      BY <1>0, <1>1 DEF RetransmitDelay, Min2, Open
    <3>2. \/ t.txc = 0 /\ t.shift = T1
          \/ t.txc = 1 /\ t.shift = 2 * T1
          \/ t.txc = 2 /\ t.shift = 4 * T1
          \/ t.txc \in 3..9 /\ t.shift >= 8 * T1
      BY <1>0, <2>2 DEF Paced, Doubled
    <3>. HIDE DEF r
    <3>3. r.tmre \in Nat
      BY <1>0, <3>1
    <3>4. CASE t.txc \in 0..2
      BY <1>0, <3>1, <3>2, <3>4 DEF DueAfter
    <3>5. CASE t.txc \in 3..9
      <4>1. r.tmre >= 8 * T1
        BY <1>0, <3>1, <3>2, <3>5
      <4>2. DueAfter(t.txc + 1) = DueAfter(t.txc) + 8 * T1 /\ DueAfter(t.txc) \in Nat
        BY <1>0, <3>5 DEF DueAfter
      <4>. QED BY <1>0, <3>3, <4>1, <4>2
    <3>. QED BY <1>0, <2>2, <3>3, <3>4, <3>5
  <2>4. DueAfter(t.txc) \in Nat /\ DueAfter(t.txc + 1) \in Nat
    BY <1>0 DEF DueAfter
  <2>5. NextSent(r) >= DueAfter(r.txc)
    <3>. HIDE DEF r
    <3>. QED BY <1>0, <1>1, <2>1, <2>3, <2>4 DEF NextSent
  <2>. HIDE DEF r
  <2>6. Paced(k, r)
    BY <1>0, <1>1, <1>2, <1>4, <2>2, <2>5 DEF Paced
  <2>. QED BY <2>6 DEF r
<1>. QED BY <1>3, <1>4

LEMMA ElapsedPaced ==
  ASSUME NEW k \in Txn, NEW t \in Trans, Paced(k, t), t.tmr # 0, t.tmre # 0,
         t.tmre # Off => t.tmr # Off
  PROVE  Paced(k, Elapsed(t))
<1>. DEFINE r == Elapsed(t)
<1>1. /\ r.state = t.state /\ r.txc = t.txc /\ r.shift = t.shift
      /\ r.tmre = Elapse(t.tmre) /\ r.tmr = Elapse(t.tmr)
  BY DEF Elapsed, Trans
<1>2. /\ t.tmr \in Int /\ t.tmre \in Int /\ Timeout \in Int
      /\ t.tmre >= -1 /\ t.tmr >= -1
  BY TimersAssumption DEF Trans, Timer, Off
<1>. HIDE DEF r
<1>3. r.tmre = Off <=> t.tmre = Off
  BY <1>1, <1>2 DEF Elapse, Off
<1>4. t.tmre # Off => NextSent(r) = NextSent(t)
  BY <1>1, <1>2 DEF NextSent, Elapse, Off
<1>5. Paced(k, r)
  BY <1>1, <1>3, <1>4 DEF Paced, Doubled
<1>. QED BY <1>5 DEF r

LEMMA InitPaced == ASSUME SourceTimers PROVE CtInit => PacedInv
<1>1. \A k \in Txn : Paced(k, Unused)
  BY StartPaced
<1>. QED BY <1>1, InitInv DEF CtInit, PacedInv

LEMMA StepPaced ==
  ASSUME SourceTimers
  PROVE  PacedInv /\ [CtNext]_ctvars => PacedInv'
<1>. SUFFICES ASSUME PacedInv, [CtNext]_ctvars
              PROVE  \A k \in Txn : Paced(k, ct[k])'
  BY StepInv DEF PacedInv
<1>0. /\ ct \in [Txn -> Trans] /\ \A k \in Txn : Paced(k, ct[k])
      /\ \A k \in Txn : ct[k].state \in Open =>
             \/ ct[k].tmr # Off
             \/ IsInvite(k) /\ ct[k].state = "PROCEEDING"
  <2>1. ct \in [Txn -> Trans] /\ DeadlineArmed /\ \A k \in Txn : Paced(k, ct[k])
    BY DEF PacedInv, CtInv, CtTypeOK
  <2>. QED BY <2>1 DEF DeadlineArmed, Open
<1>1. ASSUME NEW j \in Txn, NEW r, Paced(j, r), invite' = invite, ct' = [ct EXCEPT ![j] = r]
      PROVE  \A k \in Txn : Paced(k, ct[k])'
  <2>. SUFFICES ASSUME NEW k \in Txn PROVE Paced(k, ct[k])'
    OBVIOUS
  <2>1. ct'[k] = IF k = j THEN r ELSE ct[k]
    BY <1>0, <1>1
  <2>. QED BY <1>0, <1>1, <2>1 DEF Paced, IsInvite, Doubled, NextSent
<1>2. CASE Request
  <2>1. Paced(1, Requested(IsInvite(1))) /\ IsInvite(1) = invite
    BY StartPaced, Keys DEF IsInvite, CancelId, PacedInv, CtInv, CtTypeOK
  <2>. QED BY <1>1, <1>2, <2>1, Keys DEF Request
<1>3. ASSUME NEW j \in Txn, NEW class \in Classes, Response(j, class)
      PROVE  \A k \in Txn : Paced(k, ct[k])'
  <2>1. Paced(j, Responded(j, ct[j], class))
    BY <1>0, RespondedPaced
  <2>. QED BY <1>1, <1>3, <2>1 DEF Response
<1>4. ASSUME NEW j \in Txn, Fail(j) PROVE \A k \in Txn : Paced(k, ct[k])'
  <2>1. Paced(j, Freed)
    BY StartPaced
  <2>. QED BY <1>1, <1>4, <2>1 DEF Fail
<1>5. ASSUME NEW j \in Txn, RetransmitHandler(j) PROVE \A k \in Txn : Paced(k, ct[k])'
  <2>1. CASE Fail(j)
    BY <1>4, <2>1
  <2>2. CASE ct' = [ct EXCEPT ![j] = Retransmitted(@)] /\ UNCHANGED <<invite, reliable, finals>>
    <3>1. Reports(ct[j]) /\ ct[j].tmre = 0
      BY <1>5 DEF RetransmitHandler
    <3>2. ct[j].tmr # Off
      <4>1. IsInvite(j) => ct[j].state = "CALLING"
        BY <1>0, <3>1 DEF Paced, Off
      <4>. QED BY <1>0, <3>1, <4>1 DEF Reports
    <3>3. Paced(j, Retransmitted(ct[j]))
      BY <1>0, <3>1, <3>2, RetransmittedPaced
    <3>. QED BY <1>1, <2>2, <3>3
  <2>. QED BY <1>5, <2>1, <2>2 DEF RetransmitHandler
<1>6. ASSUME NEW ok \in BOOLEAN, Cancel(ok) PROVE \A k \in Txn : Paced(k, ct[k])'
  <2>. DEFINE r == [ct[1] EXCEPT !.tmr = Timeout]
  <2>1. /\ invite /\ ct[1].state = "PROCEEDING" /\ invite' = invite
        /\ ct' = [ct EXCEPT ![1].tmr = Timeout,
                            ![CancelId] = IF ok THEN Requested(FALSE) ELSE ct[CancelId]]
    BY <1>6 DEF Cancel, Cancelled, IsInvite, CancelId
  <2>2. Paced(1, r)
    BY <1>0, <2>1, Keys DEF Paced, Doubled, IsInvite, CancelId, Trans
  <2>3. Paced(CancelId, Requested(FALSE))
    <3>1. IsInvite(CancelId) = FALSE /\ CancelId \in Txn
      BY Keys DEF IsInvite, CancelId
    <3>. QED BY <3>1, StartPaced
  <2>4. /\ ct'[1] = r /\ ct'[CancelId] = IF ok THEN Requested(FALSE) ELSE ct[CancelId]
        /\ \A k \in Txn : k \notin {CancelId, 1} => ct'[k] = ct[k]
    BY <1>0, <2>1, Keys DEF CancelId
  <2>. HIDE DEF r
  <2>5. \A k \in Txn : Paced(k, ct'[k])
    BY <1>0, <2>2, <2>3, <2>4, Keys DEF CancelId
  <2>. QED BY <2>1, <2>5 DEF Paced, IsInvite, Doubled, NextSent
<1>7. CASE Tick
  <2>1. \A k \in Txn : Paced(k, Elapsed(ct[k]))
    <3>1. \A k \in Txn : /\ ct[k].tmr # 0 /\ ct[k].tmre # 0
                         /\ ct[k].tmre # Off => ct[k].tmr # Off
      BY <1>0, <1>7 DEF Tick, NothingDue, Paced
    <3>. QED BY <1>0, <3>1, ElapsedPaced
  <2>2. invite' = invite /\ \A k \in Txn : ct'[k] = Elapsed(ct[k])
    BY <1>7 DEF Tick
  <2>. QED BY <2>1, <2>2 DEF Paced, IsInvite, Doubled, NextSent
<1>8. CASE UNCHANGED ctvars
  BY <1>0, <1>8 DEF ctvars, Paced, IsInvite, Doubled, NextSent
<1>9. CASE \E k \in Txn : TmrHandler(k) \/ TransportHandler(k)
  BY <1>4, <1>9 DEF TmrHandler, TransportHandler
<1>. QED BY <1>2, <1>3, <1>5, <1>6, <1>7, <1>8, <1>9 DEF CtNext, Classes

\* With the timers of re_sip.h, retransmit_handler() sends an INVITE at most 7
\* times and any other request at most 11 times, and an INVITE never again
\* once a response has come.
THEOREM SentSeldom ==
  ASSUME SourceTimers
  PROVE  CtSpec => []TransmissionBound
<1>1. PacedInv => TransmissionBound
  BY DEF PacedInv, Paced, TransmissionBound
<1>2. CtInit => PacedInv
  BY InitPaced
<1>3. PacedInv /\ [CtNext]_ctvars => PacedInv'
  BY StepPaced
<1>. QED BY <1>1, <1>2, <1>3, PTL DEF CtSpec
=============================================================================
