------------------------ MODULE ClientRequest_proof ------------------------
(***************************************************************************)
(* Proofs about the request layer of ClientRequest, for any timers, any    *)
(* number of attempts, addresses and SRV records: type correctness,        *)
(* UserToldOnce, RequestNotOrphaned, CancelNotLost and CancelStopsFailover.*)
(***************************************************************************)
EXTENDS ClientRequest, ClientTrans_proof

(***************************************************************************)
(* The inductive invariant.  CancelNotLost holds because the CANCEL is     *)
(* asked for either when a provisional response has come, or when it comes *)
(* (Ringing): provrecv always tells which of the two it will be.           *)
(***************************************************************************)
Reqs == [alive : BOOLEAN, handle : BOOLEAN, resph : BOOLEAN, canceled : BOOLEAN,
         provrecv : BOOLEAN, cur : Txn, dns : {"none", "srv", "addr"},
         addr : 0..MaxAddr, srv : 0..MaxSrv]

\* provrecv says what the current INVITE has heard
Ringing(r, f) ==
    r.alive /\ r.cur # 0 /\ invite
        => f[r.cur].state = IF r.provrecv THEN "PROCEEDING" ELSE "CALLING"

\* RequestNotOrphaned
Watched(r, f) ==
    /\ r.alive => ((r.cur # 0) # (r.dns # "none"))
    /\ \A k \in Attempt : Reports(f[k]) <=> (r.alive /\ k = r.cur)

\* CancelNotLost
Hurried(r, f) ==
    r.alive /\ r.canceled /\ r.provrecv /\ r.cur # 0 /\ invite => f[r.cur].tmr # Off

\* a request that has ended leaves nothing behind; the user's pointer and his
\* handler come and go together
Tidy(r) == (~r.alive => r = NoRequest) /\ r.handle = r.resph

Linked(r, f) ==
    /\ r \in Reqs /\ f \in [Txn -> Trans]
    /\ Ringing(r, f) /\ Watched(r, f) /\ Hurried(r, f) /\ Tidy(r)

\* the user of a live request has not been told its outcome
Silent(r, n) == n \in 0..1 /\ (r.alive => n = 0)

Constant == invite \in BOOLEAN /\ reliable \in BOOLEAN /\ finals \in [Txn -> Nat]

ReqInv ==
    /\ Constant /\ used \in 0..MaxAttempts
    /\ Linked(req, ct) /\ Silent(req, told)

(***************************************************************************)
(* Lemmas about the transactions                                           *)
(***************************************************************************)
\* a transaction reports as long as it has had no final response
LEMMA RespondedReports ==
  ASSUME NEW k \in Txn, NEW t \in Trans, NEW class \in {"1xx", "2xx", "503", "fail"},
         t.state \notin {"none", "freed"}
  PROVE  LET r == Responded(k, t, class) IN
         /\ r \in Trans
         /\ Reports(r) <=> Reports(t) /\ class = "1xx"
         /\ IsInvite(k) /\ t.state \in {"CALLING", "PROCEEDING"} /\ class = "1xx"
              => /\ r.state = "PROCEEDING"
                 /\ t.state = "PROCEEDING" => r = t
<1>. DEFINE r == Responded(k, t, class)
<1>1. /\ Freed \in Trans /\ ~Reports(Freed)
      /\ \A w \in Nat : Completed(w) \in Trans /\ ~Reports(Completed(w))
  BY EndedTrans DEF Reports, Open
<1>2. T4 \in Nat /\ CompleteWait \in Nat
  BY TimersAssumption
<1>3. CASE class # "1xx" /\ Reports(t)
  <2>1. r \in {Freed, Completed(CompleteWait), Completed(T4)}
    BY <1>3 DEF Responded, InviteResponse, NonInviteResponse
  <2>. QED BY <1>1, <1>2, <1>3, <2>1
<1>4. CASE ~Reports(t)
  <2>1. r = t /\ t.state \notin {"CALLING", "PROCEEDING"}
    BY <1>4 DEF Responded, InviteResponse, NonInviteResponse, Reports, Open
  <2>. QED BY <1>4, <2>1
<1>5. CASE class = "1xx" /\ Reports(t)
  <2>. DEFINE p == [t EXCEPT !.state = "PROCEEDING", !.tmr = Off, !.tmre = Off]
              q == [t EXCEPT !.state = "PROCEEDING"]
  <2>1. /\ p \in Trans /\ p.state = "PROCEEDING" /\ q \in Trans /\ q.state = "PROCEEDING"
    <3>1. Off \in Timer /\ "PROCEEDING" \in States
      BY DEF Timer, Off, States, Open
    <3>. QED BY <3>1 DEF Trans
  <2>2. Reports(p) /\ Reports(q)
    BY <2>1 DEF Reports, Open
  <2>. HIDE DEF p, q
  <2>3. CASE IsInvite(k)
    <3>1. r = IF t.state = "CALLING" THEN p ELSE t
      BY <1>5, <2>3 DEF Responded, InviteResponse, p
    <3>. QED BY <1>5, <2>1, <2>2, <3>1
  <2>4. CASE ~IsInvite(k)
    <3>1. r = q
      BY <1>5, <2>4 DEF Responded, NonInviteResponse, q
    <3>. QED BY <1>5, <2>1, <2>2, <2>4, <3>1
  <2>. QED BY <2>3, <2>4
<1>. QED BY <1>3, <1>4, <1>5

\* sip_ctrans_cancel moves the deadline of its attempt, and nothing else of
\* the attempts
LEMMA CancelledTrans ==
  ASSUME NEW f \in [Txn -> Trans], NEW k \in Attempt, NEW ok \in BOOLEAN
  PROVE  LET g == Cancelled(f, k, ok) IN
         /\ g \in [Txn -> Trans]
         /\ \A j \in Attempt : g[j].state = f[j].state
         /\ IsInvite(k) /\ f[k].state = "PROCEEDING" => g[k].tmr # Off
<1>. DEFINE g == Cancelled(f, k, ok)
<1>1. CASE ~(IsInvite(k) /\ f[k].state = "PROCEEDING")
  <2>1. g = f
    BY <1>1 DEF Cancelled
  <2>. QED BY <1>1, <2>1
<1>2. CASE IsInvite(k) /\ f[k].state = "PROCEEDING"
  <2>. DEFINE a == [f[k] EXCEPT !.tmr = Timeout]
              c == IF ok THEN Requested(FALSE) ELSE f[CancelId]
  <2>1. k \in Txn /\ k # CancelId /\ CancelId \in Txn /\ f[k] \in Trans /\ f[CancelId] \in Trans
    BY Keys DEF CancelId
  <2>2. Timeout \in Timer /\ Timeout # Off
    BY TimersAssumption DEF Timer, Off
  <2>3. a \in Trans /\ a.state = f[k].state /\ a.tmr = Timeout /\ c \in Trans
    BY <2>1, <2>2, RequestedTrans DEF Trans
  <2>4. g = [f EXCEPT ![k] = a, ![CancelId] = c]
    BY <1>2, <2>1 DEF Cancelled
  <2>. HIDE DEF a, c, g
  <2>5. /\ g \in [Txn -> Trans] /\ g[k] = a
        /\ \A j \in Attempt : j # k => g[j] = f[j]
    BY <2>1, <2>3, <2>4, Keys DEF CancelId
  <2>6. \A j \in Attempt : g[j].state = f[j].state
    BY <2>3, <2>5
  <2>. QED BY <2>2, <2>3, <2>5, <2>6 DEF g
<1>. QED BY <1>1, <1>2

LEMMA NoRequestLinked ==
  ASSUME NEW f \in [Txn -> Trans], \A k \in Attempt : ~Reports(f[k])
  PROVE  Linked(NoRequest, f)
<1>1. NoRequest \in Reqs
  <2>1. 0 \in 0..MaxAddr /\ 0 \in 0..MaxSrv /\ 0 \in Txn
    BY RecordsAssumption, Keys
  <2>. QED BY <2>1 DEF NoRequest, Reqs
<1>2. ~NoRequest.alive /\ NoRequest.handle = NoRequest.resph
  BY DEF NoRequest
<1>. QED BY <1>1, <1>2 DEF Linked, Ringing, Watched, Hurried, Tidy

(***************************************************************************)
(* The steps the callbacks are made of                                     *)
(***************************************************************************)
\* the part of the invariant a step has to establish
NewInv == (used \in 0..MaxAttempts /\ Linked(req, ct) /\ Silent(req, told))'

LEMMA TerminateInv ==
  ASSUME NEW r, NEW f \in [Txn -> Trans], \A k \in Attempt : ~Reports(f[k]),
         invite' = invite, Terminate(r), ct' = f, told = 0,
         used \in 0..MaxAttempts, used' = used
  PROVE  NewInv
<1>1. Linked(NoRequest, f)
  BY NoRequestLinked
<1>2. Linked(req, ct)'
  BY <1>1 DEF Terminate, Linked, Ringing, Watched, Hurried, IsInvite
<1>3. Silent(req, told)'
  BY DEF Terminate, Silent, NoRequest
<1>. QED BY <1>2, <1>3 DEF NewInv

\* the attempt a request is left with when a new transaction is started
LEMMA AttemptLinked ==
  ASSUME NEW r \in Reqs, NEW f \in [Txn -> Trans], NEW n \in Attempt, invite \in BOOLEAN,
         r.alive, r.cur = n, ~r.provrecv, r.dns = "none", r.handle = r.resph,
         \A k \in Attempt : ~Reports(f[k])
  PROVE  Linked(r, Attempted(f, n))
<1>. DEFINE g == Attempted(f, n)
<1>1. n \in Txn /\ n # 0
  BY Keys
<1>2. /\ Requested(invite) \in Trans
      /\ Requested(invite).state = IF invite THEN "CALLING" ELSE "TRYING"
  BY RequestedTrans
<1>3. /\ g \in [Txn -> Trans] /\ g[n] = Requested(invite)
      /\ \A k \in Attempt : k # n => g[k] = f[k]
  BY <1>1, <1>2, Keys DEF Attempted
<1>4. Reports(g[n])
  BY <1>2, <1>3 DEF Reports, Open
<1>. HIDE DEF g
<1>5. Ringing(r, g) /\ Hurried(r, g) /\ Tidy(r)
  BY <1>2, <1>3 DEF Ringing, Hurried, Tidy
<1>6. Watched(r, g)
  BY <1>1, <1>3, <1>4 DEF Watched
<1>. QED BY <1>3, <1>5, <1>6 DEF Linked, g

LEMMA Targets ==
  ASSUME NEW a \in 0..MaxAddr, NEW s \in 0..MaxSrv, NEW t \in NextTargets(a, s)
  PROVE  t.what \in {"sent", "lookup", "failed"} /\ t.addr \in 0..MaxAddr /\ t.srv \in 0..MaxSrv
  BY RecordsAssumption DEF NextTargets

LEMMA RequestNextInv ==
  ASSUME NEW r \in Reqs, NEW f \in [Txn -> Trans], r.alive, r.handle = r.resph, told = 0,
         \A k \in Attempt : ~Reports(f[k]), used \in 0..MaxAttempts,
         invite \in BOOLEAN, invite' = invite, reliable' = reliable, RequestNext(r, f)
  PROVE  NewInv
<1>1. PICK t \in NextTargets(r.addr, r.srv) :
        \/ /\ t.what = "sent" /\ CanAttempt
           /\ used' = used + 1
           /\ ct' = Attempted(f, used + 1)
           /\ req' = [r EXCEPT !.cur = used + 1, !.provrecv = FALSE, !.dns = "none",
                               !.addr = t.addr, !.srv = t.srv]
           /\ UNCHANGED told
        \/ /\ t.what = "lookup"
           /\ req' = [r EXCEPT !.cur = 0, !.dns = "addr", !.addr = 0, !.srv = t.srv]
           /\ ct' = f
           /\ UNCHANGED <<used, told>>
        \/ /\ t.what = "failed"
           /\ Terminate(r)
           /\ ct' = f
           /\ UNCHANGED used
  BY DEF RequestNext
<1>2. t.addr \in 0..MaxAddr /\ t.srv \in 0..MaxSrv /\ 0 \in 0..MaxAddr
  BY Targets, RecordsAssumption DEF Reqs
<1>3. CASE t.what = "sent"
  <2>. DEFINE n == used + 1
              q == [r EXCEPT !.cur = n, !.provrecv = FALSE, !.dns = "none",
                             !.addr = t.addr, !.srv = t.srv]
  <2>1. n \in Attempt /\ n \in 0..MaxAttempts /\ n \in Txn
    BY <1>1, <1>3, AttemptsAssumption DEF CanAttempt, Attempt, Txn
  <2>2. /\ q \in Reqs /\ q.alive /\ q.cur = n /\ ~q.provrecv /\ q.dns = "none"
        /\ q.handle = q.resph
    BY <1>2, <2>1 DEF Reqs
  <2>3. req' = q /\ ct' = Attempted(f, n) /\ used' = n /\ told' = 0
    BY <1>1, <1>3
  <2>. HIDE DEF q, n
  <2>4. Linked(q, Attempted(f, n))
    BY <2>1, <2>2, AttemptLinked
  <2>5. Linked(req, ct)'
    BY <2>3, <2>4 DEF Linked, Ringing, Watched, Hurried, Reports
  <2>. QED BY <2>1, <2>3, <2>5 DEF NewInv, Silent
<1>4. CASE t.what = "lookup"
  <2>. DEFINE q == [r EXCEPT !.cur = 0, !.dns = "addr", !.addr = 0, !.srv = t.srv]
  <2>1. q \in Reqs /\ q.alive /\ q.cur = 0 /\ q.dns = "addr" /\ q.handle = q.resph
    BY <1>2, Keys DEF Reqs
  <2>2. req' = q /\ ct' = f /\ used' = used /\ told' = 0
    BY <1>1, <1>4
  <2>. HIDE DEF q
  <2>3. Linked(q, f)
    BY <2>1, Keys DEF Linked, Ringing, Watched, Hurried, Tidy
  <2>4. Linked(req, ct)'
    BY <2>2, <2>3 DEF Linked, Ringing, Watched, Hurried, Reports
  <2>. QED BY <2>2, <2>4 DEF NewInv, Silent
<1>5. CASE t.what = "failed"
  BY <1>1, <1>5, TerminateInv
<1>. QED BY <1>1, <1>3, <1>4, <1>5

\* response_handler: the attempt is over, and what is made of it is a new
\* attempt, a lookup or the end of the request
LEMMA FinalOutcomeInv ==
  ASSUME ReqInv, req.alive, NEW f \in [Txn -> Trans], \A k \in Attempt : ~Reports(f[k]),
         NEW class, invite' = invite, reliable' = reliable, FinalOutcome(class, f)
  PROVE  NewInv
<1>. DEFINE r == [req EXCEPT !.cur = 0]
<1>1. /\ r \in Reqs /\ r.alive /\ r.handle = r.resph /\ told = 0
      /\ used \in 0..MaxAttempts /\ invite \in BOOLEAN
  BY Keys DEF ReqInv, Linked, Tidy, Silent, Constant, Reqs
<1>2. \/ RequestNext(r, f)
      \/ Terminate(r) /\ ct' = f /\ UNCHANGED used
  BY DEF FinalOutcome
<1>. HIDE DEF r
<1>3. CASE RequestNext(r, f)
  BY <1>1, <1>3, RequestNextInv
<1>4. CASE Terminate(r) /\ ct' = f /\ UNCHANGED used
  BY <1>1, <1>4, TerminateInv
<1>. QED BY <1>2, <1>3, <1>4

(***************************************************************************)
(* The user's calls                                                        *)
(***************************************************************************)
LEMMA SipRequestInv ==
  ASSUME ReqInv, SipRequest
  PROVE  NewInv
<1>. DEFINE r == [NoRequest EXCEPT !.alive = TRUE, !.handle = TRUE, !.resph = TRUE]
<1>1. /\ req = NoRequest /\ used = 0 /\ told = 0 /\ told' = 0 /\ invite' = invite
      /\ invite \in BOOLEAN /\ ct \in [Txn -> Trans] /\ NoRequest \in Reqs
      /\ \A k \in Attempt : ~Reports(ct[k])
  BY DEF SipRequest, ReqInv, Linked, Watched, NoRequest, Constant
<1>2. CASE /\ ct' = Attempted(ct, 1)
           /\ used' = 1
           /\ req' = [r EXCEPT !.cur = 1]
  <2>. DEFINE q == [r EXCEPT !.cur = 1]
  <2>1. q \in Reqs
    BY <1>1, Keys DEF Reqs
  <2>2. /\ q.alive /\ q.cur = 1 /\ ~q.provrecv /\ q.dns = "none"
        /\ q.handle = q.resph
    BY DEF NoRequest
  <2>. HIDE DEF q
  <2>3. Linked(q, Attempted(ct, 1))
    BY <1>1, <2>1, <2>2, Keys, AttemptLinked
  <2>4. Linked(req, ct)'
    BY <1>1, <1>2, <2>3 DEF Linked, Ringing, Watched, Hurried, Reports, q
  <2>. QED BY <1>1, <1>2, <2>4, AttemptsAssumption DEF NewInv, Silent
<1>3. ASSUME NEW d \in {"srv", "addr"}, req' = [r EXCEPT !.dns = d], UNCHANGED <<ct, used>>
      PROVE  NewInv
  <2>. DEFINE q == [r EXCEPT !.dns = d]
  <2>1. q \in Reqs
    BY <1>1 DEF Reqs
  <2>2. q.alive /\ q.cur = 0 /\ q.dns # "none" /\ q.handle = q.resph
    BY <1>3 DEF NoRequest
  <2>. HIDE DEF q
  <2>3. Linked(q, ct)
    BY <1>1, <2>1, <2>2, Keys DEF Linked, Ringing, Watched, Hurried, Tidy
  <2>4. Linked(req, ct)'
    BY <1>1, <1>3, <2>3 DEF Linked, Ringing, Watched, Hurried, Reports, q
  <2>. QED BY <1>1, <1>3, <2>4 DEF NewInv, Silent, ReqInv
<1>. QED BY <1>2, <1>3 DEF SipRequest

\* a step that leaves the attempts as open as they were
LEMMA KeptInv ==
  ASSUME ReqInv, NEW r \in Reqs, NEW f \in [Txn -> Trans],
         r.alive = req.alive, r.cur = req.cur, r.dns = req.dns, Tidy(r),
         \A k \in Attempt : Reports(f[k]) <=> Reports(ct[k]),
         Ringing(r, f), Hurried(r, f),
         req' = r, ct' = f, used' = used, told' = told, invite' = invite
  PROVE  NewInv
<1>1. Watched(r, f)
  BY DEF ReqInv, Linked, Watched
<1>2. Linked(req, ct)'
  BY <1>1 DEF Linked, Ringing, Watched, Hurried, Tidy, Reports
<1>. QED BY <1>2 DEF NewInv, Silent, ReqInv

\* sip_request_cancel: the CANCEL of an INVITE that rings goes out at once
LEMMA CancelRequestInv ==
  ASSUME ReqInv, req.alive, NEW r \in Reqs, NEW ok \in BOOLEAN,
         r.alive, r.cur = req.cur, r.dns = req.dns, r.provrecv = req.provrecv,
         r.handle = r.resph, CancelRequest(r, ok)
  PROVE  NewInv
<1>. DEFINE q == [r EXCEPT !.canceled = TRUE]
<1>1. /\ q \in Reqs /\ q.alive /\ q.cur = req.cur /\ q.dns = req.dns
      /\ q.provrecv = req.provrecv /\ Tidy(q)
  BY DEF Reqs, Tidy
<1>2. /\ req' = q /\ used' = used /\ told' = told /\ invite' = invite
      /\ ct' = IF q.provrecv /\ q.cur # 0 THEN Cancelled(ct, q.cur, ok) ELSE ct
  BY <1>1 DEF CancelRequest
<1>. HIDE DEF q
<1>3. ct \in [Txn -> Trans] /\ Ringing(req, ct) /\ req.cur \in Txn
  BY DEF ReqInv, Linked, Reqs
<1>4. CASE q.provrecv /\ q.cur # 0
  <2>1. q.cur \in Attempt
    BY <1>1, <1>3, <1>4, Keys
  <2>. DEFINE g == Cancelled(ct, q.cur, ok)
  <2>2. /\ g \in [Txn -> Trans]
        /\ \A j \in Attempt : g[j].state = ct[j].state
        /\ IsInvite(q.cur) /\ ct[q.cur].state = "PROCEEDING" => g[q.cur].tmr # Off
    BY <1>3, <2>1, CancelledTrans
  <2>. HIDE DEF g
  <2>3. Ringing(q, g)
    BY <1>1, <1>3, <2>1, <2>2 DEF Ringing
  <2>4. Hurried(q, g)
    BY <1>1, <1>3, <1>4, <2>1, <2>2 DEF Ringing, Hurried, IsInvite, CancelId
  <2>5. \A k \in Attempt : Reports(g[k]) <=> Reports(ct[k])
    BY <2>2 DEF Reports
  <2>6. ct' = g
    BY <1>2, <1>4 DEF g
  <2>. QED BY <1>1, <1>2, <2>2, <2>3, <2>4, <2>5, <2>6, KeptInv
<1>5. CASE ~(q.provrecv /\ q.cur # 0)
  <2>1. Ringing(q, ct) /\ Hurried(q, ct)
    BY <1>1, <1>3, <1>5 DEF Ringing, Hurried
  <2>. QED BY <1>1, <1>2, <1>3, <1>5, <2>1, KeptInv
<1>. QED BY <1>4, <1>5

\* the user who holds a request holds a live one, and has not been told
LEMMA Held ==
  ASSUME ReqInv
  PROVE  /\ req.handle => req.alive /\ req.resph
         /\ req.alive => told = 0 /\ used \in 0..MaxAttempts
         /\ ~req.alive => ~req.handle /\ req.cur = 0 /\ req.dns = "none"
         /\ req \in Reqs /\ ct \in [Txn -> Trans]
         /\ invite \in BOOLEAN /\ req.handle = req.resph
  BY DEF ReqInv, Linked, Tidy, NoRequest, Silent, Constant

LEMMA SipRequestCancelInv ==
  ASSUME ReqInv, SipRequestCancel
  PROVE  NewInv
<1>1. PICK ok \in BOOLEAN : CancelRequest(req, ok)
  BY DEF SipRequestCancel
<1>. QED BY <1>1, Held, CancelRequestInv DEF SipRequestCancel

LEMMA UserDerefInv ==
  ASSUME ReqInv, UserDeref
  PROVE  NewInv
<1>. DEFINE r == [req EXCEPT !.handle = FALSE, !.resph = FALSE]
<1>1. req.alive
  BY Held DEF UserDeref
<1>2. /\ r \in Reqs /\ r.alive /\ r.cur = req.cur /\ r.dns = req.dns
      /\ r.provrecv = req.provrecv /\ r.canceled = req.canceled /\ r.handle = r.resph
  BY <1>1, Held DEF Reqs
<1>3. \/ req' = r /\ UNCHANGED <<ctvars, used, told>>
      \/ \E ok \in BOOLEAN : CancelRequest(r, ok)
  BY DEF UserDeref
<1>. HIDE DEF r
<1>4. CASE req' = r /\ UNCHANGED <<ctvars, used, told>>
  <2>1. Ringing(r, ct) /\ Hurried(r, ct) /\ Tidy(r)
    BY <1>1, <1>2 DEF ReqInv, Linked, Ringing, Hurried, Tidy
  <2>. QED BY <1>1, <1>2, <1>4, <2>1, Held, KeptInv DEF ctvars
<1>5. CASE \E ok \in BOOLEAN : CancelRequest(r, ok)
  BY <1>1, <1>2, <1>5, CancelRequestInv
<1>. QED BY <1>3, <1>4, <1>5

\* sip_request_close: the transaction is freed and nothing else is open
LEMMA SipRequestCloseInv ==
  ASSUME ReqInv, SipRequestClose
  PROVE  NewInv
<1>. DEFINE f == IF req.cur = 0 THEN ct ELSE [ct EXCEPT ![req.cur] = Freed]
<1>1. Freed \in Trans /\ ~Reports(Freed)
  BY EndedTrans DEF Reports, Open
<1>2. /\ f \in [Txn -> Trans]
      /\ \A k \in Attempt : ~Reports(f[k])
  BY <1>1, Held, Keys DEF ReqInv, Linked, Watched, Reqs
<1>3. ct' = f
  BY DEF SipRequestClose
<1>. HIDE DEF f
<1>. QED BY <1>2, <1>3, Held, TerminateInv DEF SipRequestClose

(***************************************************************************)
(* The resolver's answers                                                  *)
(***************************************************************************)
\* while a lookup is on no attempt is open
LEMMA LookupAlone ==
  ASSUME ReqInv, req.dns # "none"
  PROVE  req.alive /\ req.cur = 0 /\ \A k \in Attempt : ~Reports(ct[k])
  BY Held, Keys DEF ReqInv, Linked, Watched

LEMMA SrvHandlerInv ==
  ASSUME ReqInv, SrvHandler
  PROVE  NewInv
<1>1. /\ req.alive /\ req.cur = 0 /\ \A k \in Attempt : ~Reports(ct[k])
      /\ invite' = invite /\ reliable' = reliable
  BY LookupAlone DEF SrvHandler
<1>2. ASSUME NEW s \in 1..MaxSrv, RequestNext([req EXCEPT !.dns = "none", !.srv = s], ct)
      PROVE  NewInv
  <2>. DEFINE r == [req EXCEPT !.dns = "none", !.srv = s]
  <2>1. s \in 0..MaxSrv
    BY RecordsAssumption
  <2>2. r \in Reqs /\ r.alive /\ r.handle = r.resph
    BY <1>1, <2>1, Held DEF Reqs
  <2>. HIDE DEF r
  <2>3. RequestNext(r, ct)
    BY <1>2 DEF r
  <2>. QED BY <1>1, <2>2, <2>3, Held, RequestNextInv
<1>3. CASE req' = [req EXCEPT !.dns = "addr"] /\ UNCHANGED <<ct, used, told>>
  <2>. DEFINE r == [req EXCEPT !.dns = "addr"]
  <2>1. r \in Reqs /\ r.alive /\ r.cur = 0 /\ r.dns = "addr" /\ r.handle = r.resph
    BY <1>1, Held DEF Reqs
  <2>. HIDE DEF r
  <2>2. Linked(r, ct)
    BY <1>1, <2>1, Held, Keys DEF Linked, Ringing, Watched, Hurried, Tidy
  <2>3. Linked(req, ct)'
    BY <1>1, <1>3, <2>2 DEF Linked, Ringing, Watched, Hurried, Reports, r
  <2>. QED BY <1>1, <1>3, <2>3, Held DEF NewInv, Silent
<1>4. CASE Terminate(req) /\ UNCHANGED <<ct, used>>
  BY <1>1, <1>4, Held, TerminateInv
<1>. QED BY <1>2, <1>3, <1>4 DEF SrvHandler

LEMMA AddrHandlerInv ==
  ASSUME ReqInv, AddrHandler
  PROVE  NewInv
<1>1. /\ req.alive /\ req.cur = 0 /\ \A k \in Attempt : ~Reports(ct[k])
      /\ invite' = invite /\ reliable' = reliable
  BY LookupAlone DEF AddrHandler
<1>2. PICK a \in 0..MaxAddr :
        LET r == [req EXCEPT !.dns = "none", !.addr = a]
        IN  IF a = 0 /\ r.srv = 0
            THEN Terminate(r) /\ UNCHANGED <<ct, used>>
            ELSE RequestNext(r, ct)
  BY DEF AddrHandler
<1>. DEFINE r == [req EXCEPT !.dns = "none", !.addr = a]
<1>3. r \in Reqs /\ r.alive /\ r.handle = r.resph
  BY <1>1, Held DEF Reqs
<1>4. \/ Terminate(r) /\ UNCHANGED <<ct, used>>
      \/ RequestNext(r, ct)
  BY <1>2
<1>. HIDE DEF r
<1>5. CASE Terminate(r) /\ UNCHANGED <<ct, used>>
  BY <1>1, <1>5, Held, TerminateInv
<1>6. CASE RequestNext(r, ct)
  BY <1>1, <1>3, <1>6, Held, RequestNextInv
<1>. QED BY <1>4, <1>5, <1>6

(***************************************************************************)
(* The transactions' callbacks                                             *)
(***************************************************************************)
\* a transaction that the request does not wait for changes
LEMMA OtherInv ==
  ASSUME ReqInv, NEW k \in Txn, NEW t \in Trans, ~(Current(k) /\ Reports(ct[k])),
         Reports(t) => Reports(ct[k]), ct' = [ct EXCEPT ![k] = t],
         UNCHANGED <<invite, reqvars>>
  PROVE  NewInv
<1>. DEFINE f == [ct EXCEPT ![k] = t]
<1>1. /\ f \in [Txn -> Trans] /\ f[k] = t
      /\ \A j \in Txn : j # k => f[j] = ct[j]
  BY Held
<1>2. ct' = f
  OBVIOUS
<1>. HIDE DEF f
<1>3. k \in Attempt => ~Reports(ct[k])
  BY Keys DEF ReqInv, Linked, Watched, Current, CancelId
<1>4. \A j \in Attempt : Reports(f[j]) <=> Reports(ct[j])
  BY <1>1, <1>3, Keys
<1>5. req.alive /\ req.cur # 0 => f[req.cur] = ct[req.cur]
  BY <1>1, <1>3, Held, Keys DEF ReqInv, Linked, Watched, Reqs
<1>6. Ringing(req, f) /\ Hurried(req, f)
  BY <1>5 DEF ReqInv, Linked, Ringing, Hurried
<1>7. req \in Reqs /\ Tidy(req)
  BY DEF ReqInv, Linked
<1>. QED BY <1>1, <1>2, <1>4, <1>6, <1>7, KeptInv DEF reqvars

\* the transaction the request waits for changes, and ends
LEMMA EndedInv ==
  ASSUME ReqInv, NEW k \in Txn, NEW t \in Trans, Current(k), ~Reports(t), NEW class,
         FinalOutcome(class, [ct EXCEPT ![k] = t]), UNCHANGED <<invite, reliable>>
  PROVE  NewInv
<1>. DEFINE f == [ct EXCEPT ![k] = t]
<1>1. f \in [Txn -> Trans] /\ req.alive /\ FinalOutcome(class, f)
  BY Held DEF Current
<1>2. \A j \in Attempt : ~Reports(f[j])
  BY Held, Keys DEF ReqInv, Linked, Watched, Current
<1>. HIDE DEF f
<1>. QED BY <1>1, <1>2, FinalOutcomeInv

LEMMA ProvisionalInv ==
  ASSUME ReqInv, NEW k \in Txn, Provisional(k)
  PROVE  NewInv
<1>. DEFINE t == Responded(k, ct[k], "1xx")
            f == [ct EXCEPT ![k] = t]
            r == [req EXCEPT !.provrecv = TRUE]
<1>1. ct[k] \in Trans /\ ct \in [Txn -> Trans] /\ ct[k].state \notin {"none", "freed"}
  BY Held DEF Provisional
<1>2. /\ t \in Trans /\ (Reports(t) <=> Reports(ct[k]))
      /\ IsInvite(k) /\ ct[k].state \in {"CALLING", "PROCEEDING"}
           => /\ t.state = "PROCEEDING"
              /\ ct[k].state = "PROCEEDING" => t = ct[k]
  BY <1>1, RespondedReports
<1>3. CASE ~(Current(k) /\ Reports(ct[k]))
  <2>1. ct' = [ct EXCEPT ![k] = t] /\ UNCHANGED <<invite, reqvars>>
    BY <1>3 DEF Provisional, reqvars
  <2>. HIDE DEF t
  <2>. QED BY <1>2, <1>3, <2>1, OtherInv
<1>4. CASE Current(k) /\ Reports(ct[k])
  <2>1. /\ k = req.cur /\ req.alive /\ k \in Attempt /\ k # 0
        /\ r \in Reqs /\ r.alive /\ r.cur = k /\ r.dns = req.dns /\ r.provrecv
        /\ r.canceled = req.canceled /\ Tidy(r)
    BY <1>4, Held, Keys DEF Current, CancelId, Reqs, Tidy
  <2>2. \/ ~req.provrecv /\ req' = r /\ req.canceled
           /\ \E ok \in BOOLEAN : ct' = Cancelled(f, k, ok)
        \/ ~req.provrecv /\ req' = r /\ ~req.canceled /\ ct' = f
        \/ req.provrecv /\ req' = req /\ ct' = f
    BY <1>4 DEF Provisional
  <2>3. used' = used /\ told' = told /\ invite' = invite
    BY DEF Provisional
  <2>4. /\ f \in [Txn -> Trans] /\ f[k] = t
        /\ \A j \in Attempt : Reports(f[j]) <=> Reports(ct[j])
    BY <1>1, <1>2, Keys
  <2>5. Ringing(req, ct) /\ Hurried(req, ct) /\ req \in Reqs /\ Tidy(req)
    BY DEF ReqInv, Linked
  <2>6. invite => /\ t.state = "PROCEEDING"
                  /\ req.provrecv => t = ct[k]
    BY <1>2, <2>1, <2>5 DEF Ringing, IsInvite, CancelId
  <2>. HIDE DEF t, f, r
  <2>7. CASE ~req.provrecv /\ req' = r /\ req.canceled
             /\ \E ok \in BOOLEAN : ct' = Cancelled(f, k, ok)
    <3>1. PICK ok \in BOOLEAN : ct' = Cancelled(f, k, ok)
      BY <2>7
    <3>. DEFINE g == Cancelled(f, k, ok)
    <3>2. /\ g \in [Txn -> Trans]
          /\ \A j \in Attempt : g[j].state = f[j].state
          /\ IsInvite(k) /\ f[k].state = "PROCEEDING" => g[k].tmr # Off
      BY <2>1, <2>4, CancelledTrans
    <3>3. ct' = g
      BY <3>1
    <3>. HIDE DEF g
    <3>4. Ringing(r, g) /\ Hurried(r, g)
      BY <2>1, <2>4, <2>6, <3>2 DEF Ringing, Hurried, IsInvite, CancelId
    <3>5. \A j \in Attempt : Reports(g[j]) <=> Reports(ct[j])
      BY <2>4, <3>2 DEF Reports
    <3>. QED BY <2>1, <2>3, <2>7, <3>2, <3>3, <3>4, <3>5, KeptInv
  <2>8. CASE ~req.provrecv /\ req' = r /\ ~req.canceled /\ ct' = f
    <3>1. Ringing(r, f) /\ Hurried(r, f)
      BY <2>1, <2>4, <2>6, <2>8 DEF Ringing, Hurried
    <3>. QED BY <2>1, <2>3, <2>4, <2>8, <3>1, KeptInv
  <2>9. CASE req.provrecv /\ req' = req /\ ct' = f
    <3>1. Ringing(req, f) /\ Hurried(req, f)
      BY <2>1, <2>4, <2>5, <2>6, <2>9 DEF Ringing, Hurried
    <3>. QED BY <2>3, <2>4, <2>5, <2>9, <3>1, KeptInv
  <2>. QED BY <2>2, <2>7, <2>8, <2>9
<1>. QED BY <1>3, <1>4

LEMMA FinalInv ==
  ASSUME ReqInv, NEW k \in Txn, NEW class \in {"2xx", "503", "fail"}, Final(k, class)
  PROVE  NewInv
<1>. DEFINE t == Responded(k, ct[k], class)
<1>1. ct[k] \in Trans /\ ct[k].state \notin {"none", "freed"} /\ class # "1xx"
  BY Held DEF Final
<1>2. t \in Trans /\ ~Reports(t)
  BY <1>1, RespondedReports
<1>3. /\ Current(k) /\ Reports(ct[k]) => FinalOutcome(class, [ct EXCEPT ![k] = t])
      /\ ~(Current(k) /\ Reports(ct[k])) => ct' = [ct EXCEPT ![k] = t] /\ UNCHANGED reqvars
      /\ UNCHANGED <<invite, reliable>>
  BY DEF Final
<1>. HIDE DEF t
<1>4. CASE Current(k) /\ Reports(ct[k])
  BY <1>2, <1>3, <1>4, EndedInv
<1>5. CASE ~(Current(k) /\ Reports(ct[k]))
  BY <1>2, <1>3, <1>5, OtherInv
<1>. QED BY <1>4, <1>5

LEMMA BrokenInv ==
  ASSUME ReqInv, NEW k \in Txn, Broken(k)
  PROVE  NewInv
<1>1. Freed \in Trans /\ ~Reports(Freed)
  BY EndedTrans DEF Reports, Open
<1>2. CASE Current(k) /\ Reports(ct[k])
  <2>1. FinalOutcome("error", [ct EXCEPT ![k] = Freed]) /\ UNCHANGED <<invite, reliable>>
    BY <1>2 DEF Broken
  <2>. QED BY <1>1, <1>2, <2>1, EndedInv
<1>3. CASE ~(Current(k) /\ Reports(ct[k]))
  <2>1. ct' = [ct EXCEPT ![k] = Freed] /\ UNCHANGED <<invite, reqvars>>
    BY <1>3 DEF Broken, Fail
  <2>. QED BY <1>1, <1>3, <2>1, OtherInv
<1>. QED BY <1>2, <1>3

LEMMA RetransmitInv ==
  ASSUME ReqInv, NEW k \in Txn, Retransmit(k)
  PROVE  NewInv
<1>1. CASE Broken(k)
  BY <1>1, BrokenInv
<1>2. CASE ct' = [ct EXCEPT ![k] = Retransmitted(@)]
           /\ UNCHANGED <<invite, reliable, finals, reqvars>>
  <2>. DEFINE t == Retransmitted(ct[k])
              f == [ct EXCEPT ![k] = t]
  <2>1. t \in Trans /\ t.state = ct[k].state /\ t.tmr = ct[k].tmr
    BY Held, RetransmittedTrans
  <2>. HIDE DEF t
  <2>2. /\ f \in [Txn -> Trans]
        /\ \A j \in Txn : f[j].state = ct[j].state /\ f[j].tmr = ct[j].tmr
    BY <2>1, Held
  <2>3. ct' = f
    BY <1>2 DEF t
  <2>. HIDE DEF f
  <2>4. Ringing(req, f) /\ Hurried(req, f) /\ req \in Reqs /\ Tidy(req)
    BY <2>2 DEF ReqInv, Linked, Ringing, Hurried, Reqs
  <2>5. \A j \in Attempt : Reports(f[j]) <=> Reports(ct[j])
    BY <2>2, Keys DEF Reports
  <2>. QED BY <1>2, <2>2, <2>3, <2>4, <2>5, KeptInv DEF reqvars
<1>. QED BY <1>1, <1>2 DEF Retransmit

LEMMA PassInv ==
  ASSUME ReqInv, Pass
  PROVE  NewInv
<1>. DEFINE f == [k \in Txn |-> Elapsed(ct[k])]
<1>1. \A k \in Txn : ct[k] \in Trans /\ ct[k].tmr # 0 /\ ct[k].tmre # 0
  BY Held DEF Pass, Tick, NothingDue
<1>2. \A k \in Txn : /\ Elapsed(ct[k]) \in Trans
                     /\ Elapsed(ct[k]).state = ct[k].state
                     /\ Elapsed(ct[k]).tmr = Off <=> ct[k].tmr = Off
  BY <1>1, ElapsedTrans
<1>3. /\ f \in [Txn -> Trans]
      /\ \A j \in Txn : f[j].state = ct[j].state /\ (f[j].tmr = Off <=> ct[j].tmr = Off)
  BY <1>2
<1>4. ct' = f /\ UNCHANGED <<invite, reqvars>>
  BY DEF Pass, Tick
<1>. HIDE DEF f
<1>5. Ringing(req, f) /\ Hurried(req, f) /\ req \in Reqs /\ Tidy(req)
  BY <1>3 DEF ReqInv, Linked, Ringing, Hurried, Reqs
<1>6. \A j \in Attempt : Reports(f[j]) <=> Reports(ct[j])
  BY <1>3, Keys DEF Reports
<1>. QED BY <1>3, <1>4, <1>5, <1>6, KeptInv DEF reqvars

(***************************************************************************)
(* The invariant is inductive.                                             *)
(***************************************************************************)
LEMMA ConstantStep ==
  ASSUME Constant, ReqNext
  PROVE  Constant'
<1>1. ASSUME NEW k \in Txn, Report(k) \/ UNCHANGED finals
      PROVE  (finals \in [Txn -> Nat])'
  BY <1>1 DEF Constant, Report
<1>2. ASSUME UNCHANGED finals
      PROVE  (finals \in [Txn -> Nat])'
  BY <1>2 DEF Constant
<1>3. CASE SipRequest \/ SipRequestClose \/ SrvHandler \/ AddrHandler \/ Pass
  BY <1>3 DEF Constant, SipRequest, SipRequestClose, SrvHandler, AddrHandler, Pass, Tick
<1>4. CASE SipRequestCancel \/ UserDeref
  BY <1>4 DEF Constant, SipRequestCancel, UserDeref, CancelRequest, ctvars
<1>5. ASSUME NEW k \in Txn, Provisional(k)
      PROVE  Constant'
  BY <1>5 DEF Constant, Provisional
<1>6. ASSUME NEW k \in Txn, NEW class \in {"2xx", "503", "fail"}, Final(k, class)
      PROVE  Constant'
  BY <1>1, <1>6 DEF Constant, Final
<1>7. ASSUME NEW k \in Txn, Broken(k)
      PROVE  Constant'
  BY <1>1, <1>7 DEF Constant, Broken, Fail
<1>8. ASSUME NEW k \in Txn, Retransmit(k)
      PROVE  Constant'
  BY <1>7, <1>8 DEF Constant, Retransmit
<1>. QED BY <1>3, <1>4, <1>5, <1>6, <1>7, <1>8 DEF ReqNext, Expire, Disconnect

LEMMA InitReq == ReqInit => ReqInv
<1>. SUFFICES ASSUME ReqInit PROVE ReqInv
  OBVIOUS
<1>1. Unused \in Trans /\ ~Reports(Unused)
  BY EndedTrans DEF Reports, Open
<1>2. ct \in [Txn -> Trans] /\ \A k \in Attempt : ~Reports(ct[k])
  BY <1>1, Keys DEF ReqInit, CtInit
<1>3. Linked(req, ct)
  BY <1>2, NoRequestLinked DEF ReqInit
<1>4. Constant /\ used \in 0..MaxAttempts
  BY AttemptsAssumption DEF ReqInit, CtInit, Constant
<1>5. Silent(req, told)
  BY DEF ReqInit, Silent, NoRequest
<1>. QED BY <1>3, <1>4, <1>5 DEF ReqInv

LEMMA StepReq == ReqInv /\ [ReqNext]_vars => ReqInv'
<1>. SUFFICES ASSUME ReqInv, [ReqNext]_vars PROVE ReqInv'
  OBVIOUS
<1>1. CASE ReqNext
  <2>1. Constant'
    BY <1>1, ConstantStep DEF ReqInv
  <2>2. NewInv
    <3>1. CASE SipRequest
      BY <3>1, SipRequestInv
    <3>2. CASE SipRequestCancel
      BY <3>2, SipRequestCancelInv
    <3>3. CASE UserDeref
      BY <3>3, UserDerefInv
    <3>4. CASE SipRequestClose
      BY <3>4, SipRequestCloseInv
    <3>5. CASE SrvHandler
      BY <3>5, SrvHandlerInv
    <3>6. CASE AddrHandler
      BY <3>6, AddrHandlerInv
    <3>7. ASSUME NEW k \in Txn, Provisional(k)
          PROVE  NewInv
      BY <3>7, ProvisionalInv
    <3>8. ASSUME NEW k \in Txn, NEW class \in {"2xx", "503", "fail"}, Final(k, class)
          PROVE  NewInv
      BY <3>8, FinalInv
    <3>9. ASSUME NEW k \in Txn, Expire(k) \/ Disconnect(k)
           PROVE  NewInv
      BY <3>9, BrokenInv DEF Expire, Disconnect
    <3>10. ASSUME NEW k \in Txn, Retransmit(k)
           PROVE  NewInv
      BY <3>10, RetransmitInv
    <3>11. CASE Pass
      BY <3>11, PassInv
    <3>. QED
      BY <1>1, <3>1, <3>2, <3>3, <3>4, <3>5, <3>6, <3>7, <3>8, <3>9, <3>10, <3>11 DEF ReqNext
  <2>. QED BY <2>1, <2>2 DEF ReqInv, NewInv
<1>2. CASE UNCHANGED vars
  BY <1>2 DEF vars, ctvars, reqvars, ReqInv, Constant, Linked, Ringing, Watched, Hurried,
              Reports, Silent
<1>. QED BY <1>1, <1>2

LEMMA AlwaysReq == ReqSpec => []ReqInv
<1>. QED BY InitReq, StepReq, PTL DEF ReqSpec

(***************************************************************************)
(* The theorems                                                            *)
(***************************************************************************)
\* The request and its transactions always have the values the C types and
\* the model's records allow; in particular an attempt is only started while
\* the bound allows one.
THEOREM RequestTypeCorrect == ReqSpec => []ReqTypeOK
<1>1. ReqInv => ReqTypeOK
  BY DEF ReqInv, Constant, Linked, Reqs, Silent, ReqTypeOK, CtTypeOK
<1>. QED BY <1>1, AlwaysReq, PTL

\* Whatever the servers answer, however the lookups end and whenever the user
\* cancels, his handler is told at most one final outcome, and as long as he
\* holds the request it is alive and will tell him (request.c, terminate and
\* the destructor).
THEOREM OutcomeOnce == ReqSpec => []UserToldOnce
<1>1. ReqInv => UserToldOnce
  BY DEF ReqInv, Linked, Tidy, NoRequest, Silent, UserToldOnce
<1>. QED BY <1>1, AlwaysReq, PTL

\* A live request always waits for exactly one transaction or one lookup, and
\* no transaction of an earlier attempt is still open beside it.
THEOREM NeverOrphaned == ReqSpec => []RequestNotOrphaned
<1>1. ReqInv => RequestNotOrphaned
  BY DEF ReqInv, Linked, Watched, RequestNotOrphaned
<1>. QED BY <1>1, AlwaysReq, PTL

\* An INVITE that is cancelled and has rung has its deadline running, in
\* whichever order the user's cancel and the provisional response came: the
\* CANCEL that had to wait for the response (cancel in response_handler) is
\* never forgotten.
THEOREM CancelCorrect == ReqSpec => []CancelNotLost
<1>1. ReqInv => CancelNotLost
  BY DEF ReqInv, Linked, Hurried, CancelNotLost
<1>. QED BY <1>1, AlwaysReq, PTL

\* Once a request is cancelled no error response makes it try another server;
\* a new attempt can only come of a lookup that was already on its way.
THEOREM NoFailover == ReqSpec => CancelStopsFailover
<1>1. [ReqNext]_vars => [req.canceled /\ used' # used => req.dns # "none"]_vars
  <2>. SUFFICES ASSUME ReqNext, req.canceled, used' # used PROVE req.dns # "none"
    BY DEF vars, reqvars
  <2>1. CASE SipRequest
    BY <2>1 DEF SipRequest, NoRequest
  <2>2. CASE SipRequestCancel \/ UserDeref \/ SipRequestClose \/ Pass
    BY <2>2 DEF SipRequestCancel, UserDeref, CancelRequest, SipRequestClose, Pass, reqvars
  <2>3. CASE SrvHandler \/ AddrHandler
    BY <2>3 DEF SrvHandler, AddrHandler
  <2>4. ASSUME NEW class, NEW f, FinalOutcome(class, f)
        PROVE  FALSE
    BY <2>4 DEF FinalOutcome
  <2>5. ASSUME NEW k \in Txn, Broken(k)
        PROVE  FALSE
    BY <2>4, <2>5 DEF Broken, reqvars
  <2>6. ASSUME NEW k \in Txn, Provisional(k) \/ Expire(k) \/ Retransmit(k) \/ Disconnect(k)
        PROVE  FALSE
    BY <2>5, <2>6 DEF Provisional, Expire, Retransmit, Disconnect, reqvars
  <2>7. ASSUME NEW k \in Txn, NEW class \in {"2xx", "503", "fail"}, Final(k, class)
        PROVE  FALSE
    BY <2>4, <2>7 DEF Final, reqvars
  <2>. QED BY <2>1, <2>2, <2>3, <2>6, <2>7 DEF ReqNext
<1>. QED BY <1>1, PTL DEF ReqSpec, CancelStopsFailover
=============================================================================
