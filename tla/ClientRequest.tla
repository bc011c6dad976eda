--------------------------- MODULE ClientRequest ---------------------------
(***************************************************************************)
(* The SIP request layer: re/src/sip/request.c on top of ctrans.c.         *)
(*                                                                         *)
(* A stateful request resolves its destination, tries the addresses one    *)
(* after the other (a transaction each), fails over on errors and 503, and *)
(* reports one final outcome to the user, who may cancel it or drop his    *)
(* reference (mem_deref) at any moment.  Every action is one callback of   *)
(* the event loop with all the calls it makes, down to the transactions.   *)
(***************************************************************************)
EXTENDS ClientTrans

CONSTANTS
    MaxAddr,    \* bound on the addresses one lookup yields
    MaxSrv      \* bound on the SRV records of the destination

ASSUME RecordsAssumption == MaxAddr \in Nat \ {0} /\ MaxSrv \in Nat

VARIABLES
    req,        \* struct sip_request
    used,       \* attempts made so far (names the next transaction)
    told        \* final outcomes the user's resph was given

reqvars == <<req, used, told>>
vars == <<ctvars, reqvars>>

\* handle: the user holds the object (*reqp); resph: the user's handler is
\* still set; cur: the transaction of the current attempt (0: ct == NULL);
\* dns: the query in flight; addr, srv: addresses and SRV records left.
NoRequest ==
    [alive |-> FALSE, handle |-> FALSE, resph |-> FALSE, canceled |-> FALSE,
     provrecv |-> FALSE, cur |-> 0, dns |-> "none", addr |-> 0, srv |-> 0]

ReqInit ==
    /\ CtInit
    /\ req = NoRequest
    /\ used = 0
    /\ told = 0

(***************************************************************************)
(* Steps the callbacks are made of.                                        *)
(***************************************************************************)
\* mutation: *reqp is not cleared
TerminateStale(r) ==
    /\ req' = [NoRequest EXCEPT !.handle = r.handle]
    /\ told' = IF r.resph THEN told + 1 ELSE told

\* terminate() and the mem_deref after it: *reqp is cleared, resph told
Terminate(r) ==
    /\ req' = NoRequest
    /\ told' = IF r.resph THEN told + 1 ELSE told

\* request(): attempt n goes out (RequestNext resets provrecv)
Attempted(f, n) == [f EXCEPT ![n] = Requested(invite)]

CanAttempt == used < MaxAttempts

\* Where request_next can end up from a addresses and s SRV records: it pops
\* addresses, skipping those it cannot send to, then SRV records, whose
\* targets are cached or have to be looked up.
NextTargets(a, s) ==
    [what : {"sent"}, addr : 0..(a - 1), srv : {s}]
    \union [what : {"sent"}, addr : 0..(MaxAddr - 1), srv : 0..(s - 1)]
    \union [what : {"lookup"}, addr : {0}, srv : 0..(s - 1)]
    \union [what : {"failed"}, addr : {0}, srv : 0..s]

\* request_next() called for r with the transactions f: a new attempt, a
\* new lookup, or the end of the request
RequestNext(r, f) ==
    \E t \in NextTargets(r.addr, r.srv) :
        \/ /\ t.what = "sent" /\ CanAttempt
           /\ used' = used + 1
           /\ ct' = Attempted(f, used + 1)
           /\ req' = [r EXCEPT !.cur = used + 1, !.provrecv = FALSE, !.dns = "none",
                               !.addr = t.addr, !.srv = t.srv]
           /\ UNCHANGED told
        \/ /\ t.what = "lookup"
           /\ req' = [r EXCEPT !.cur = 0, !.dns = "addr", !.addr = 0, !.srv = t.srv]
           /\ ct' = f
           /\ UNCHANGED <<used, told>>
        \/ /\ t.what = "failed"
           /\ Terminate(r)
           /\ ct' = f
           /\ UNCHANGED used

\* mutation: a cancelled request is tried elsewhere
FinalOutcomeAnyway(class, f) ==
    LET r == [req EXCEPT !.cur = 0]
    IN  IF class \in {"error", "503"} /\ (r.addr > 0 \/ r.srv > 0)
        THEN RequestNext(r, f)
        ELSE /\ Terminate(r)
             /\ ct' = f
             /\ UNCHANGED used

\* response_handler() with a final outcome of attempt k; f has the
\* transactions as ctrans leaves them
FinalOutcome(class, f) ==
    LET r == [req EXCEPT !.cur = 0]
    IN  IF ~r.canceled /\ class \in {"error", "503"} /\ (r.addr > 0 \/ r.srv > 0)
        THEN RequestNext(r, f)
        ELSE /\ Terminate(r)
             /\ ct' = f
             /\ UNCHANGED used

\* what ctrans calls resph for: only the current attempt has one
Current(k) == req.alive /\ k = req.cur /\ k # CancelId

(***************************************************************************)
(* The user                                                                *)
(***************************************************************************)
\* sip_request(): a numeric destination is tried at once, a name is looked up
SipRequest ==
    /\ req = NoRequest /\ used = 0 /\ told = 0
    /\ LET r == [NoRequest EXCEPT !.alive = TRUE, !.handle = TRUE, !.resph = TRUE]
       IN  \/ /\ ct' = Attempted(ct, 1)
              /\ used' = 1
              /\ req' = [r EXCEPT !.cur = 1]
           \/ \E q \in {"srv", "addr"} :
                  /\ req' = [r EXCEPT !.dns = q]
                  /\ UNCHANGED <<ct, used>>
    /\ UNCHANGED <<invite, reliable, told, finals>>

\* mutation: an INVITE that rings already is not cancelled
CancelRequestQuiet(r, ok) ==
    /\ req' = [r EXCEPT !.canceled = TRUE]
    /\ UNCHANGED <<ctvars, used, told>>

\* sip_request_cancel()
CancelRequest(r, ok) ==
    /\ req' = [r EXCEPT !.canceled = TRUE]
    /\ ct' = IF r.provrecv /\ r.cur # 0 THEN Cancelled(ct, r.cur, ok) ELSE ct
    /\ UNCHANGED <<invite, reliable, used, told, finals>>

SipRequestCancel ==
    /\ req.handle /\ ~req.canceled
    /\ \E ok \in BOOLEAN : CancelRequest(req, ok)

\* mem_deref by the user: the destructor detaches him and keeps the object
\* (mem_ref) until the transaction is over
UserDeref ==
    /\ req.handle
    /\ LET r == [req EXCEPT !.handle = FALSE, !.resph = FALSE]
       IN  IF req.canceled
           THEN req' = r /\ UNCHANGED <<ctvars, used, told>>
           ELSE \E ok \in BOOLEAN : CancelRequest(r, ok)

\* sip_request_close(): ct is freed without a report, then terminate()
SipRequestClose ==
    /\ req.alive
    /\ ct' = IF req.cur = 0 THEN ct ELSE [ct EXCEPT ![req.cur] = Freed]
    /\ Terminate(req)
    /\ UNCHANGED <<invite, reliable, used, finals>>

(***************************************************************************)
(* Callbacks                                                               *)
(***************************************************************************)
\* srv_handler / naptr_handler: SRV records found (with cached addresses or
\* not), or none: the host name itself is looked up
SrvHandler ==
    /\ req.dns = "srv"
    /\ \/ \E s \in 1..MaxSrv : RequestNext([req EXCEPT !.dns = "none", !.srv = s], ct)
       \/ /\ req' = [req EXCEPT !.dns = "addr"]
          /\ UNCHANGED <<ct, used, told>>
       \/ Terminate(req) /\ UNCHANGED <<ct, used>>
    /\ UNCHANGED <<invite, reliable, finals>>

\* mutation: the request is not ended when the name has no address
AddrHandlerSilent ==
    /\ req.dns = "addr"
    /\ \E a \in 0..MaxAddr :
           LET r == [req EXCEPT !.dns = "none", !.addr = a]
           IN  IF a = 0 /\ r.srv = 0
               THEN req' = r /\ UNCHANGED <<ct, used, told>>
               ELSE RequestNext(r, ct)
    /\ UNCHANGED <<invite, reliable, finals>>

\* addr_handler: no address and no other record ends the request
AddrHandler ==
    /\ req.dns = "addr"
    /\ \E a \in 0..MaxAddr :
           LET r == [req EXCEPT !.dns = "none", !.addr = a]
           IN  IF a = 0 /\ r.srv = 0
               THEN Terminate(r) /\ UNCHANGED <<ct, used>>
               ELSE RequestNext(r, ct)
    /\ UNCHANGED <<invite, reliable, finals>>

\* mutation: the CANCEL that waits for a provisional response is not sent
ProvisionalDeaf(k) ==
    /\ ct[k].state \notin {"none", "freed"}
    /\ ct' = [ct EXCEPT ![k] = Responded(k, @, "1xx")]
    /\ req' = IF Current(k) /\ Reports(ct[k]) THEN [req EXCEPT !.provrecv = TRUE] ELSE req
    /\ UNCHANGED <<invite, reliable, used, told, finals>>

\* a provisional response: the one CANCEL that had to wait for it goes out
Provisional(k) ==
    /\ ct[k].state \notin {"none", "freed"}
    /\ LET f == [ct EXCEPT ![k] = Responded(k, @, "1xx")]
       IN  IF Current(k) /\ Reports(ct[k]) /\ ~req.provrecv
           THEN /\ req' = [req EXCEPT !.provrecv = TRUE]
                /\ IF req.canceled
                   THEN \E ok \in BOOLEAN : ct' = Cancelled(f, k, ok)
                   ELSE ct' = f
           ELSE req' = req /\ ct' = f
    /\ UNCHANGED <<invite, reliable, used, told, finals>>

Final(k, class) ==
    /\ ct[k].state \notin {"none", "freed"}
    /\ LET f == [ct EXCEPT ![k] = Responded(k, @, class)]
       IN  IF Current(k) /\ Reports(ct[k])
           THEN FinalOutcome(class, f) /\ Report(k)
           ELSE /\ ct' = f
                /\ IF Reports(ct[k]) THEN Report(k) ELSE UNCHANGED finals
                /\ UNCHANGED reqvars
    /\ UNCHANGED <<invite, reliable>>

\* a deadline, a failed retransmission or a broken connection
Broken(k) ==
    LET f == [ct EXCEPT ![k] = Freed]
    IN  IF Current(k) /\ Reports(ct[k])
        THEN FinalOutcome("error", f) /\ Report(k) /\ UNCHANGED <<invite, reliable>>
        ELSE Fail(k) /\ UNCHANGED reqvars

Expire(k) == ct[k].tmr = 0 /\ Broken(k)

Retransmit(k) ==
    /\ ct[k].tmre = 0 /\ Reports(ct[k])
    /\ \/ /\ ct' = [ct EXCEPT ![k] = Retransmitted(@)]
          /\ UNCHANGED <<invite, reliable, finals, reqvars>>
       \/ Broken(k)

Disconnect(k) == reliable /\ Reports(ct[k]) /\ Broken(k)

Pass == Tick /\ UNCHANGED reqvars

ReqNext ==
    \/ SipRequest \/ SipRequestCancel \/ UserDeref \/ SipRequestClose
    \/ SrvHandler \/ AddrHandler
    \/ \E k \in Txn : \/ Provisional(k)
                      \/ \E class \in {"2xx", "503", "fail"} : Final(k, class)
                      \/ Expire(k) \/ Retransmit(k) \/ Disconnect(k)
    \/ Pass

\* Timers fire and the resolver answers (re/src/dns/client.c gives up on a
\* query after its own timeout), but no peer has to.
ReqFairness ==
    /\ WF_vars(Pass) /\ WF_vars(SrvHandler) /\ WF_vars(AddrHandler)
    /\ \A k \in Txn : WF_vars(Expire(k)) /\ WF_vars(Retransmit(k))

ReqSpec == ReqInit /\ [][ReqNext]_vars /\ ReqFairness

(***************************************************************************)
(* Properties                                                              *)
(***************************************************************************)
ReqTypeOK ==
    /\ CtTypeOK
    /\ req \in [alive : BOOLEAN, handle : BOOLEAN, resph : BOOLEAN, canceled : BOOLEAN,
                provrecv : BOOLEAN, cur : Txn, dns : {"none", "srv", "addr"},
                addr : 0..MaxAddr, srv : 0..MaxSrv]
    /\ used \in 0..MaxAttempts
    /\ told \in Nat

\* The user's handler gets at most one final outcome, and none is lost: as
\* long as the user has neither been told nor let go of the request, the
\* request is there and will call him.
UserToldOnce ==
    /\ told <= 1
    /\ told = 1 => ~req.alive
    /\ req.handle => req.alive /\ req.resph /\ told = 0

\* A live request waits for exactly one thing, the current transaction or a
\* lookup, so it can never hang with nothing left to wake it up; and no other
\* attempt is open, so the callee's servers never ring side by side.
RequestNotOrphaned ==
    /\ req.alive => ((req.cur # 0) # (req.dns # "none"))
    /\ \A k \in Attempt : Reports(ct[k]) <=> (req.alive /\ k = req.cur)

\* A cancelled INVITE that has rung (a provisional response to the current
\* attempt) has its CANCEL on the way or at least its deadline running,
\* whichever of the two came first.
CancelNotLost ==
    req.alive /\ req.canceled /\ req.provrecv /\ req.cur # 0 /\ invite
        => ct[req.cur].tmr # Off

\* A cancelled request is never failed over: only a lookup that was already
\* under way when it was cancelled can still start an attempt.
CancelStopsFailover ==
    [][ req.canceled /\ used' # used => req.dns # "none" ]_vars

\* A cancelled or abandoned request, and every request that is not an INVITE,
\* comes to an end although no peer ever answers.
RequestEnds == (req.alive /\ (req.canceled \/ ~invite)) ~> ~req.alive
=============================================================================
