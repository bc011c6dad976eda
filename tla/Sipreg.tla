------------------------------- MODULE Sipreg -------------------------------
(***************************************************************************)
(* Registration: the clients of re/src/sipreg/reg.c, the account's view of *)
(* them in baresip/src/reg.c, and the registrar with its leases.           *)
(*                                                                         *)
(* Whenever the account is registered anew (the address has changed) or is *)
(* unregistered, the client it had is dereferenced; that client lives on   *)
(* until its contact is withdrawn.  Time is counted in ticks; a wait the   *)
(* code computes is a number of Word ticks at most.                        *)
(***************************************************************************)
EXTENDS Integers

CONSTANTS
    Clients,        \* the clients the account has in turn: 1, 2, ...
    RegInt,         \* the interval asked for (acc->regint)
    Granted,        \* the intervals a registrar may name in its answer
    DefaultExpires, \* DEFAULT_EXPIRES
    MinExpires,     \* the interval a 423 asks for
    Tenths,         \* a lease is refreshed after so many tenths of it (9)
    TransTimeout,   \* the longest a transaction takes
    FailWaits,      \* the delays failwait may return
    LoopMax,        \* failures in a row before sip_request_loops gives up (16)
    Word,           \* what the 32-bit reg->wait can hold, in ticks
    Outbound        \* reg->regid > 0

\* response_handler: wait *= 900 [ms] in 32 bits
Refresh(interval) == ((interval * Tenths) \div 10) % Word

ASSUME SipregAssumption ==
    /\ Clients \union Granted \union FailWaits
          \union {RegInt, DefaultExpires, MinExpires, Tenths, TransTimeout, LoopMax, Word}
          \subseteq Nat \ {0}
    /\ Outbound \in BOOLEAN

\* A lease has room for two transactions, the one that set it and the first that refreshes
\* it: with the code's 0.9 and 32 s, intervals above 640 s have (account.c asks for 3600).
ASSUME LeaseAssumption ==
    \A i \in Granted \union {RegInt, DefaultExpires, MinExpires} :
        Refresh(i) + 2 * TransTimeout < i

\* what contact_handler finds in a 2xx: the contact of the client with the interval the
\* registrar names, with none (DefaultExpires), or no contact that is the client's
Unlisted == 0
Listed == Granted \union {DefaultExpires, Unlisted}

\* a contact that is not listed has the interval that was asked for
Interval(asked, listed) == IF listed = Unlisted THEN asked ELSE listed

Off == -1

VARIABLES
    regs,       \* the clients
    cur,        \* reg->sipreg of baresip: a client, or 0
    scode,      \* reg->scode: what the account believes ("none", "ok", "fail")
    bound,      \* the registrar: the clients whose contacts it has
    lease,      \* what is left of the current client's lease
    lastOk      \* did the client's last request end with a 2xx?

regVars == <<regs, cur, scode, bound, lease, lastOk>>

NewReg == [life |-> "none", terminated |-> FALSE, registered |-> FALSE, expires |-> RegInt,
           req |-> "none", asked |-> 0, ans |-> "none", granted |-> 0, left |-> 0,
           tmr |-> Off, ka |-> FALSE, loops |-> 0, last |-> "none"]

Alive(r) == r.life = "alive"

(***************************************************************************)
(* What the functions of sipreg/reg.c make of a client.  ok says whether   *)
(* the request they send can be sent.                                      *)
(***************************************************************************)
Freed(r) == [NewReg EXCEPT !.life = "freed"]

\* mutation: a client that is going away asks for its interval again
RequestedFull(r, reset, ok) ==
  LET asking == IF reset THEN [r EXCEPT !.loops = 0, !.last = "none"] ELSE r
  IN IF ok THEN [asking EXCEPT !.req = "sent", !.asked = asking.expires, !.left = TransTimeout]
     ELSE asking

\* request: a client that is going away asks for no more time
Requested(r, reset, ok) ==
  LET asking == [r EXCEPT !.expires = IF r.terminated THEN 0 ELSE @,
                          !.loops   = IF reset THEN 0 ELSE @,
                          !.last    = IF reset THEN "none" ELSE @]
  IN IF ok THEN [asking EXCEPT !.req = "sent", !.asked = asking.expires, !.left = TransTimeout]
     ELSE asking

\* mutation: the interval is given up before the answer to the request in progress is known
DereferencedEarly(r, ok) ==
  LET leaving == [r EXCEPT !.terminated = TRUE, !.tmr = Off, !.expires = 0]
  IN CASE r.req # "none" -> leaving
       [] r.req = "none" /\ r.registered /\ ok -> Requested(leaving, TRUE, TRUE)
       [] OTHER -> Freed(r)

\* destructor: a client with a request in progress waits for its answer, one that is
\* registered withdraws its contact
Dereferenced(r, ok) ==
  LET leaving == [r EXCEPT !.terminated = TRUE, !.tmr = Off]
  IN CASE r.req # "none" -> leaving
       [] r.req = "none" /\ r.registered /\ ok -> Requested(leaving, TRUE, TRUE)
       [] OTHER -> Freed(r)

\* sip_request_loops
LoopsNow(r, ans) == (IF ans = "200" THEN 0 ELSE r.loops + 1)
Loops(r, ans) ==
  /\ ans # "200"
  /\ LoopsNow(r, ans) >= LoopMax \/ (ans # "401" /\ r.last = ans)

\* the end of response_handler
Out(r, wait, ok) ==
  CASE r.expires = 0 -> Freed(r)
    [] r.expires # 0 /\ r.terminated ->
          IF r.registered /\ ok THEN Requested(r, TRUE, TRUE) ELSE Freed(r)
    [] OTHER -> [r EXCEPT !.tmr = wait]

\* mutation: the interval is the one that was asked for, whatever the answer lists
AcceptedAsked(r, ok) ==
  Out([r EXCEPT !.registered = TRUE, !.ka = @ \/ (Outbound /\ ~r.terminated)],
      Refresh(r.expires), ok)

\* a 2xx, with contact_handler: it is the interval asked for unless the contact is listed
Accepted(r, ok) ==
  Out([r EXCEPT !.registered = TRUE, !.ka = @ \/ (Outbound /\ ~r.terminated)],
      Refresh(Interval(r.expires, r.granted)), ok)

\* a 401 that can be answered (known) and a 423 are followed by another request at once
Retry(r, ans, known) == (ans = "401" /\ known) \/ (ans = "423" /\ r.expires # 0)

Refused(r, ans, known, wait, ok) ==
  LET again == IF ans = "423" THEN [r EXCEPT !.expires = MinExpires] ELSE r
  IN IF Retry(r, ans, known) /\ ~(r.terminated /\ ~r.registered)
     THEN IF ok THEN Requested(again, FALSE, TRUE)
          ELSE Out(Requested(again, FALSE, FALSE), wait, FALSE)
     ELSE Out(r, wait, ok)

\* response_handler: what becomes of the client when its request ends (a provisional
\* response changes nothing)
Answered(r, ans, known, wait, ok) ==
  LET idle == [r EXCEPT !.req = "none", !.ans = "none", !.granted = 0, !.left = 0]
      told == [idle EXCEPT !.loops = LoopsNow(r, ans),
                             !.last = IF ans = "200" THEN "none" ELSE ans]
  IN CASE ans = "err" -> Out(idle, wait, ok)
       [] ans = "200" -> [Accepted([told EXCEPT !.granted = r.granted], ok) EXCEPT !.granted = 0]
       [] ans \notin {"err", "200"} /\ Loops(r, ans) -> Out(told, wait, ok)
       [] OTHER -> Refused(told, ans, known, wait, ok)

-----------------------------------------------------------------------------
(***************************************************************************)
(* The actions.                                                            *)
(***************************************************************************)
RegInit ==
  /\ regs = [c \in Clients |-> NewReg]
  /\ cur = 0
  /\ scode = "none"
  /\ bound = {} /\ lease = 0
  /\ lastOk = [c \in Clients |-> FALSE]

\* register_handler, called with the outcome of a current client's request
Told(c, outcome) == scode' = IF c = cur THEN outcome ELSE scode

IsNext(c) == /\ regs[c].life = "none"
             /\ \A d \in Clients : d < c => regs[d].life # "none"

Left(c, ok) == IF c = 0 THEN regs ELSE [regs EXCEPT ![c] = Dereferenced(@, ok)]
LeftOk(left) == [c \in Clients |-> lastOk[c] /\ (left[c].life = "freed" => regs[c] = left[c])]

\* reg_register: the old client leaves, the new one sends its first REGISTER (sipreg_register)
Register(c, left, ok) ==
  /\ IsNext(c)
  /\ LET first == [NewReg EXCEPT !.life = "alive"]
     IN regs' = [left EXCEPT ![c] = IF ok THEN Requested(first, TRUE, TRUE) ELSE Freed(first)]
  /\ cur' = IF ok THEN c ELSE 0
  /\ scode' = "none"
  /\ lastOk' = LeftOk(left)
  /\ lease' = 0
  /\ UNCHANGED bound

\* reg_unregister
Unregister(left) ==
  /\ cur # 0
  /\ regs' = left
  /\ cur' = 0
  /\ scode' = "none"
  /\ lastOk' = LeftOk(left)
  /\ lease' = 0
  /\ UNCHANGED bound

\* The registrar takes up a request and answers it.  Where its answer names no interval it
\* grants what the client then takes: DefaultExpires, or what was asked for.
RegistrarAnswers(c, ans, g) ==
  /\ regs[c].req = "sent"
  /\ regs' = [regs EXCEPT ![c].req = "answered", ![c].ans = ans,
                          ![c].granted = IF ans = "200" THEN g ELSE 0]
  /\ IF ans # "200" THEN UNCHANGED <<bound, lease>>
     ELSE /\ bound' = IF regs[c].asked = 0 THEN bound \ {c} ELSE bound \union {c}
          /\ lease' = IF c = cur THEN Interval(regs[c].asked, g) ELSE lease
  /\ UNCHANGED <<cur, scode, lastOk>>

\* The request ends with the answer, with a transport error or with its timeout.  The user
\* is told unless the client goes away or has sent another request.
RequestEnds(c, ans, known, wait, ok) ==
  LET r == Answered(regs[c], ans, known, wait, ok) IN
  /\ regs' = [regs EXCEPT ![c] = r]
  /\ IF r.tmr # Off THEN Told(c, IF ans = "200" THEN "ok" ELSE "fail") ELSE UNCHANGED scode
  /\ lastOk' = [lastOk EXCEPT ![c] = ans = "200" /\ (r.life = "freed" => ok)]
  /\ UNCHANGED <<cur, bound, lease>>

ResponseArrives(c, known, wait, ok) ==
  /\ regs[c].req = "answered"
  /\ RequestEnds(c, regs[c].ans, known, wait, ok)

RequestFails(c, wait, ok) ==
  /\ regs[c].req = "sent" \/ (regs[c].req = "answered" /\ regs[c].left = 0)
  /\ RequestEnds(c, "err", FALSE, wait, ok)

\* tmr_handler
TmrHandler(c, wait, ok) ==
  /\ regs[c].tmr = 0
  /\ LET r == Requested([regs[c] EXCEPT !.tmr = Off], TRUE, ok)
     IN regs' = [regs EXCEPT ![c] = IF ok THEN r ELSE [r EXCEPT !.tmr = wait]]
  /\ IF ok THEN UNCHANGED scode ELSE Told(c, "fail")
  /\ UNCHANGED <<cur, bound, lease, lastOk>>

\* mutation: a broken flow starts the timer although a request is in progress
KeepaliveHandlerBusy(c, wait) ==
  /\ regs[c].ka
  /\ regs' = [regs EXCEPT ![c].ka = FALSE, ![c].tmr = wait]
  /\ Told(c, "fail")
  /\ UNCHANGED <<cur, bound, lease, lastOk>>

\* keepalive_handler: the flow to the registrar is broken; a request in progress will
\* find out by itself
KeepaliveHandler(c, wait) ==
  /\ regs[c].ka
  /\ LET idle == regs[c].req = "none" /\ ~regs[c].terminated
     IN /\ regs' = [regs EXCEPT ![c].ka = FALSE, ![c].tmr = IF idle THEN wait ELSE @]
        /\ IF idle THEN Told(c, "fail") ELSE UNCHANGED scode
  /\ UNCHANGED <<cur, bound, lease, lastOk>>

\* Time passes unless a timer is due.  The current client's lease may run out; a contact
\* that was left behind is not followed any further.
RegTick ==
  /\ \A c \in Clients : regs[c].tmr # 0 /\ (regs[c].req # "none" => regs[c].left > 0)
  /\ regs' = [c \in Clients |->
                [regs[c] EXCEPT !.tmr = IF @ = Off THEN Off ELSE @ - 1,
                                !.left = IF regs[c].req = "none" THEN @ ELSE @ - 1]]
  /\ lease' = IF lease = 0 THEN 0 ELSE lease - 1
  /\ bound' = IF lease = 1 THEN bound \ {cur} ELSE bound
  /\ UNCHANGED <<cur, scode, lastOk>>

Answers == {"200", "401", "423", "other"}

Ends(c) == \E wait \in FailWaits, ok, known \in BOOLEAN :
             ResponseArrives(c, known, wait, ok) \/ RequestFails(c, wait, ok)

RegNext ==
  \/ \E ok \in BOOLEAN, left \in {Left(cur, TRUE), Left(cur, FALSE)} :
        \/ \E c \in Clients : Register(c, left, ok)
        \/ Unregister(left)
  \/ \E c \in Clients, ans \in Answers, g \in Listed : RegistrarAnswers(c, ans, g)
  \/ \E c \in Clients : Ends(c)
  \/ \E c \in Clients, wait \in FailWaits : KeepaliveHandler(c, wait)
  \/ \E c \in Clients, wait \in FailWaits, ok \in BOOLEAN : TmrHandler(c, wait, ok)
  \/ RegTick

RegFairness ==
  /\ WF_regVars(RegTick)
  /\ \A c \in Clients : WF_regVars(Ends(c))

RegSpec == RegInit /\ [][RegNext]_regVars /\ RegFairness

-----------------------------------------------------------------------------
(***************************************************************************)
(* Properties.                                                             *)
(***************************************************************************)
\* While the account says that it is registered (ua_isregistered), the registrar has its
\* contact, whichever interval the client took from the answer (reg.c:140-190), unless its
\* refresh was challenged and goes on: a chain of up to LoopMax + 1 transactions may outlast
\* the lease, and the account hears of it when the chain ends.
Challenged(r) == r.req # "none" /\ r.loops > 0
ShownIsBound == scode = "ok" => cur \in bound \/ Challenged(regs[cur])

\* A registration is never given up in silence and never pursued twice: a client waits for
\* either an answer or its timer; one that is leaving waits for an answer.
Pursued ==
  \A c \in Clients : Alive(regs[c]) =>
    LET waiting == regs[c].req # "none"  timed == regs[c].tmr # Off
    IN waiting # timed /\ (regs[c].terminated => waiting)

\* A client that was freed after a 2xx has withdrawn its contact, whatever was under way
\* when it was dereferenced.
GoneIsUnbound ==
  \A c \in Clients : regs[c].life = "freed" /\ lastOk[c] => c \notin bound

\* A client that has been dereferenced goes away.
Leaves == \A c \in Clients : regs[c].terminated ~> regs[c].life = "freed"
=============================================================================
