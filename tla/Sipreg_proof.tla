---------------------------- MODULE Sipreg_proof ----------------------------
(***************************************************************************)
(* Proofs about the registration clients of Sipreg, for any number of      *)
(* clients and any width of the wait: Pursued and GoneIsUnbound for any    *)
(* intervals, ShownIsBound for intervals with room for two transactions    *)
(* (LeaseAssumption), the code's 3600 s among them.                        *)
(***************************************************************************)
EXTENDS Sipreg, TLAPS

(***************************************************************************)
(* The inductive invariant.                                                *)
(***************************************************************************)
Regs == [life : {"none", "alive", "freed"}, terminated : BOOLEAN, registered : BOOLEAN,
         expires : Nat, req : {"none", "sent", "answered"}, asked : Nat,
         ans : {"none"} \union Answers, granted : Nat, left : Nat,
         tmr : Nat \union {Off}, ka : BOOLEAN, loops : Nat,
         last : {"none"} \union Answers]

\* a client between two callbacks: the interval of a request in progress is the one the
\* client has, which is none only if it is leaving
Asked == {RegInt, MinExpires}

Fit(r) ==
    /\ r \in Regs
    /\ ~Alive(r) => r.req = "none" /\ r.tmr = Off /\ ~r.ka
    /\ Alive(r) => /\ (r.req # "none") # (r.tmr # Off)
                   /\ r.terminated => r.req # "none"
                   /\ ~r.terminated => r.expires \in Asked
    /\ r.req # "none" =>
          r.asked = r.expires /\ r.left <= TransTimeout /\ r.loops < LoopMax
    /\ r.req = "answered" => r.ans \in Answers /\ (r.ans = "200" => r.granted \in Listed)

\* the registrar has accepted a request for no more time
Withdrawn(r) == r.req = "answered" /\ r.ans = "200" /\ r.asked = 0

\* the contact of a client is with the registrar only if the client may know it is
Traced(r, ok, isBound) ==
    /\ r.life = "none" => ~ok /\ ~isBound
    /\ r.life = "freed" /\ ok => ~isBound
    /\ Withdrawn(r) => ~isBound

\* the account's client
Held(r) == Alive(r) /\ ~r.terminated

RegInv ==
    /\ bound \subseteq Clients /\ lease \in Nat /\ lastOk \in [Clients -> BOOLEAN]
    /\ scode \in {"none", "ok", "fail"}
    /\ regs \in [Clients -> Regs]
    /\ \A c \in Clients : Fit(regs[c]) /\ Traced(regs[c], lastOk[c], c \in bound)
    /\ cur # 0 => cur \in Clients /\ Held(regs[cur])

(***************************************************************************)
(* What ShownIsBound needs besides: a lease the account counts on outlasts *)
(* the wait for its refresh and the first request of it, and a renewed one *)
(* is as old as that request at most.                                      *)
(***************************************************************************)
Renewed(r) == r.req = "answered" /\ r.ans = "200"

Covered(r, l, isBound) ==
    IF r.tmr # Off THEN isBound /\ l > r.tmr + TransTimeout
    ELSE r.loops > 0 \/ Renewed(r) \/ (isBound /\ l > r.left)

Fresh(r, l, isBound) ==
    Renewed(r) => isBound /\ l + TransTimeout >= Interval(r.asked, r.granted) + r.left

Shown(r, l, isBound) ==
    /\ scode = "ok" => Covered(r, l, isBound)
    /\ Fresh(r, l, isBound)

LeaseInv ==
    /\ scode = "ok" => cur # 0
    /\ cur # 0 => Shown(regs[cur], lease, cur \in bound)

(***************************************************************************)
(* Lemmas about the functions of the client                                *)
(***************************************************************************)
LEMMA Numbers ==
  /\ RegInt \in Nat /\ RegInt # 0 /\ MinExpires \in Nat /\ MinExpires # 0
  /\ TransTimeout \in Nat /\ TransTimeout # 0 /\ LoopMax \in Nat /\ LoopMax # 0
  /\ Granted \subseteq Nat /\ FailWaits \subseteq Nat /\ 0 \notin Clients
  /\ Clients \subseteq Nat /\ Outbound \in BOOLEAN
  /\ Asked \subseteq Nat \ {0} /\ Listed \subseteq Nat
  /\ \A n \in Nat : n # Off
  BY SipregAssumption DEF Off, Asked, Listed, Unlisted

LEMMA RefreshNat ==
  ASSUME NEW g \in Nat
  PROVE  Refresh(g) \in Nat
<1>1. Tenths \in Nat /\ Word \in Nat /\ Word > 0
  BY SipregAssumption
<1>. DEFINE m == (g * Tenths) \div 10
<1>2. g * Tenths \in Nat
  BY <1>1
<1>3. m \in Nat
  BY <1>2
<1>. HIDE DEF m
<1>4. m % Word \in 0..(Word - 1)
  BY <1>1, <1>3
<1>. QED BY <1>4, <1>1 DEF Refresh, m

\* the interval a client of the account's takes from a 2xx has room for two transactions
LEMMA IntervalRoom ==
  ASSUME NEW a \in Asked, NEW g \in Listed
  PROVE  LET i == Interval(a, g) IN
         i \in Nat /\ Refresh(i) \in Nat /\ Refresh(i) + 2 * TransTimeout < i
<1>. DEFINE i == Interval(a, g)
<1>1. i \in Granted \union {RegInt, DefaultExpires, MinExpires}
  BY DEF Interval, Listed, Asked, Unlisted
<1>2. i \in Nat
  BY <1>1, SipregAssumption
<1>. QED BY <1>1, <1>2, LeaseAssumption, RefreshNat

LEMMA IntervalNat ==
  ASSUME NEW a \in Nat, NEW g \in Listed
  PROVE  Interval(a, g) \in Nat
  BY Numbers DEF Interval

LEMMA NewRegFit == NewReg \in Regs /\ Fit(NewReg) /\ NewReg.life = "none"
  BY Numbers DEF NewReg, Regs, Fit, Alive, Off

LEMMA FreedFit ==
  ASSUME NEW r
  PROVE  /\ Fit(Freed(r)) /\ Freed(r).life = "freed" /\ ~Alive(Freed(r))
         /\ Freed(r).req = "none" /\ Freed(r).tmr = Off
  BY NewRegFit DEF Freed, NewReg, Regs, Fit, Alive

\* request: a REGISTER goes out; the one of a client that is leaving asks for nothing
LEMMA RequestedFit ==
  ASSUME NEW r \in Regs, NEW reset \in BOOLEAN, Alive(r), r.tmr = Off,
         ~r.terminated => r.expires \in Asked, ~reset => r.loops < LoopMax
  PROVE  LET q == Requested(r, reset, TRUE) IN
         /\ Fit(q) /\ Alive(q) /\ q.req = "sent" /\ q.terminated = r.terminated
         /\ q.tmr = Off /\ q.left = TransTimeout
         /\ q.loops = IF reset THEN 0 ELSE r.loops
<1>. DEFINE e == IF r.terminated THEN 0 ELSE r.expires
            l == IF reset THEN 0 ELSE r.loops
            t == IF reset THEN "none" ELSE r.last
            a == [r EXCEPT !.expires = e, !.loops = l, !.last = t]
            q == [a EXCEPT !.req = "sent", !.asked = a.expires, !.left = TransTimeout]
<1>1. e \in Nat /\ l \in Nat /\ l < LoopMax /\ t \in {"none"} \union Answers
  BY Numbers DEF Regs
<1>2. Requested(r, reset, TRUE) = q
  BY DEF Requested
<1>. HIDE DEF l, t
<1>3. /\ a \in Regs /\ a.expires = e /\ a.loops = l /\ a.life = r.life
      /\ a.terminated = r.terminated /\ a.tmr = Off
  BY <1>1 DEF Regs
<1>. HIDE DEF a
<1>4. /\ q \in Regs /\ q.expires = e /\ q.loops = l /\ q.life = r.life
      /\ q.terminated = r.terminated /\ q.tmr = Off /\ q.req = "sent" /\ q.asked = e
      /\ q.left = TransTimeout
  BY <1>3, Numbers DEF Regs
<1>. HIDE DEF q
<1>5. Fit(q)
  BY <1>1, <1>4, Numbers DEF Fit, Alive
<1>. QED BY <1>2, <1>4, <1>5 DEF Alive, l

\* the destructor: the client is gone, or it waits for an answer and then goes
LEMMA DereferencedFit ==
  ASSUME NEW r, Fit(r), Held(r), NEW ok \in BOOLEAN
  PROVE  LET q == Dereferenced(r, ok) IN
         /\ Fit(q) /\ ~Held(q)
         /\ q.life = "freed" \/ Alive(q)
         /\ Withdrawn(q) => Withdrawn(r)
<1>. DEFINE v == [r EXCEPT !.terminated = TRUE, !.tmr = Off]
<1>1. /\ v \in Regs /\ v.terminated /\ v.tmr = Off /\ Alive(v) /\ v.req = r.req
      /\ v.asked = r.asked /\ v.expires = r.expires /\ v.left = r.left /\ v.loops = r.loops
      /\ v.ans = r.ans /\ v.granted = r.granted
  BY DEF Fit, Regs, Held, Alive
<1>. HIDE DEF v
<1>2. \/ Dereferenced(r, ok) = v /\ r.req # "none"
      \/ Dereferenced(r, ok) = Requested(v, TRUE, TRUE)
      \/ Dereferenced(r, ok) = Freed(r)
  BY DEF Dereferenced, v
<1>3. CASE Dereferenced(r, ok) = v /\ r.req # "none"
  <2>1. Fit(v)
    BY <1>1, <1>3 DEF Fit
  <2>. QED BY <1>1, <1>3, <2>1 DEF Held, Withdrawn
<1>4. CASE Dereferenced(r, ok) = Requested(v, TRUE, TRUE)
  <2>. DEFINE q == Requested(v, TRUE, TRUE)
  <2>1. Fit(q) /\ Alive(q) /\ q.req = "sent" /\ q.terminated
    BY <1>1, RequestedFit
  <2>. HIDE DEF q
  <2>2. ~Held(q) /\ ~Withdrawn(q)
    BY <2>1 DEF Held, Withdrawn
  <2>. QED BY <1>4, <2>1, <2>2 DEF q
<1>5. CASE Dereferenced(r, ok) = Freed(r)
  BY <1>5, FreedFit DEF Held, Withdrawn
<1>. QED BY <1>2, <1>3, <1>4, <1>5

\* the end of response_handler: a client of the account's starts its timer, one that is
\* leaving goes or asks once more for nothing
LEMMA OutFit ==
  ASSUME NEW r \in Regs, Alive(r), r.req = "none", r.tmr = Off,
         ~r.terminated => r.expires \in Asked, NEW wait \in Nat, NEW ok \in BOOLEAN
  PROVE  LET q == Out(r, wait, ok) IN
         /\ Fit(q) /\ q.req \in {"none", "sent"} /\ (q.life = "freed" \/ Alive(q))
         /\ ~r.terminated => Held(q) /\ q.tmr = wait
         /\ q.life = "freed" => r.expires = 0 \/ ~r.registered \/ ~ok
<1>. DEFINE w == [r EXCEPT !.tmr = wait]
<1>1. \/ Out(r, wait, ok) = Freed(r) /\ r.terminated
           /\ (r.expires = 0 \/ ~r.registered \/ ~ok)
      \/ Out(r, wait, ok) = Requested(r, TRUE, TRUE) /\ r.terminated
      \/ Out(r, wait, ok) = w /\ ~r.terminated
  BY Numbers DEF Out
<1>2. CASE Out(r, wait, ok) = Freed(r) /\ r.terminated
             /\ (r.expires = 0 \/ ~r.registered \/ ~ok)
  BY <1>2, FreedFit
<1>3. CASE Out(r, wait, ok) = Requested(r, TRUE, TRUE) /\ r.terminated
  <2>. DEFINE q == Requested(r, TRUE, TRUE)
  <2>1. Fit(q) /\ Alive(q) /\ q.req = "sent"
    BY <1>3, RequestedFit
  <2>. HIDE DEF q
  <2>2. q.life # "freed"
    BY <2>1 DEF Alive
  <2>. QED BY <1>3, <2>1, <2>2 DEF q
<1>4. CASE Out(r, wait, ok) = w /\ ~r.terminated
  <2>1. w \in Regs /\ Alive(w) /\ w.req = "none" /\ w.tmr = wait /\ ~w.terminated
        /\ w.expires \in Asked
    BY <1>4 DEF Regs, Alive
  <2>. HIDE DEF w
  <2>2. Fit(w) /\ Held(w) /\ w.life # "freed"
    BY <2>1, Numbers DEF Fit, Held, Alive
  <2>. QED BY <1>4, <2>1, <2>2
<1>. QED BY <1>1, <1>2, <1>3, <1>4

\* response_handler: what becomes of a client whose request ends with ans.  One of the
\* account's waits for its timer, after a 2xx until the lease is to be refreshed, or has
\* sent the request once more.
LEMMA AnsweredFit ==
  ASSUME NEW r, Fit(r), Alive(r), r.req # "none", NEW ans \in Answers \union {"err"},
         ans = "200" => r.granted \in Listed,
         NEW known \in BOOLEAN, NEW wait \in Nat, NEW ok \in BOOLEAN
  PROVE  LET q == Answered(r, ans, known, wait, ok) IN
         /\ Fit(q) /\ q.req \in {"none", "sent"} /\ (q.life = "freed" \/ Alive(q))
         /\ q.life = "freed" /\ ans = "200" => r.expires = 0 \/ ~ok
         /\ ~r.terminated =>
              /\ Held(q)
              /\ ans = "200" => q.tmr = Refresh(Interval(r.expires, r.granted))
              /\ ans = "err" => q.tmr # Off
              /\ q.tmr = Off => /\ q.req = "sent" /\ q.left = TransTimeout
                                /\ q.loops = r.loops + 1
<1>. DEFINE idle == [r EXCEPT !.req = "none", !.ans = "none", !.granted = 0, !.left = 0]
            n    == LoopsNow(r, ans)
            l    == IF ans = "200" THEN "none" ELSE ans
            told == [idle EXCEPT !.loops = n, !.last = l]
            Q    == Answered(r, ans, known, wait, ok)
<1>1. /\ r \in Regs /\ r.tmr = Off /\ (~r.terminated => r.expires \in Asked) /\ wait # Off
  BY Numbers DEF Fit
<1>2. /\ idle \in Regs /\ Alive(idle) /\ idle.req = "none" /\ idle.tmr = Off
      /\ idle.terminated = r.terminated /\ idle.expires = r.expires
  BY <1>1 DEF Regs, Alive
<1>3. n \in Nat /\ (ans # "200" => n = r.loops + 1)
  BY <1>1 DEF LoopsNow, Regs
<1>4. CASE ans = "err"
  <2>1. Q = Out(idle, wait, ok)
    BY <1>4 DEF Answered
  <2>. HIDE DEF idle, Q
  <2>. QED BY <1>1, <1>2, <1>4, <2>1, OutFit DEF Q
<1>5. ASSUME ans # "err"
      PROVE  /\ told \in Regs /\ Alive(told) /\ told.req = "none" /\ told.tmr = Off
             /\ told.terminated = r.terminated /\ told.expires = r.expires /\ told.loops = n
             /\ told.left = 0
  <2>1. l \in {"none"} \union Answers
    BY <1>5
  <2>. HIDE DEF l, n
  <2>. QED BY <1>2, <1>3, <2>1 DEF Regs, Alive
<1>6. CASE ans = "200"
  <2>. DEFINE g == [told EXCEPT !.granted = r.granted]
              a == [g EXCEPT !.registered = TRUE, !.ka = @ \/ (Outbound /\ ~g.terminated)]
              w == Refresh(Interval(r.expires, r.granted))
              o == Out(a, w, ok)
  <2>1. Q = [o EXCEPT !.granted = 0]
    <3>1. Q = [Accepted(g, ok) EXCEPT !.granted = 0]
      BY <1>6 DEF Answered
    <3>2. g.granted = r.granted /\ g.expires = r.expires
      BY <1>5, <1>6 DEF Regs
    <3>. HIDE DEF g
    <3>3. Accepted(g, ok) = o
      BY <3>2 DEF Accepted
    <3>. QED BY <3>1, <3>3
  <2>2. r.granted \in Nat /\ w \in Nat
    <3>1. r.granted \in Listed /\ r.expires \in Nat
      BY <1>1, <1>6 DEF Regs
    <3>. QED BY <3>1, Numbers, IntervalNat, RefreshNat
  <2>. HIDE DEF told, w
  <2>3. /\ g \in Regs /\ Alive(g) /\ g.req = "none" /\ g.tmr = Off
        /\ g.terminated = r.terminated /\ g.expires = r.expires
    BY <1>5, <1>6, <2>2 DEF Regs, Alive
  <2>. HIDE DEF g
  <2>4. /\ a \in Regs /\ Alive(a) /\ a.req = "none" /\ a.tmr = Off /\ a.registered
        /\ a.terminated = r.terminated /\ a.expires = r.expires
    BY <2>3, Numbers DEF Regs, Alive
  <2>. HIDE DEF a
  <2>5. /\ Fit(o) /\ o.req \in {"none", "sent"} /\ (o.life = "freed" \/ Alive(o))
        /\ ~r.terminated => Held(o) /\ o.tmr = w
        /\ o.life = "freed" => r.expires = 0 \/ ~ok
    BY <1>1, <2>2, <2>4, OutFit
  <2>. HIDE DEF o, Q
  <2>6. Fit(Q)
    BY <2>1, <2>5 DEF Fit, Regs, Alive
  <2>7. Q.req = o.req /\ Q.life = o.life /\ Q.terminated = o.terminated /\ Q.tmr = o.tmr
    BY <2>1, <2>5 DEF Fit, Regs
  <2>8. w # Off
    BY <2>2, Numbers
  <2>. QED BY <2>5, <2>6, <2>7, <2>8 DEF Held, Alive, Q, w
<1>7. CASE ans \notin {"err", "200"} /\ Loops(r, ans)
  <2>1. Q = Out(told, wait, ok)
    BY <1>7 DEF Answered
  <2>. HIDE DEF told, Q
  <2>. QED BY <1>1, <1>5, <1>7, <2>1, OutFit DEF Q
<1>8. CASE ans \notin {"err", "200"} /\ ~Loops(r, ans)
  <2>1. Q = Refused(told, ans, known, wait, ok)
    BY <1>8 DEF Answered
  <2>2. n < LoopMax
    BY <1>3, <1>8, Numbers DEF Loops
  <2>. DEFINE v == IF ans = "423" THEN [told EXCEPT !.expires = MinExpires] ELSE told
  <2>3. /\ v \in Regs /\ Alive(v) /\ v.req = "none" /\ v.tmr = Off
        /\ v.terminated = r.terminated /\ v.loops = n /\ (~v.terminated => v.expires \in Asked)
    <3>1. told \in Regs /\ Alive(told)
      BY <1>5, <1>8
    <3>. HIDE DEF told
    <3>. QED BY <1>1, <1>5, <1>8, <3>1, Numbers DEF Regs, Alive, Asked
  <2>4. \/ Q = Out(told, wait, ok)
        \/ Q = Requested(v, FALSE, TRUE)
        \/ Q = Out(Requested(v, FALSE, FALSE), wait, FALSE)
    BY <2>1 DEF Refused
  <2>5. CASE Q = Out(told, wait, ok)
    <3>. HIDE DEF told, Q
    <3>. QED BY <1>1, <1>5, <1>8, <2>5, OutFit DEF Q
  <2>6. CASE Q = Requested(v, FALSE, TRUE)
    <3>. HIDE DEF v
    <3>. DEFINE q == Requested(v, FALSE, TRUE)
    <3>1. /\ Fit(q) /\ Alive(q) /\ q.req = "sent" /\ q.terminated = v.terminated
          /\ q.tmr = Off /\ q.left = TransTimeout /\ q.loops = v.loops
      BY <2>2, <2>3, RequestedFit
    <3>. HIDE DEF q, Q
    <3>2. Q = q
      BY <2>6 DEF q
    <3>. QED BY <1>3, <1>8, <2>3, <3>1, <3>2 DEF Held, Alive, Q
  <2>7. CASE Q = Out(Requested(v, FALSE, FALSE), wait, FALSE)
    <3>. DEFINE e == IF v.terminated THEN 0 ELSE v.expires
                a == [v EXCEPT !.expires = e, !.loops = @, !.last = @]
    <3>. HIDE DEF v
    <3>1. Requested(v, FALSE, FALSE) = a
      BY DEF Requested
    <3>2. /\ a \in Regs /\ Alive(a) /\ a.req = "none" /\ a.tmr = Off
          /\ a.terminated = r.terminated /\ (~a.terminated => a.expires \in Asked)
      BY <2>3 DEF Regs, Alive
    <3>. HIDE DEF a, Q
    <3>3. Q = Out(a, wait, FALSE)
      BY <2>7, <3>1
    <3>. DEFINE no == FALSE
    <3>4. no \in BOOLEAN /\ Q = Out(a, wait, no)
      BY <3>3
    <3>. HIDE DEF no
    <3>. QED BY <1>1, <1>8, <3>2, <3>4, OutFit DEF Q
  <2>. QED BY <2>4, <2>5, <2>6, <2>7
<1>. QED BY <1>4, <1>6, <1>7, <1>8

(***************************************************************************)
(* The invariant is inductive: one lemma for each action.                  *)
(***************************************************************************)
LEMMA OneClient ==
  ASSUME RegInv, NEW c \in Clients, NEW q, Fit(q), NEW ok \in BOOLEAN,
         Traced(q, ok, c \in bound'), c = cur => Held(q),
         regs' = [regs EXCEPT ![c] = q], lastOk' = [lastOk EXCEPT ![c] = ok], cur' = cur,
         bound' \subseteq Clients, \A d \in Clients : d # c => (d \in bound' => d \in bound),
         lease' \in Nat, scode' \in {"none", "ok", "fail"}
  PROVE  RegInv'
<1>1. /\ regs' \in [Clients -> Regs] /\ lastOk' \in [Clients -> BOOLEAN]
      /\ regs'[c] = q /\ lastOk'[c] = ok
      /\ \A d \in Clients : d # c => regs'[d] = regs[d] /\ lastOk'[d] = lastOk[d]
  BY DEF RegInv, Fit
<1>2. ASSUME NEW d \in Clients
      PROVE  Fit(regs'[d]) /\ Traced(regs'[d], lastOk'[d], d \in bound')
  <2>1. CASE d = c
    BY <1>1, <2>1
  <2>2. CASE d # c
    <3>1. Fit(regs[d]) /\ Traced(regs[d], lastOk[d], d \in bound) /\ (d \in bound' => d \in bound)
      BY <2>2 DEF RegInv
    <3>2. Traced(regs[d], lastOk[d], d \in bound')
      BY <3>1 DEF Traced
    <3>. QED BY <1>1, <2>2, <3>1, <3>2
  <2>. QED BY <2>1, <2>2
<1>3. cur' # 0 => cur' \in Clients /\ Held(regs'[cur'])
  BY <1>1 DEF RegInv
<1>. QED BY <1>1, <1>2, <1>3 DEF RegInv

\* what the account believes is kept by a step that does not touch its client, and by
\* one that does if the lease still covers it
LEMMA OneShown ==
  ASSUME RegInv, LeaseInv, NEW c \in Clients, NEW q, regs' = [regs EXCEPT ![c] = q],
         cur' = cur, scode' = "ok" => scode = "ok" \/ c = cur,
         c # cur => /\ scode' = scode /\ lease' = lease
                    /\ \A d \in Clients : d # c => (d \in bound' <=> d \in bound),
         c = cur => /\ scode' = "ok" => Covered(q, lease', c \in bound')
                    /\ Fresh(q, lease', c \in bound')
  PROVE  LeaseInv'
<1>1. /\ regs'[c] = q
      /\ \A d \in Clients : d # c => regs'[d] = regs[d]
  BY DEF RegInv
<1>2. c = cur => cur # 0
  BY Numbers
<1>3. cur # 0 => cur \in Clients
  BY DEF RegInv
<1>4. CASE c = cur
  BY <1>1, <1>2, <1>4 DEF LeaseInv, Shown, Covered, Fresh, Renewed
<1>5. CASE c # cur
  BY <1>1, <1>3, <1>5 DEF LeaseInv, Shown, Covered, Fresh, Renewed
<1>. QED BY <1>4, <1>5

LEMMA Client ==
  ASSUME RegInv, NEW c \in Clients
  PROVE  /\ Fit(regs[c]) /\ regs[c] \in Regs /\ Traced(regs[c], lastOk[c], c \in bound)
         /\ lastOk[c] \in BOOLEAN
         /\ c = cur => Held(regs[c])
         /\ lastOk = [lastOk EXCEPT ![c] = lastOk[c]]
         /\ bound \subseteq Clients /\ lease \in Nat /\ scode \in {"none", "ok", "fail"}
  BY Numbers DEF RegInv

LEMMA RegistrarAnswersInv ==
  ASSUME RegInv, NEW c \in Clients, NEW ans \in Answers, NEW g \in Listed,
         RegistrarAnswers(c, ans, g)
  PROVE  RegInv' /\ (LeaseInv => LeaseInv')
<1>. DEFINE r == regs[c]
            w == IF ans = "200" THEN g ELSE 0
            q == [r EXCEPT !.req = "answered", !.ans = ans, !.granted = w]
<1>1. /\ Fit(r) /\ r \in Regs /\ Traced(r, lastOk[c], c \in bound) /\ (c = cur => Held(r))
      /\ r.req = "sent" /\ Alive(r)
  BY Client DEF RegistrarAnswers, Fit
<1>2. w \in Nat
  BY Numbers
<1>3. /\ regs' = [regs EXCEPT ![c] = q] /\ cur' = cur /\ scode' = scode /\ lastOk' = lastOk
      /\ ans = "200" => /\ bound' = IF r.asked = 0 THEN bound \ {c} ELSE bound \union {c}
                        /\ lease' = IF c = cur THEN Interval(r.asked, g) ELSE lease
      /\ ans # "200" => bound' = bound /\ lease' = lease
  BY DEF RegistrarAnswers
<1>4. regs'[c] = q /\ \A d \in Clients : d # c => regs'[d] = regs[d]
  BY <1>3 DEF RegInv
<1>. HIDE DEF r
<1>5. /\ q \in Regs /\ Alive(q) /\ q.req = "answered" /\ q.ans = ans /\ q.asked = r.asked
      /\ q.expires = r.expires /\ q.left = r.left /\ q.loops = r.loops /\ q.tmr = r.tmr
      /\ q.terminated = r.terminated /\ (ans = "200" => q.granted = g)
  BY <1>1, <1>2 DEF Regs, Alive
<1>. HIDE DEF q
<1>6. Fit(q) /\ (c = cur => Held(q))
  BY <1>1, <1>5 DEF Fit, Alive, Held
<1>7. Traced(q, lastOk[c], c \in bound')
  BY <1>1, <1>3, <1>5 DEF Traced, Withdrawn, Alive
<1>8. RegInv'
  <2>1. /\ bound' \subseteq Clients
        /\ \A d \in Clients : d # c => (d \in bound' => d \in bound)
    BY <1>3, Client
  <2>2. lease' \in Nat
    <3>1. Interval(r.asked, g) \in Nat
      BY <1>1, IntervalNat DEF Regs
    <3>. QED BY <1>3, <3>1, Client
  <2>. QED BY <1>3, <1>6, <1>7, <2>1, <2>2, Client, OneClient
<1>9. ASSUME c = cur, LeaseInv
      PROVE  /\ scode' = "ok" => Covered(q, lease', c \in bound')
             /\ Fresh(q, lease', c \in bound')
  <2>1. r.tmr = Off /\ r.left <= TransTimeout /\ r.asked # 0 /\ r.asked \in Nat /\ r.left \in Nat
    BY <1>1, <1>9, Numbers DEF Fit, Held, Regs
  <2>2. Shown(r, lease, cur \in bound) /\ cur # 0
    BY <1>9, Numbers DEF LeaseInv, r
  <2>3. CASE ans = "200"
    <3>. DEFINE i == Interval(r.asked, g)
    <3>1. c \in bound' /\ lease' = i
      BY <1>3, <1>9, <2>1, <2>3
    <3>2. i \in Nat /\ i = Interval(q.asked, q.granted)
      BY <1>5, <2>1, <2>3, IntervalNat
    <3>. HIDE DEF i
    <3>3. i + TransTimeout >= i + q.left
      BY <1>5, <2>1, <3>2, Numbers
    <3>4. Renewed(q) /\ q.tmr = Off
      BY <1>5, <2>1, <2>3 DEF Renewed
    <3>. QED BY <3>1, <3>2, <3>3, <3>4 DEF Covered, Fresh
  <2>4. CASE ans # "200"
    <3>1. ~Renewed(q) /\ ~Renewed(r)
      BY <1>1, <1>5, <2>4 DEF Renewed
    <3>. QED BY <1>3, <1>5, <1>9, <2>1, <2>2, <2>4, <3>1 DEF Shown, Covered, Fresh
  <2>. QED BY <2>3, <2>4
<1>10. \A d \in Clients : d # c => (d \in bound' <=> d \in bound)
  BY <1>3
<1>11. LeaseInv => LeaseInv'
  BY <1>3, <1>9, <1>10, OneShown
<1>. QED BY <1>8, <1>11

\* the request of a client ends: response_handler
LEMMA RequestEndsInv ==
  ASSUME RegInv, NEW c \in Clients, regs[c].req # "none", NEW ans \in Answers \union {"err"},
         ans # "err" => regs[c].req = "answered" /\ regs[c].ans = ans,
         NEW known \in BOOLEAN, NEW wait \in FailWaits, NEW ok \in BOOLEAN,
         RequestEnds(c, ans, known, wait, ok)
  PROVE  RegInv' /\ (LeaseInv => LeaseInv')
<1>. DEFINE r == regs[c]
            q == Answered(r, ans, known, wait, ok)
            o == (ans = "200") /\ (q.life = "freed" => ok)
<1>1. /\ Fit(r) /\ r \in Regs /\ Traced(r, lastOk[c], c \in bound) /\ (c = cur => Held(r))
      /\ r.req # "none" /\ (ans # "err" => r.req = "answered" /\ r.ans = ans)
  BY Client
<1>2. regs' = [regs EXCEPT ![c] = q] /\ cur' = cur /\ bound' = bound /\ lease' = lease
      /\ lastOk' = [lastOk EXCEPT ![c] = o]
      /\ IF q.tmr # Off THEN Told(c, IF ans = "200" THEN "ok" ELSE "fail") ELSE scode' = scode
  BY DEF RequestEnds
<1>. HIDE DEF r
<1>3. Alive(r) /\ (ans = "200" => r.granted \in Listed) /\ wait \in Nat
  BY <1>1, Numbers DEF Fit
<1>4. /\ Fit(q) /\ q.req \in {"none", "sent"} /\ (q.life = "freed" \/ Alive(q))
      /\ q.life = "freed" /\ ans = "200" => r.expires = 0 \/ ~ok
      /\ ~r.terminated =>
           /\ Held(q)
           /\ ans = "200" => q.tmr = Refresh(Interval(r.expires, r.granted))
           /\ ans = "err" => q.tmr # Off
           /\ q.tmr = Off => /\ q.req = "sent" /\ q.left = TransTimeout
                             /\ q.loops = r.loops + 1
  BY <1>1, <1>3, AnsweredFit
<1>. HIDE DEF q
<1>5. Traced(q, o, c \in bound')
  <2>1. ~Withdrawn(q) /\ q.life # "none"
    BY <1>4 DEF Withdrawn, Alive
  <2>2. ASSUME q.life = "freed", o
        PROVE  c \notin bound'
    <3>1. r.req = "answered" /\ r.ans = "200" /\ r.asked = r.expires /\ r.expires = 0
      BY <1>1, <1>4, <2>2 DEF Fit
    <3>. QED BY <1>1, <1>2, <3>1 DEF Traced, Withdrawn
  <2>. QED BY <2>1, <2>2 DEF Traced
<1>6. c = cur => Held(q)
  BY <1>1, <1>4 DEF Held
<1>7. scode' \in {"none", "ok", "fail"} /\ (c # cur => scode' = scode)
  BY <1>2, Client DEF Told
<1>8. RegInv'
  <2>1. o \in BOOLEAN
    OBVIOUS
  <2>. HIDE DEF o
  <2>. QED BY <1>2, <1>4, <1>5, <1>6, <1>7, <2>1, Client, OneClient
<1>9. ASSUME c = cur, LeaseInv, scode' = "ok"
      PROVE  Covered(q, lease', c \in bound')
  <2>1. /\ r.tmr = Off /\ ~r.terminated /\ r.left \in Nat /\ r.loops \in Nat /\ lease \in Nat
        /\ r.expires \in Asked /\ r.asked = r.expires
    BY <1>1, <1>9, Client DEF Fit, Held, Regs, Alive
  <2>2. Shown(r, lease, cur \in bound) /\ cur # 0
    BY <1>9, Numbers DEF LeaseInv, r
  <2>3. CASE q.tmr # Off
    <3>. DEFINE i == Interval(r.expires, r.granted)
    <3>1. ans = "200"
      BY <1>2, <1>9, <2>3 DEF Told
    <3>2. Renewed(r) /\ q.tmr = Refresh(i)
      BY <1>1, <1>4, <2>1, <3>1 DEF Renewed
    <3>3. i \in Nat /\ Refresh(i) \in Nat /\ Refresh(i) + 2 * TransTimeout < i
      BY <1>3, <2>1, <3>1, IntervalRoom
    <3>4. c \in bound' /\ lease + TransTimeout >= i + r.left
      BY <1>2, <1>9, <2>1, <2>2, <3>2 DEF Shown, Fresh
    <3>. HIDE DEF i
    <3>. DEFINE f == Refresh(i)
    <3>5. f \in Nat /\ f + 2 * TransTimeout < i
      BY <3>3
    <3>. HIDE DEF f
    <3>6. lease > f + TransTimeout
      BY <2>1, <3>3, <3>4, <3>5, Numbers
    <3>. QED BY <1>2, <2>3, <3>2, <3>4, <3>6 DEF Covered, f
  <2>4. CASE q.tmr = Off
    <3>1. q.loops = r.loops + 1
      BY <1>4, <2>1, <2>4
    <3>. QED BY <2>1, <2>4, <3>1 DEF Covered
  <2>. QED BY <2>3, <2>4
<1>10. Fresh(q, lease', c \in bound')
  BY <1>4 DEF Fresh, Renewed
<1>11. LeaseInv => LeaseInv'
  BY <1>2, <1>7, <1>9, <1>10, OneShown
<1>. QED BY <1>8, <1>11

\* the timer sends the next REGISTER, with the whole loop guard before it
LEMMA TmrHandlerInv ==
  ASSUME RegInv, NEW c \in Clients, NEW wait \in FailWaits, NEW ok \in BOOLEAN,
         TmrHandler(c, wait, ok)
  PROVE  RegInv' /\ (LeaseInv => LeaseInv')
<1>. DEFINE r == regs[c]
            a == [r EXCEPT !.tmr = Off]
            q == IF ok THEN Requested(a, TRUE, TRUE)
                 ELSE [Requested(a, TRUE, FALSE) EXCEPT !.tmr = wait]
<1>1. /\ Fit(r) /\ r \in Regs /\ Traced(r, lastOk[c], c \in bound) /\ (c = cur => Held(r))
      /\ r.tmr = 0 /\ wait \in Nat /\ wait # Off
  BY Client, Numbers DEF TmrHandler
<1>2. /\ regs' = [regs EXCEPT ![c] = q] /\ cur' = cur /\ bound' = bound /\ lease' = lease
      /\ lastOk' = lastOk
      /\ IF ok THEN scode' = scode ELSE Told(c, "fail")
  <2>1. ok = TRUE \/ ok = FALSE
    OBVIOUS
  <2>. QED BY <2>1 DEF TmrHandler
<1>3. Alive(r) /\ ~r.terminated /\ r.expires \in Asked /\ r.req = "none"
  BY <1>1 DEF Fit, Alive, Off
<1>. HIDE DEF r
<1>4. /\ a \in Regs /\ Alive(a) /\ a.tmr = Off /\ ~a.terminated /\ a.expires \in Asked
      /\ a.req = "none"
  BY <1>1, <1>3 DEF Regs, Alive
<1>. HIDE DEF a
<1>5. /\ Fit(q) /\ Alive(q) /\ ~q.terminated /\ q.req # "answered"
      /\ ok => q.tmr = Off /\ q.left = TransTimeout /\ q.loops = 0
  <2>1. CASE ok
    <3>. DEFINE p == Requested(a, TRUE, TRUE)
    <3>1. /\ Fit(p) /\ Alive(p) /\ p.req = "sent" /\ p.terminated = a.terminated
          /\ p.tmr = Off /\ p.left = TransTimeout /\ p.loops = 0
      BY <1>4, RequestedFit
    <3>2. q = p
      BY <2>1
    <3>. HIDE DEF p, q
    <3>. QED BY <1>4, <3>1, <3>2
  <2>2. CASE ~ok
    <3>. DEFINE p == [a EXCEPT !.expires = @, !.loops = 0, !.last = "none"]
                s == [p EXCEPT !.tmr = wait]
    <3>1. Requested(a, TRUE, FALSE) = p
      BY <1>4 DEF Requested
    <3>2. /\ p \in Regs /\ Alive(p) /\ ~p.terminated /\ p.expires \in Asked /\ p.req = "none"
      BY <1>4 DEF Regs, Alive
    <3>. HIDE DEF p
    <3>3. /\ s \in Regs /\ Alive(s) /\ ~s.terminated /\ s.expires \in Asked /\ s.req = "none"
          /\ s.tmr = wait
      BY <1>1, <3>2 DEF Regs, Alive
    <3>4. q = s
      BY <2>2, <3>1
    <3>. HIDE DEF s, q
    <3>. QED BY <1>1, <2>2, <3>3, <3>4 DEF Fit
  <2>. QED BY <2>1, <2>2
<1>. HIDE DEF q
<1>6. Traced(q, lastOk[c], c \in bound') /\ Held(q)
  BY <1>5 DEF Traced, Withdrawn, Held, Alive
<1>7. scode' \in {"none", "ok", "fail"} /\ (c # cur => scode' = scode)
  BY <1>2, Client DEF Told
<1>8. RegInv'
  BY <1>2, <1>5, <1>6, <1>7, Client, OneClient
<1>9. ASSUME c = cur, LeaseInv, scode' = "ok"
      PROVE  Covered(q, lease', c \in bound')
  <2>1. ok /\ scode = "ok"
    BY <1>2, <1>9 DEF Told
  <2>2. Shown(r, lease, cur \in bound) /\ cur # 0
    BY <1>9, Numbers DEF LeaseInv, r
  <2>3. c \in bound /\ lease > 0 + TransTimeout
    BY <1>1, <1>9, <2>1, <2>2 DEF Shown, Covered, Off
  <2>4. lease > TransTimeout
    BY <2>3, Numbers, Client
  <2>. QED BY <1>2, <1>5, <2>1, <2>3, <2>4 DEF Covered
<1>10. Fresh(q, lease', c \in bound')
  BY <1>5 DEF Fresh, Renewed
<1>11. LeaseInv => LeaseInv'
  BY <1>2, <1>7, <1>9, <1>10, OneShown
<1>. QED BY <1>8, <1>11

\* a broken flow is left to the request in progress, or it starts the timer
LEMMA KeepaliveHandlerInv ==
  ASSUME RegInv, NEW c \in Clients, NEW wait \in FailWaits, KeepaliveHandler(c, wait)
  PROVE  RegInv' /\ (LeaseInv => LeaseInv')
<1>. DEFINE r == regs[c]
            idle == r.req = "none" /\ ~r.terminated
            t == IF idle THEN wait ELSE r.tmr
            q == [r EXCEPT !.ka = FALSE, !.tmr = t]
<1>1. /\ Fit(r) /\ r \in Regs /\ Traced(r, lastOk[c], c \in bound) /\ (c = cur => Held(r))
      /\ r.ka /\ wait \in Nat /\ wait # Off
  BY Client, Numbers DEF KeepaliveHandler
<1>2. /\ regs' = [regs EXCEPT ![c] = q] /\ cur' = cur /\ bound' = bound /\ lease' = lease
      /\ lastOk' = lastOk
      /\ IF idle THEN Told(c, "fail") ELSE scode' = scode
  BY DEF KeepaliveHandler
<1>3. Alive(r)
  BY <1>1 DEF Fit
<1>4. t \in Nat \union {Off}
  BY <1>1 DEF Regs
<1>5. LeaseInv /\ c = cur => Shown(r, lease, c \in bound)
  BY Numbers DEF LeaseInv
<1>. HIDE DEF r
<1>6. /\ q \in Regs /\ Alive(q) /\ q.tmr = t /\ q.terminated = r.terminated
      /\ q.expires = r.expires /\ q.req = r.req /\ q.ans = r.ans /\ q.asked = r.asked
      /\ q.left = r.left /\ q.loops = r.loops /\ q.granted = r.granted
  BY <1>1, <1>3, <1>4 DEF Regs, Alive
<1>. HIDE DEF q
<1>7. Fit(q)
  BY <1>1, <1>3, <1>6 DEF Fit
<1>8. Traced(q, lastOk[c], c \in bound') /\ (c = cur => Held(q))
  BY <1>1, <1>2, <1>6 DEF Traced, Withdrawn, Held, Alive
<1>9. scode' \in {"none", "ok", "fail"} /\ (c # cur => scode' = scode)
      /\ (scode' = "ok" => scode = "ok" /\ (c = cur => ~idle))
  BY <1>2, Client DEF Told
<1>10. RegInv'
  BY <1>2, <1>7, <1>8, <1>9, Client, OneClient
<1>11. ASSUME c = cur, LeaseInv
       PROVE  /\ scode' = "ok" => Covered(q, lease', c \in bound')
              /\ Fresh(q, lease', c \in bound')
  BY <1>2, <1>5, <1>6, <1>9, <1>11 DEF Shown, Covered, Fresh, Renewed
<1>12. LeaseInv => LeaseInv'
  BY <1>2, <1>9, <1>11, OneShown
<1>. QED BY <1>10, <1>12

\* time passes: a contact the account counts on has its lease for longer than anything
\* the client waits for
LEMMA RegTickInv ==
  ASSUME RegInv, RegTick
  PROVE  RegInv' /\ (LeaseInv => LeaseInv')
<1>. DEFINE E(r) == [r EXCEPT !.tmr  = IF @ = Off THEN Off ELSE @ - 1,
                              !.left = IF r.req = "none" THEN @ ELSE @ - 1]
<1>1. /\ regs' = [c \in Clients |-> E(regs[c])] /\ cur' = cur /\ scode' = scode
      /\ lastOk' = lastOk
      /\ lease' = IF lease = 0 THEN 0 ELSE lease - 1
      /\ bound' = IF lease = 1 THEN bound \ {cur} ELSE bound
  BY DEF RegTick
<1>2. \A c \in Clients : regs[c].tmr # 0 /\ (regs[c].req # "none" => regs[c].left > 0)
  BY DEF RegTick
<1>3. ASSUME NEW r \in Regs, r.tmr # 0, r.req # "none" => r.left > 0
      PROVE  /\ E(r) \in Regs /\ E(r).life = r.life /\ E(r).terminated = r.terminated
             /\ E(r).expires = r.expires /\ E(r).req = r.req /\ E(r).ans = r.ans
             /\ E(r).asked = r.asked /\ E(r).loops = r.loops /\ E(r).granted = r.granted
             /\ E(r).ka = r.ka
             /\ r.tmr = Off => E(r).tmr = Off
             /\ r.tmr # Off => E(r).tmr = r.tmr - 1 /\ E(r).tmr \in Nat
             /\ r.req # "none" => E(r).left = r.left - 1
  <2>. DEFINE t == IF r.tmr = Off THEN Off ELSE r.tmr - 1
              l == IF r.req = "none" THEN r.left ELSE r.left - 1
  <2>1. t \in Nat \union {Off} /\ (r.tmr # Off => t \in Nat) /\ l \in Nat
    BY <1>3 DEF Regs, Off
  <2>2. E(r) = [r EXCEPT !.tmr = t, !.left = l]
    OBVIOUS
  <2>3. r.tmr # Off => t = r.tmr - 1
    OBVIOUS
  <2>4. r.req # "none" => l = r.left - 1
    OBVIOUS
  <2>5. r.tmr = Off => t = Off
    OBVIOUS
  <2>. HIDE DEF t, l, E
  <2>. QED BY <2>1, <2>2, <2>3, <2>4, <2>5 DEF Regs
<1>4. ASSUME NEW r, Fit(r), r.tmr # 0, r.req # "none" => r.left > 0
      PROVE  Fit(E(r))
  <2>1. r \in Regs /\ (r.req # "none" => r.left \in Nat)
    BY <1>4 DEF Fit, Regs
  <2>. HIDE DEF E
  <2>2. /\ E(r) \in Regs /\ E(r).life = r.life /\ E(r).terminated = r.terminated
        /\ E(r).expires = r.expires /\ E(r).req = r.req /\ E(r).ans = r.ans
        /\ E(r).asked = r.asked /\ E(r).loops = r.loops /\ E(r).granted = r.granted
        /\ E(r).ka = r.ka
        /\ r.tmr = Off => E(r).tmr = Off
        /\ r.tmr # Off => E(r).tmr # Off
        /\ r.req # "none" => E(r).left = r.left - 1
    BY <1>3, <1>4, <2>1, Numbers
  <2>. QED BY <1>4, <2>1, <2>2, Numbers DEF Fit, Alive
<1>5. ASSUME NEW c \in Clients
      PROVE  /\ regs'[c] = E(regs[c]) /\ regs[c] \in Regs /\ Fit(E(regs[c]))
             /\ E(regs[c]) \in Regs
             /\ Traced(regs'[c], lastOk'[c], c \in bound')
             /\ Held(regs[c]) => Held(E(regs[c]))
  <2>1. Fit(regs[c]) /\ regs[c] \in Regs /\ Traced(regs[c], lastOk[c], c \in bound)
    BY Client
  <2>. HIDE DEF E
  <2>2. regs'[c] = E(regs[c])
    BY <1>1
  <2>3. /\ E(regs[c]) \in Regs /\ Fit(E(regs[c]))
        /\ E(regs[c]).life = regs[c].life /\ E(regs[c]).terminated = regs[c].terminated
        /\ E(regs[c]).req = regs[c].req /\ E(regs[c]).ans = regs[c].ans
        /\ E(regs[c]).asked = regs[c].asked
    BY <1>2, <1>3, <1>4, <2>1
  <2>4. c \in bound' => c \in bound
    BY <1>1
  <2>. QED BY <1>1, <2>1, <2>2, <2>3, <2>4 DEF Traced, Withdrawn, Held, Alive
<1>6. RegInv'
  <2>. HIDE DEF E
  <2>1. lease' \in Nat /\ bound' \subseteq Clients
    <3>1. lease \in Nat /\ bound \subseteq Clients
      BY DEF RegInv
    <3>2. lease' \in Nat
      BY <1>1, <3>1
    <3>3. bound' \subseteq Clients
      BY <1>1, <3>1
    <3>. QED BY <3>2, <3>3
  <2>2. regs' \in [Clients -> Regs]
    BY <1>1, <1>5
  <2>. QED BY <1>1, <1>5, <2>1, <2>2 DEF RegInv
<1>7. ASSUME LeaseInv
      PROVE  LeaseInv'
  <2>. SUFFICES ASSUME cur # 0 PROVE Shown(regs[cur], lease, cur \in bound)'
    BY <1>1, <1>7 DEF LeaseInv
  <2>. DEFINE r == regs[cur]
              q == E(r)
  <2>1. /\ cur \in Clients /\ Fit(r) /\ r \in Regs /\ Held(r) /\ regs'[cur] = q
        /\ r.tmr # 0 /\ (r.req # "none" => r.left > 0)
        /\ Shown(r, lease, cur \in bound) /\ lease \in Nat /\ cur' = cur
    BY <1>1, <1>2, <1>5, <1>7 DEF RegInv, LeaseInv
  <2>2. /\ q.req = r.req /\ q.ans = r.ans /\ q.loops = r.loops /\ q.granted = r.granted
        /\ q.asked = r.asked
        /\ r.tmr = Off => q.tmr = Off
        /\ r.tmr # Off => q.tmr = r.tmr - 1 /\ q.tmr # Off
        /\ r.req # "none" => q.left = r.left - 1
    BY <1>3, <2>1, Numbers
  <2>. HIDE DEF r, q, E
  <2>3. /\ r.loops \in Nat /\ r.left \in Nat /\ r.tmr \in Nat \union {Off}
        /\ q.asked = r.asked /\ (r.req # "none" <=> r.tmr = Off)
        /\ Renewed(q) = Renewed(r) /\ (Renewed(r) => r.req # "none")
        /\ (Renewed(r) => r.asked \in Asked /\ r.granted \in Listed)
    BY <2>1, <2>2 DEF Fit, Regs, Held, Renewed, Alive
  <2>. DEFINE i == Interval(r.asked, r.granted)
  <2>4. ASSUME Renewed(r)
        PROVE  /\ cur \in bound /\ lease > 1 /\ i = Interval(q.asked, q.granted)
               /\ (lease - 1) + TransTimeout >= i + q.left
    <3>1. i \in Nat /\ Refresh(i) \in Nat /\ Refresh(i) + 2 * TransTimeout < i
      BY <2>3, <2>4, IntervalRoom
    <3>2. cur \in bound /\ lease + TransTimeout >= i + r.left /\ r.left > 0
      BY <2>1, <2>3, <2>4 DEF Shown, Fresh
    <3>3. i = Interval(q.asked, q.granted)
      BY <2>2, <2>3
    <3>4. q.left = r.left - 1
      BY <2>2, <2>3, <2>4
    <3>. HIDE DEF i
    <3>5. i > 2 * TransTimeout
      BY <3>1, Numbers
    <3>6. lease > 1 /\ (lease - 1) + TransTimeout >= i + q.left
      BY <2>1, <2>3, <3>1, <3>2, <3>4, <3>5, Numbers
    <3>. QED BY <3>2, <3>3, <3>6
  <2>. HIDE DEF i
  <2>5. lease > 1 => lease' = lease - 1 /\ bound' = bound
    BY <1>1, <2>1
  <2>6. Fresh(q, lease', cur \in bound')
    BY <2>3, <2>4, <2>5 DEF Fresh
  <2>7. ASSUME scode = "ok"
        PROVE  Covered(q, lease', cur \in bound')
    <3>1. Covered(r, lease, cur \in bound)
      BY <2>1, <2>7 DEF Shown
    <3>2. CASE r.tmr # Off
      <4>1. cur \in bound /\ lease > r.tmr + TransTimeout
        BY <3>1, <3>2 DEF Covered
      <4>2. lease > 1 /\ lease - 1 > q.tmr + TransTimeout
        BY <2>1, <2>2, <2>3, <3>2, <4>1, Numbers
      <4>. QED BY <2>2, <2>5, <3>2, <4>1, <4>2 DEF Covered
    <3>3. CASE r.tmr = Off /\ (r.loops > 0 \/ Renewed(r))
      BY <2>2, <2>3, <3>3 DEF Covered
    <3>4. CASE r.tmr = Off /\ ~(r.loops > 0 \/ Renewed(r))
      <4>1. cur \in bound /\ lease > r.left /\ r.left > 0 /\ q.left = r.left - 1
        BY <2>1, <2>2, <2>3, <3>1, <3>4 DEF Covered
      <4>2. lease > 1 /\ lease - 1 > q.left
        BY <2>1, <2>3, <4>1
      <4>. QED BY <2>2, <2>5, <3>4, <4>1, <4>2 DEF Covered
    <3>. QED BY <3>2, <3>3, <3>4
  <2>. QED BY <1>1, <2>1, <2>6, <2>7 DEF Shown
<1>. QED BY <1>6, <1>7

\* the account's client leaves: nobody else changes, and whether it may believe that its
\* contact is withdrawn is still right
LEMMA LeftInv ==
  ASSUME RegInv, NEW b \in BOOLEAN, NEW left, left = Left(cur, b), NEW c \in Clients
  PROVE  /\ left \in [Clients -> Regs] /\ Fit(left[c])
         /\ LeftOk(left) \in [Clients -> BOOLEAN]
         /\ Traced(left[c], LeftOk(left)[c], c \in bound)
         /\ regs[c].life = "none" =>
               c # cur /\ left[c] = regs[c] /\ ~LeftOk(left)[c] /\ c \notin bound
<1>1. Fit(regs[c]) /\ regs[c] \in Regs /\ Traced(regs[c], lastOk[c], c \in bound)
  BY Client
<1>2. LeftOk(left)[c] = (lastOk[c] /\ (left[c].life = "freed" => regs[c] = left[c]))
      /\ LeftOk(left) \in [Clients -> BOOLEAN]
  BY DEF LeftOk
<1>3. CASE cur = 0
  <2>1. left = regs /\ c # cur
    BY <1>3, Numbers DEF Left
  <2>2. left \in [Clients -> Regs]
    BY <2>1 DEF RegInv
  <2>3. LeftOk(left)[c] <=> lastOk[c]
    BY <1>2, <2>1
  <2>4. Traced(left[c], LeftOk(left)[c], c \in bound)
    BY <1>1, <2>1, <2>3 DEF Traced
  <2>. QED BY <1>1, <1>2, <2>1, <2>2, <2>3, <2>4 DEF Traced
<1>4. CASE cur # 0
  <2>. DEFINE q == Dereferenced(regs[cur], b)
  <2>1. /\ cur \in Clients /\ Held(regs[cur]) /\ Fit(regs[cur]) /\ regs \in [Clients -> Regs]
        /\ Traced(regs[cur], lastOk[cur], cur \in bound)
    BY <1>4 DEF RegInv
  <2>2. /\ Fit(q) /\ (q.life = "freed" \/ Alive(q))
        /\ Withdrawn(q) => Withdrawn(regs[cur])
    BY <2>1, DereferencedFit
  <2>3. left = [regs EXCEPT ![cur] = q]
    BY <1>4 DEF Left
  <2>. HIDE DEF q
  <2>4. q \in Regs
    BY <2>2 DEF Fit
  <2>5. left \in [Clients -> Regs] /\ left[cur] = q /\ (c # cur => left[c] = regs[c])
    BY <2>1, <2>3, <2>4
  <2>6. CASE c # cur
    <3>1. LeftOk(left)[c] <=> lastOk[c]
      BY <1>2, <2>5, <2>6
    <3>. QED BY <1>1, <1>2, <2>5, <2>6, <3>1 DEF Traced
  <2>7. CASE c = cur
    <3>1. regs[c].life = "alive"
      BY <2>1, <2>7 DEF Held, Alive
    <3>2. q.life = "freed" => ~LeftOk(left)[c]
      BY <1>2, <2>5, <2>7, <3>1
    <3>3. q.life # "none"
      BY <2>2 DEF Alive
    <3>4. Traced(q, LeftOk(left)[c], c \in bound)
      BY <1>1, <2>2, <2>7, <3>2, <3>3 DEF Traced
    <3>. QED BY <1>2, <2>2, <2>5, <2>7, <3>1, <3>4
  <2>. QED BY <2>6, <2>7
<1>. QED BY <1>3, <1>4

LEMMA RegisterInv ==
  ASSUME RegInv, NEW b \in BOOLEAN, NEW left, left = Left(cur, b), NEW c \in Clients,
         NEW ok \in BOOLEAN, Register(c, left, ok)
  PROVE  RegInv' /\ LeaseInv'
<1>. DEFINE first == [NewReg EXCEPT !.life = "alive"]
            q == IF ok THEN Requested(first, TRUE, TRUE) ELSE Freed(first)
<1>1. /\ regs' = [left EXCEPT ![c] = q] /\ cur' = (IF ok THEN c ELSE 0) /\ scode' = "none"
      /\ lastOk' = LeftOk(left) /\ lease' = 0 /\ bound' = bound /\ regs[c].life = "none"
  BY DEF Register, IsNext
<1>2. /\ first \in Regs /\ Alive(first) /\ first.tmr = Off /\ ~first.terminated
      /\ first.expires \in Asked
  <2>1. first \in Regs
    BY NewRegFit DEF Regs
  <2>. QED BY <2>1, Numbers DEF NewReg, Alive, Asked
<1>. HIDE DEF first
<1>3. /\ Fit(q) /\ q.req # "answered" /\ q.life # "none"
      /\ ok => Held(q)
  <2>1. CASE ok
    <3>. DEFINE p == Requested(first, TRUE, TRUE)
    <3>1. Fit(p) /\ Alive(p) /\ p.req = "sent" /\ p.terminated = first.terminated
      BY <1>2, RequestedFit
    <3>2. q = p
      BY <2>1
    <3>. HIDE DEF p, q
    <3>. QED BY <1>2, <3>1, <3>2 DEF Held, Alive
  <2>2. CASE ~ok
    BY <2>2, FreedFit
  <2>. QED BY <2>1, <2>2
<1>. HIDE DEF q
<1>4. /\ left \in [Clients -> Regs] /\ lastOk' \in [Clients -> BOOLEAN]
      /\ ~lastOk'[c] /\ c \notin bound /\ q \in Regs
  BY <1>1, <1>3, LeftInv DEF Fit
<1>5. /\ regs' \in [Clients -> Regs] /\ regs'[c] = q
      /\ \A d \in Clients : d # c => regs'[d] = left[d]
  BY <1>1, <1>4
<1>6. ASSUME NEW d \in Clients
      PROVE  Fit(regs'[d]) /\ Traced(regs'[d], lastOk'[d], d \in bound')
  <2>1. CASE d = c
    BY <1>1, <1>3, <1>4, <1>5, <2>1 DEF Traced, Withdrawn
  <2>2. CASE d # c
    <3>1. Fit(left[d]) /\ Traced(left[d], LeftOk(left)[d], d \in bound)
      BY LeftInv
    <3>. QED BY <1>1, <1>5, <2>2, <3>1
  <2>. QED BY <2>1, <2>2
<1>7. cur' # 0 => cur' \in Clients /\ Held(regs'[cur']) /\ ~Renewed(regs'[cur'])
  BY <1>1, <1>3, <1>5 DEF Renewed
<1>8. RegInv'
  BY <1>1, <1>4, <1>5, <1>6, <1>7 DEF RegInv
<1>9. LeaseInv'
  BY <1>1, <1>7 DEF LeaseInv, Shown, Fresh, Renewed
<1>. QED BY <1>8, <1>9

LEMMA UnregisterInv ==
  ASSUME RegInv, NEW b \in BOOLEAN, NEW left, left = Left(cur, b), Unregister(left)
  PROVE  RegInv' /\ LeaseInv'
<1>1. /\ regs' = left /\ cur' = 0 /\ scode' = "none" /\ lastOk' = LeftOk(left)
      /\ lease' = 0 /\ bound' = bound /\ cur # 0
  BY DEF Unregister
<1>2. cur \in Clients
  BY <1>1 DEF RegInv
<1>3. left \in [Clients -> Regs] /\ LeftOk(left) \in [Clients -> BOOLEAN]
  BY <1>2, LeftInv
<1>4. \A d \in Clients : Fit(left[d]) /\ Traced(left[d], LeftOk(left)[d], d \in bound)
  BY LeftInv
<1>5. RegInv'
  BY <1>1, <1>3, <1>4 DEF RegInv
<1>6. LeaseInv'
  BY <1>1 DEF LeaseInv
<1>. QED BY <1>5, <1>6

LEMMA InitReg == RegInit => RegInv /\ LeaseInv
<1>. SUFFICES ASSUME RegInit PROVE RegInv /\ LeaseInv
  OBVIOUS
<1>1. NewReg \in Regs /\ Fit(NewReg) /\ Traced(NewReg, FALSE, FALSE)
  BY NewRegFit DEF Traced, Withdrawn, NewReg
<1>2. ASSUME NEW c \in Clients
      PROVE  Fit(regs[c]) /\ Traced(regs[c], lastOk[c], c \in bound)
  <2>1. regs[c] = NewReg /\ ~lastOk[c] /\ c \notin bound
    BY DEF RegInit
  <2>. QED BY <1>1, <2>1 DEF Traced
<1>3. RegInv
  BY <1>1, <1>2 DEF RegInit, RegInv
<1>4. LeaseInv
  BY DEF RegInit, LeaseInv
<1>. QED BY <1>3, <1>4

LEMMA StepReg ==
  ASSUME RegInv, [RegNext]_regVars
  PROVE  RegInv' /\ (LeaseInv => LeaseInv')
<1>. DEFINE Goal == RegInv' /\ (LeaseInv => LeaseInv')
<1>1. ASSUME NEW ok \in BOOLEAN, NEW left \in {Left(cur, TRUE), Left(cur, FALSE)},
             NEW c \in Clients, Register(c, left, ok)
      PROVE  Goal
  <2>1. PICK b \in BOOLEAN : left = Left(cur, b)
    OBVIOUS
  <2>. QED BY <1>1, <2>1, RegisterInv
<1>2. ASSUME NEW left \in {Left(cur, TRUE), Left(cur, FALSE)}, Unregister(left)
      PROVE  Goal
  <2>1. PICK b \in BOOLEAN : left = Left(cur, b)
    OBVIOUS
  <2>. QED BY <1>2, <2>1, UnregisterInv
<1>3. ASSUME NEW c \in Clients, NEW ans \in Answers, NEW g \in Listed,
             RegistrarAnswers(c, ans, g)
      PROVE  Goal
  BY <1>3, RegistrarAnswersInv
<1>4. ASSUME NEW c \in Clients, Ends(c)
      PROVE  Goal
  <2>1. PICK wait \in FailWaits, ok \in BOOLEAN, known \in BOOLEAN :
             ResponseArrives(c, known, wait, ok) \/ RequestFails(c, wait, ok)
    BY <1>4 DEF Ends
  <2>2. CASE ResponseArrives(c, known, wait, ok)
    <3>. DEFINE a == regs[c].ans
    <3>1. Fit(regs[c]) /\ regs[c].req = "answered" /\ RequestEnds(c, a, known, wait, ok)
      BY <2>2, Client DEF ResponseArrives
    <3>2. a \in Answers \union {"err"}
      BY <3>1 DEF Fit
    <3>. QED BY <3>1, <3>2, RequestEndsInv
  <2>3. CASE RequestFails(c, wait, ok)
    <3>. DEFINE a == "err"
                no == FALSE
    <3>1. regs[c].req # "none" /\ RequestEnds(c, a, no, wait, ok)
      BY <2>3 DEF RequestFails
    <3>2. a \in Answers \union {"err"} /\ no \in BOOLEAN /\ ~(a # "err")
      OBVIOUS
    <3>. HIDE DEF a, no
    <3>. QED BY <3>1, <3>2, RequestEndsInv
  <2>. QED BY <2>1, <2>2, <2>3
<1>5. ASSUME NEW c \in Clients, NEW wait \in FailWaits, KeepaliveHandler(c, wait)
      PROVE  Goal
  BY <1>5, KeepaliveHandlerInv
<1>6. ASSUME NEW c \in Clients, NEW wait \in FailWaits, NEW ok \in BOOLEAN,
             TmrHandler(c, wait, ok)
      PROVE  Goal
  BY <1>6, TmrHandlerInv
<1>7. CASE RegTick
  BY <1>7, RegTickInv
<1>8. CASE UNCHANGED regVars
  BY <1>8 DEF regVars, RegInv, LeaseInv, Shown, Covered, Fresh, Renewed
<1>. QED BY <1>1, <1>2, <1>3, <1>4, <1>5, <1>6, <1>7, <1>8 DEF RegNext

LEMMA AlwaysReg == RegSpec => []RegInv
<1>1. RegInv /\ [RegNext]_regVars => RegInv'
  BY StepReg
<1>. QED BY InitReg, <1>1, PTL DEF RegSpec

(***************************************************************************)
(* The theorems                                                            *)
(***************************************************************************)
\* A registration client always waits for exactly one thing, an answer or its timer,
\* whatever the registrar answers, whenever the flow breaks and whether or not its requests
\* can be sent; one that is leaving waits for an answer (sipreg/reg.c).
THEOREM AlwaysPursued == RegSpec => []Pursued
<1>1. RegInv => Pursued
  BY DEF RegInv, Fit, Pursued
<1>. QED BY <1>1, AlwaysReg, PTL

\* A client that goes away after a 2xx has withdrawn its contact: the destructor and
\* response_handler together see to it, whatever request was under way.
THEOREM NothingLeftBehind == RegSpec => []GoneIsUnbound
<1>1. RegInv => GoneIsUnbound
  BY DEF RegInv, Traced, GoneIsUnbound
<1>. QED BY <1>1, AlwaysReg, PTL

\* While an account shows itself registered its contact is at the registrar, or the refresh
\* has been challenged and goes on: whichever interval the client took from the answer, with
\* or without its contact listed, whether the wait wrapped around or not, and through
\* challenges, refusals and lost answers.  The intervals need room for two transactions
\* (LeaseAssumption); where an answer names no interval, the registrar is taken to grant the
\* one the client then uses.
THEOREM ShownCorrect == RegSpec => []ShownIsBound
<1>1. RegInv /\ LeaseInv /\ [RegNext]_regVars => LeaseInv'
  BY StepReg
<1>2. RegInit => LeaseInv
  BY InitReg
<1>3. RegSpec => [](RegInv /\ LeaseInv)
  BY <1>1, <1>2, AlwaysReg, PTL DEF RegSpec
<1>4. RegInv /\ LeaseInv => ShownIsBound
  <2>. SUFFICES ASSUME RegInv, LeaseInv, scode = "ok"
                PROVE  cur \in bound \/ Challenged(regs[cur])
    BY DEF ShownIsBound
  <2>1. cur # 0 /\ Covered(regs[cur], lease, cur \in bound) /\ Fresh(regs[cur], lease, cur \in bound)
    BY DEF LeaseInv, Shown
  <2>2. Fit(regs[cur]) /\ Held(regs[cur])
    BY <2>1 DEF RegInv
  <2>3. regs[cur].tmr = Off => regs[cur].req # "none"
    BY <2>2 DEF Fit, Held
  <2>. QED BY <2>1, <2>3 DEF Covered, Fresh, Challenged
<1>. QED BY <1>3, <1>4, PTL
=============================================================================
