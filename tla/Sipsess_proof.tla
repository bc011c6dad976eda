--------------------------- MODULE Sipsess_proof ---------------------------
(***************************************************************************)
(* Proofs about the SIP session of Sipsess, for every bound: type          *)
(* correctness, its invariants, and that it keeps the promise of           *)
(* SessionPromise.                                                         *)
(***************************************************************************)
EXTENDS Sipsess, SequenceTheorems, WellFoundedInduction, TLAPS

(***************************************************************************)
(* The inductive invariant, as predicates on the value of sess.            *)
(***************************************************************************)
\* RefsExact
Counted(t) == t.refs = One(t.user) + IF t.terminated > 0 THEN Waits(t) ELSE 0

\* no timer and no open transaction survive the end of the session
Quiet(t) == t.terminated > 0 => ~t.tmr /\ ~t.st

\* terminate() has run only when nothing but its BYE was left to wait for,
\* and a peer who believes in the session was told
Over(t) ==
    /\ t.terminated = 2 =>
          /\ t.replies = <<>> /\ t.infos = 0 /\ t.req \in {"none", "BYE"}
          /\ t.established => t.peerterm \/ t.byed
    /\ t.req = "BYE" => t.terminated = 2

\* an accepted invitation is established or waits for its ACK; a first
\* INVITE of our own is neither
Known(t) ==
    /\ t.accepted => t.established \/ t.replies # <<>>
    /\ t.req = "INVITE" => ~t.established /\ t.replies = <<>>

\* what the user was told agrees with the session's state
Told(t) ==
    /\ t.news \in {<<>>, <<"up">>, <<"closed">>, <<"up", "closed">>}
    /\ t.terminated = 0 => t.news = <<>> \/ (t.news = <<"up">> /\ t.established)

\* NoGlare; a transaction is open only before the first answer; and the
\* answer that awaits the peer's is the newest
Talking(t) ==
    t.terminated = 0 =>
        /\ t.req \in {"INVITE", "REINVITE"} \/ t.tmr => t.replies = <<>> /\ ~t.st
        /\ t.replies # <<>> => ~t.st
        /\ t.awaiting_answer => /\ t.replies # <<>>
                                /\ t.replies[Len(t.replies)].awaiting_answer

Steady(t) == t \in Sessions /\ Counted(t) /\ Quiet(t) /\ Over(t) /\ Known(t) /\ Told(t)

Sound(t) == Steady(t) /\ Talking(t)

\* ModifyNotLost
Pending(t) ==
    t.modify_pending /\ t.terminated = 0 => t.req # "none" \/ t.tmr \/ t.replies # <<>>

\* the object lives exactly as long as it has a reference
Alive(t) ==
    /\ t.mem = "none" => t = NoSession
    /\ t.mem = "live" => t.refs > 0
    /\ t.mem = "freed" => t.refs = 0 /\ t.terminated = 2

Fine(t) == Sound(t) /\ Pending(t) /\ Alive(t)

SessInv == Fine(sess) /\ rseq \in 0..MaxSeq

\* what no handler takes back, whatever else it does to the session
Heard(a, b) ==
    \/ b = a
    \/ a = <<>> /\ b \in {<<"up">>, <<"closed">>}
    \/ a = <<"up">> /\ b = <<"up", "closed">>

Carried(s, t) ==
    /\ t.mem # "none" /\ (t.user => s.user)
    /\ s.peerterm => t.peerterm
    /\ s.byed => t.byed
    /\ s.accepted => t.accepted
    /\ t.news = s.news \/ (s.user /\ Heard(s.news, t.news))

\* what ending a session leaves of its history
Ends(s, t) ==
    /\ t.user = s.user /\ t.peerterm = s.peerterm /\ t.accepted = s.accepted
    /\ s.byed => t.byed
    /\ t.news = s.news /\ t.infos = s.infos

(***************************************************************************)
(* Types: the ranges of the fields under names of their own, so that a     *)
(* step that updates some fields need not look into the others'.           *)
(***************************************************************************)
Flag     == BOOLEAN
Counter  == Nat
Phase    == 0..2
Memory   == {"none", "live", "freed"}
ReplyLog == Seq([seq : Nat, awaiting_answer : BOOLEAN])
NewsLog  == Seq({"up", "closed"})

Records ==
    [mem : Memory, refs : Counter, user : Flag, terminated : Phase, established : Flag,
     peerterm : Flag, modify_pending : Flag, awaiting_answer : Flag, sent_offer : Flag,
     desc : Flag, tmr : Flag, st : Flag, rtag : Flag, req : Requests,
     replies : ReplyLog, infos : Counter, accepted : Flag, byed : Flag, news : NewsLog]

LEMMA SessionsAre == Sessions = Records
  BY DEF Sessions, Records, Flag, Counter, Phase, Memory, ReplyLog, NewsLog

LEMMA Ranges ==
  /\ TRUE \in Flag /\ FALSE \in Flag /\ 1 \in Phase /\ 2 \in Phase
  /\ "live" \in Memory /\ "freed" \in Memory
  /\ "none" \in Requests /\ "INVITE" \in Requests
  /\ "REINVITE" \in Requests /\ "BYE" \in Requests
  BY DEF Flag, Phase, Memory, Requests

(***************************************************************************)
(* Termination                                                             *)
(***************************************************************************)
LEMMA Counts ==
  ASSUME NEW s \in Sessions
  PROVE  s.refs \in Nat /\ One(s.user) \in {0, 1} /\ Waits(s) \in Nat /\ s.refs + Waits(s) \in Nat
<1>1. s.refs \in Nat
  BY DEF Sessions
<1>2. One(s.user) \in {0, 1}
  BY DEF One
<1>3. Waits(s) \in Nat
  BY DEF Waits, One
<1>. QED BY <1>1, <1>2, <1>3

LEMMA NothingToWaitFor ==
  ASSUME NEW s \in Sessions
  PROVE  Waits(s) = 0 <=> s.req = "none" /\ s.replies = <<>> /\ s.infos = 0
  BY DEF Waits, One, Sessions

LEMMA TermwaitSound ==
  ASSUME NEW s, Steady(s), s.terminated = 0
  PROVE  /\ Sound(Termwait(s)) /\ Ends(s, Termwait(s))
         /\ Termwait(s).terminated = 1 /\ Termwait(s).mem = s.mem
         /\ Termwait(s).refs = s.refs + Waits(s) /\ Waits(Termwait(s)) = Waits(s)
<1>. DEFINE t == Termwait(s)
<1>1. s \in Sessions /\ s.refs \in Nat /\ Waits(s) \in Nat
  BY Counts DEF Sound, Steady
<1>2. t \in Sessions
  <2>1. s.refs + Waits(s) \in Counter
    BY <1>1 DEF Counter
  <2>. QED BY <1>1, <2>1, SessionsAre, Ranges DEF Termwait, Records
<1>3. Counted(t)
  <2>1. /\ Waits(t) = Waits(s) /\ t.terminated = 1
        /\ t.user = s.user /\ t.refs = s.refs + Waits(s)
    BY <1>1 DEF Termwait, Sessions, Waits
  <2>2. s.refs = One(s.user)
    BY <1>1, Counts DEF Sound, Steady, Counted
  <2>. QED BY <1>1, <2>1, <2>2, Counts DEF Counted
<1>4. Quiet(t) /\ Over(t) /\ Known(t) /\ Told(t) /\ Talking(t)
  BY <1>1 DEF Sound, Steady, Quiet, Over, Known, Told, Talking, Termwait, Sessions
<1>5. Ends(s, t) /\ t.terminated = 1 /\ t.mem = s.mem /\ t.refs = s.refs + Waits(s)
  BY <1>1 DEF Ends, Termwait, Sessions
<1>6. Waits(t) = Waits(s)
  BY <1>1 DEF Waits, Termwait, Sessions
<1>. QED BY <1>2, <1>3, <1>4, <1>5, <1>6 DEF Sound, Steady

LEMMA TerminateSound ==
  ASSUME NEW s, Sound(s), s.terminated = 1, Waits(s) = 0, NEW ok \in BOOLEAN
  PROVE  /\ Sound(Terminate(s, ok)) /\ Ends(s, Terminate(s, ok))
         /\ Terminate(s, ok).terminated = 2 /\ Terminate(s, ok).mem = s.mem
         /\ Terminate(s, ok).refs >= s.refs
<1>. DEFINE t == Terminate(s, ok)
<1>1. s \in Sessions /\ s.refs = One(s.user) /\ s.refs \in Nat /\ s.refs + 1 \in Nat
  BY Counts DEF Sound, Steady, Counted
<1>2. s.req = "none" /\ s.replies = <<>> /\ s.infos = 0
  BY <1>1, NothingToWaitFor
<1>3. t = IF ~s.established \/ s.peerterm THEN [s EXCEPT !.terminated = 2]
          ELSE IF ok THEN [s EXCEPT !.terminated = 2, !.byed = TRUE, !.req = "BYE", !.refs = @ + 1]
          ELSE [s EXCEPT !.terminated = 2, !.byed = TRUE]
  BY <1>1, <1>2 DEF Terminate, Sessions
<1>4. t \in Sessions
  <2>1. s.refs + 1 \in Counter
    BY <1>1 DEF Counter
  <2>2. s \in Records
    BY <1>1, SessionsAre
  <2>3. [s EXCEPT !.terminated = 2] \in Records
    BY <2>2, Ranges DEF Records
  <2>4. [s EXCEPT !.terminated = 2, !.byed = TRUE] \in Records
    BY <2>2, Ranges DEF Records
  <2>5. [s EXCEPT !.terminated = 2, !.byed = TRUE, !.req = "BYE", !.refs = @ + 1] \in Records
    BY <2>1, <2>2, Ranges DEF Records
  <2>. QED BY <1>3, <2>3, <2>4, <2>5, SessionsAre
<1>5. Counted(t)
  <2>1. /\ t.user = s.user /\ t.terminated = 2 /\ t.replies = <<>> /\ t.infos = 0
        /\ \/ t.refs = s.refs /\ t.req = "none"
           \/ t.refs = s.refs + 1 /\ t.req = "BYE"
    BY <1>1, <1>2, <1>3 DEF Sessions
  <2>2. Waits(t) = IF t.req = "none" THEN 0 ELSE 1
    BY <2>1 DEF Waits, One
  <2>3. One(t.user) = One(s.user) /\ t.terminated > 0
    BY <2>1
  <2>. HIDE DEF t
  <2>. QED BY <1>1, <2>1, <2>2, <2>3 DEF Counted
<1>6. Quiet(t) /\ Over(t) /\ Known(t) /\ Told(t) /\ Talking(t)
  BY <1>1, <1>2, <1>3 DEF Sound, Steady, Quiet, Over, Known, Told, Talking, Sessions
<1>7. Ends(s, t) /\ t.terminated = 2 /\ t.mem = s.mem /\ t.refs >= s.refs
  BY <1>1, <1>3 DEF Ends, Sessions
<1>. QED BY <1>4, <1>5, <1>6, <1>7 DEF Sound, Steady

LEMMA FreedFine ==
  ASSUME NEW s, Sound(s), s.refs = 0, s.terminated = 2
  PROVE  /\ Fine([s EXCEPT !.mem = "freed"])
         /\ Ends(s, [s EXCEPT !.mem = "freed"]) /\ [s EXCEPT !.mem = "freed"].mem = "freed"
<1>. DEFINE t == [s EXCEPT !.mem = "freed"]
<1>1. s \in Sessions /\ t \in Sessions
  BY SessionsAre, Ranges DEF Sound, Steady, Records
<1>2. Counted(t)
  <2>1. t.refs = s.refs /\ t.user = s.user /\ t.terminated = s.terminated
    BY <1>1 DEF Sessions
  <2>2. Waits(t) = Waits(s)
    BY <1>1 DEF Waits, Sessions
  <2>. QED BY <2>1, <2>2 DEF Sound, Steady, Counted
<1>3. Quiet(t) /\ Over(t) /\ Known(t) /\ Told(t) /\ Talking(t)
  BY <1>1 DEF Sound, Steady, Quiet, Over, Known, Told, Talking, Sessions
<1>4. Alive(t) /\ Pending(t) /\ Ends(s, t) /\ t.mem = "freed"
  BY <1>1 DEF Alive, Pending, Ends, Sessions
<1>. QED BY <1>1, <1>2, <1>3, <1>4 DEF Sound, Steady, Fine

LEMMA DestroyedFine ==
  ASSUME NEW s, Sound(s), s.refs = 0, s.mem = "live", NEW ok \in BOOLEAN
  PROVE  /\ Fine(Destroyed(s, ok)) /\ Ends(s, Destroyed(s, ok))
         /\ Destroyed(s, ok).mem # "none"
<1>. DEFINE t == IF s.terminated = 0 THEN Termwait(s) ELSE s
            u == IF t.refs > 0 \/ t.terminated = 2 THEN t ELSE Terminate(t, ok)
            r == Destroyed(s, ok)
<1>1. /\ Sound(t) /\ Ends(s, t) /\ t.mem = "live" /\ t.terminated \in {1, 2}
      /\ t.refs = Waits(t) /\ t.refs \in Nat
  <2>1. s \in Sessions /\ s.terminated \in 0..2 /\ One(s.user) = 0
    BY Counts DEF Sound, Steady, Counted, Sessions
  <2>2. CASE s.terminated = 0
    BY <2>1, <2>2, TermwaitSound, Counts DEF Sound
  <2>3. CASE s.terminated # 0
    <3>1. t = s /\ Waits(s) = 0
      BY <2>1, <2>3, Counts DEF Sound, Steady, Counted
    <3>. QED BY <2>1, <2>3, <3>1 DEF Ends
  <2>. QED BY <2>2, <2>3
<1>2. r = IF u.refs > 0 THEN u ELSE [u EXCEPT !.mem = "freed"]
  BY DEF Destroyed
<1>. HIDE DEF t, r
<1>3. CASE t.refs > 0
  <2>1. r = t
    BY <1>2, <1>3
  <2>2. Alive(t) /\ Pending(t)
    BY <1>1, <1>3 DEF Alive, Pending
  <2>. QED BY <1>1, <2>1, <2>2 DEF r, Fine
<1>4. CASE t.refs = 0
  <2>1. Sound(u) /\ Ends(s, u) /\ u.terminated = 2 /\ u.mem = "live"
    <3>1. CASE t.terminated = 2
      BY <1>1, <3>1
    <3>2. CASE t.terminated = 1
      <4>1. u = Terminate(t, ok)
        BY <1>4, <3>2
      <4>2. /\ Sound(Terminate(t, ok)) /\ Ends(t, Terminate(t, ok))
            /\ Terminate(t, ok).terminated = 2 /\ Terminate(t, ok).mem = t.mem
        BY <1>1, <1>4, <3>2, TerminateSound
      <4>3. Ends(s, Terminate(t, ok))
        BY <1>1, <4>2 DEF Ends
      <4>. QED BY <1>1, <4>1, <4>2, <4>3
    <3>. QED BY <1>1, <3>1, <3>2
  <2>2. u.refs \in Nat
    BY <2>1, Counts DEF Sound, Steady
  <2>. HIDE DEF u
  <2>3. CASE u.refs > 0
    BY <1>2, <2>1, <2>3 DEF r, Fine, Alive, Pending
  <2>4. CASE u.refs = 0
    BY <1>2, <2>1, <2>4, FreedFine DEF r, Ends
  <2>. QED BY <2>2, <2>3, <2>4
<1>. QED BY <1>1, <1>3, <1>4

\* the caller gives up a reference that Counted does not count
LEMMA DerefFine ==
  ASSUME NEW s \in Sessions, Sound([s EXCEPT !.refs = @ - 1]), s.refs > 0, s.mem = "live",
         Pending(s), NEW ok \in BOOLEAN
  PROVE  /\ Fine(Deref(s, ok)) /\ Ends(s, Deref(s, ok)) /\ Deref(s, ok).mem # "none"
         /\ s.refs > 1 => Deref(s, ok) = [s EXCEPT !.refs = @ - 1]
<1>. DEFINE t == [s EXCEPT !.refs = @ - 1]
            r == Deref(s, ok)
<1>1. t \in Sessions /\ t.refs \in Nat /\ t.refs = s.refs - 1 /\ s.refs \in Nat
  <2>1. t \in Sessions /\ s.refs \in Nat
    BY Counts DEF Sound, Steady
  <2>. QED BY <2>1, Counts DEF Sessions
<1>2. Ends(s, t) /\ Pending(t) /\ t.mem = "live"
  BY DEF Ends, Pending, Sessions
<1>3. r = IF t.refs = 0 THEN Destroyed(t, ok) ELSE t
  BY DEF Deref
<1>4. CASE t.refs = 0
  <2>1. Fine(Destroyed(t, ok)) /\ Ends(t, Destroyed(t, ok)) /\ Destroyed(t, ok).mem # "none"
    BY <1>2, <1>4, DestroyedFine
  <2>2. Ends(s, Destroyed(t, ok))
    BY <1>2, <2>1 DEF Ends
  <2>. HIDE DEF t
  <2>. QED BY <1>1, <1>3, <1>4, <2>1, <2>2
<1>5. CASE t.refs # 0
  BY <1>1, <1>2, <1>3, <1>5 DEF Fine, Alive
<1>. QED BY <1>4, <1>5

LEMMA UserDerefFine ==
  ASSUME NEW s, Sound(s), s.user, s.mem = "live", Pending(s), NEW ok \in BOOLEAN
  PROVE  /\ Fine(UserDeref(s, ok)) /\ UserDeref(s, ok).mem # "none" /\ ~UserDeref(s, ok).user
         /\ Ends([s EXCEPT !.user = FALSE], UserDeref(s, ok))
         /\ s.refs > 1 => UserDeref(s, ok) = [s EXCEPT !.user = FALSE, !.refs = @ - 1]
<1>. DEFINE t == [s EXCEPT !.user = FALSE]
            d == [t EXCEPT !.refs = @ - 1]
<1>1. s \in Sessions /\ s.refs \in Nat /\ Waits(s) \in Nat
  BY Counts DEF Sound, Steady
<1>2. s.refs = 1 + IF s.terminated > 0 THEN Waits(s) ELSE 0
  BY DEF Sound, Steady, Counted, One
<1>3. t \in Sessions /\ d \in Sessions
  <2>1. s.refs > 0 /\ s.refs - 1 \in Counter
    BY <1>1, <1>2 DEF Counter
  <2>. QED BY <1>1, <2>1, SessionsAre, Ranges DEF Records
<1>4. /\ d.user = FALSE /\ d.terminated = s.terminated /\ d.refs = s.refs - 1
      /\ t.refs = s.refs /\ t.mem = "live" /\ t.user = FALSE
  BY <1>1 DEF Sessions
<1>5. Counted(d)
  <2>1. Waits(d) = Waits(s) /\ One(d.user) = 0
    BY <1>1 DEF Waits, One, Sessions
  <2>. HIDE DEF d
  <2>. QED BY <1>1, <1>2, <1>4, <2>1 DEF Counted
<1>6. Quiet(d) /\ Over(d) /\ Known(d) /\ Told(d) /\ Talking(d) /\ Pending(t)
  BY <1>1 DEF Sound, Steady, Quiet, Over, Known, Told, Talking, Pending, Sessions
<1>7. Sound(d) /\ s.refs > 0
  BY <1>1, <1>2, <1>3, <1>5, <1>6 DEF Sound, Steady
<1>8. d = [s EXCEPT !.user = FALSE, !.refs = @ - 1]
  BY <1>1 DEF Sessions
<1>. QED
  <2>1. /\ Fine(Deref(t, ok)) /\ Ends(t, Deref(t, ok)) /\ Deref(t, ok).mem # "none"
        /\ t.refs > 1 => Deref(t, ok) = d
    BY <1>3, <1>4, <1>6, <1>7, DerefFine
  <2>2. ~Deref(t, ok).user
    BY <1>4, <2>1 DEF Ends
  <2>. QED BY <1>4, <1>8, <2>1, <2>2 DEF UserDeref

LEMMA News ==
  /\ Append(<<>>, "up") = <<"up">> /\ Append(<<>>, "closed") = <<"closed">>
  /\ Append(<<"up">>, "closed") = <<"up", "closed">>
  /\ {<<>>, <<"up">>, <<"closed">>, <<"up", "closed">>} \subseteq NewsLog
<1>. DEFINE a == Append(<<"up">>, "closed")
            b == <<"up", "closed">>
<1>1. Append(<<>>, "up") = <<"up">> /\ Append(<<>>, "closed") = <<"closed">>
  OBVIOUS
<1>3. a = b
  <2>1. /\ a \in Seq({"up", "closed"}) /\ b \in Seq({"up", "closed"})
        /\ Len(a) = 2 /\ Len(b) = 2 /\ a[1] = b[1] /\ a[2] = b[2]
    OBVIOUS
  <2>2. \A i \in 1..Len(a) : a[i] = b[i]
    BY <2>1
  <2>. HIDE DEF a, b
  <2>. QED BY <2>1, <2>2, SeqEqual
<1>2. {<<>>, <<"up">>, <<"closed">>, <<"up", "closed">>} \subseteq NewsLog
  BY DEF NewsLog
<1>. QED BY <1>1, <1>2, <1>3

LEMMA SipsessTerminateFine ==
  ASSUME NEW s, Steady(s), s.terminated = 0, s.user, s.mem = "live",
         NEW ok \in BOOLEAN, NEW drop \in BOOLEAN
  PROVE  /\ Fine(SipsessTerminate(s, ok, drop)) /\ Carried(s, SipsessTerminate(s, ok, drop))
         /\ SipsessTerminate(s, ok, drop).mem # "none"
         /\ s.infos > 0 => /\ SipsessTerminate(s, ok, drop).mem = "live"
                           /\ SipsessTerminate(s, ok, drop).infos = s.infos
                           /\ SipsessTerminate(s, ok, drop).terminated = 1
<1>. DEFINE t == Termwait(s)
            u == IF Waits(s) > 0 THEN t ELSE Terminate(t, ok)
            v == [u EXCEPT !.news = Append(@, "closed")]
            w == [v EXCEPT !.user = FALSE]
            r == SipsessTerminate(s, ok, drop)
<1>1. s \in Sessions /\ Waits(s) \in Nat /\ s.refs = 1
  BY Counts DEF Sound, Steady, Counted, One
<1>2. /\ Sound(t) /\ Ends(s, t) /\ t.terminated = 1 /\ t.mem = "live"
      /\ t.refs = 1 + Waits(s) /\ Waits(t) = Waits(s)
  BY <1>1, TermwaitSound
<1>3. /\ Sound(u) /\ Ends(s, u) /\ u.terminated \in {1, 2} /\ u.mem = "live" /\ u.refs > 0
      /\ Waits(s) > 0 => u.terminated = 1 /\ u.refs > 1
  <2>1. CASE Waits(s) > 0
    BY <1>1, <1>2, <2>1
  <2>2. CASE Waits(s) = 0
    <3>1. /\ Sound(Terminate(t, ok)) /\ Ends(t, Terminate(t, ok))
          /\ Terminate(t, ok).terminated = 2 /\ Terminate(t, ok).mem = t.mem
          /\ Terminate(t, ok).refs >= t.refs
      BY <1>2, <2>2, TerminateSound
    <3>2. Terminate(t, ok).refs \in Nat
      BY <3>1, Counts DEF Sound, Steady
    <3>3. Ends(s, Terminate(t, ok))
      BY <1>2, <3>1 DEF Ends
    <3>4. u = Terminate(t, ok)
      BY <2>2
    <3>. HIDE DEF t, u
    <3>. QED BY <1>2, <2>2, <3>1, <3>2, <3>3, <3>4
  <2>. QED BY <1>1, <2>1, <2>2
<1>. HIDE DEF t, u
<1>4. /\ s.news \in {<<>>, <<"up">>} /\ u.news = s.news
      /\ Append(s.news, "closed") \in {<<"closed">>, <<"up", "closed">>}
      /\ Heard(s.news, Append(s.news, "closed"))
  BY <1>3, News DEF Sound, Steady, Told, Ends, Heard
<1>5. /\ v.terminated = u.terminated /\ v.mem = "live" /\ v.refs = u.refs
      /\ v.news = Append(s.news, "closed")
      /\ v.user /\ v.infos = s.infos /\ u \in Sessions
  BY <1>3, <1>4 DEF Sound, Steady, Sessions, Ends
<1>6. Sound(v)
  <2>1. v \in Sessions
    <3>1. Append(s.news, "closed") \in NewsLog
      BY <1>4, News
    <3>. QED BY <1>4, <1>5, <3>1, SessionsAre DEF Records
  <2>2. Counted(v)
    <3>1. Waits(v) = Waits(u) /\ v.user = u.user
      BY <1>5 DEF Waits, Sessions
    <3>. HIDE DEF v
    <3>. QED BY <1>3, <1>5, <3>1 DEF Sound, Steady, Counted
  <2>3. Told(v)
    BY <1>3, <1>4, <1>5 DEF Told
  <2>4. Quiet(v) /\ Over(v) /\ Known(v) /\ Talking(v)
    BY <1>3, <1>5 DEF Sound, Steady, Quiet, Over, Known, Talking, Sessions
  <2>. QED BY <2>1, <2>2, <2>3, <2>4 DEF Sound, Steady
<1>7. Pending(v) /\ Alive(v) /\ Carried(s, v)
  BY <1>3, <1>4, <1>5 DEF Pending, Alive, Carried, Ends, Sessions
<1>8. r = IF drop THEN UserDeref(v, ok) ELSE v
  BY <1>1, <1>5 DEF SipsessTerminate, t, u, v
<1>9. s.infos > 0 => Waits(s) > 0
  BY <1>1, NothingToWaitFor DEF Sessions
<1>10. CASE ~drop
  BY <1>3, <1>5, <1>6, <1>7, <1>8, <1>9, <1>10 DEF Fine
<1>11. CASE drop
  <2>1. /\ Fine(UserDeref(v, ok)) /\ UserDeref(v, ok).mem # "none" /\ ~UserDeref(v, ok).user
        /\ Ends(w, UserDeref(v, ok))
        /\ v.refs > 1 => UserDeref(v, ok) = [v EXCEPT !.user = FALSE, !.refs = @ - 1]
    BY <1>5, <1>6, <1>7, UserDerefFine
  <2>2. /\ w.peerterm = v.peerterm /\ w.accepted = v.accepted /\ w.byed = v.byed
        /\ w.news = v.news /\ w.infos = v.infos /\ ~w.user
    BY <1>6 DEF Sound, Steady, Sessions
  <2>3. Carried(s, r)
    <3>. HIDE DEF w, v
    <3>. QED BY <1>5, <1>7, <1>8, <1>11, <2>1, <2>2 DEF Carried, Ends
  <2>4. s.infos > 0 => r.mem = "live" /\ r.infos = s.infos /\ r.terminated = 1
    <3>. SUFFICES ASSUME s.infos > 0
                  PROVE  r.mem = "live" /\ r.infos = s.infos /\ r.terminated = 1
      OBVIOUS
    <3>1. u.terminated = 1 /\ v.refs > 1
      BY <1>3, <1>5, <1>9
    <3>2. r = [v EXCEPT !.user = FALSE, !.refs = @ - 1]
      BY <1>8, <1>11, <2>1, <3>1
    <3>3. v \in Sessions
      BY <1>6 DEF Sound, Steady
    <3>. HIDE DEF v, r
    <3>. QED BY <1>5, <3>1, <3>2, <3>3 DEF Sessions
  <2>. QED BY <1>8, <1>11, <2>1, <2>3, <2>4
<1>. QED BY <1>10, <1>11

\* a handler whose request has ended: it drops the reference of a session
\* that is over, and terminates one that is not
LEMMA EndedFine ==
  ASSUME NEW s \in Sessions, s.mem = "live", NEW ok \in BOOLEAN, NEW drop \in BOOLEAN,
         s.terminated = 0 => Sound(s) /\ s.user,
         s.terminated > 0 => Sound([s EXCEPT !.refs = @ - 1]) /\ s.refs > 0
  PROVE  Fine(Ended(s, ok, drop)) /\ Carried(s, Ended(s, ok, drop))
<1>1. CASE s.terminated = 0
  BY <1>1, SipsessTerminateFine DEF Ended, Sound
<1>2. CASE s.terminated > 0
  <2>1. Pending(s) /\ Ended(s, ok, drop) = Deref(s, ok)
    BY <1>2 DEF Pending, Ended
  <2>2. Fine(Deref(s, ok)) /\ Ends(s, Deref(s, ok)) /\ Deref(s, ok).mem # "none"
    BY <1>2, <2>1, DerefFine
  <2>. QED BY <2>1, <2>2 DEF Ends, Carried
<1>. QED BY <1>1, <1>2 DEF Sessions

(***************************************************************************)
(* Requests and answers of a session that is not terminated                *)
(***************************************************************************)
LEMMA ReinviteFine ==
  ASSUME NEW s, Sound(s), s.mem = "live", s.refs > 0, s.terminated = 0,
         s.replies = <<>>, ~s.st, NEW ok \in BOOLEAN
  PROVE  /\ Fine(Reinvite(s, ok)) /\ Carried(s, Reinvite(s, ok))
         /\ Reinvite(s, ok).news = s.news /\ Reinvite(s, ok).terminated = 0
         /\ Reinvite(s, ok).established = s.established /\ Reinvite(s, ok).user = s.user
         /\ Reinvite(s, ok).mem = "live" /\ Reinvite(s, ok).replies = <<>>
         /\ Reinvite(s, ok).req # "INVITE" \/ Reinvite(s, ok) = s
<1>. DEFINE t == [s EXCEPT !.sent_offer = s.desc, !.modify_pending = FALSE,
                           !.req = IF ok THEN "REINVITE" ELSE "none"]
            r == Reinvite(s, ok)
<1>1. s \in Sessions
  BY DEF Sound, Steady
<1>2. CASE s.req # "none"
  <2>1. r = s
    BY <1>2 DEF Reinvite
  <2>2. Pending(s) /\ Alive(s) /\ Carried(s, s)
    BY <1>2 DEF Pending, Alive, Carried
  <2>. HIDE DEF r
  <2>. QED BY <2>1, <2>2 DEF Fine, r
<1>3. CASE s.req = "none"
  <2>1. r = t
    BY <1>3 DEF Reinvite, Invited
  <2>2. t \in Sessions
    <3>1. (IF ok THEN "REINVITE" ELSE "none") \in Requests /\ s.desc \in Flag
      BY <1>1, Ranges, SessionsAre DEF Records
    <3>. QED BY <1>1, <3>1, SessionsAre, Ranges DEF Records
  <2>3. Counted(t)
    BY <1>1 DEF Sound, Steady, Counted, Sessions
  <2>4. Quiet(t) /\ Over(t) /\ Known(t) /\ Told(t) /\ Talking(t)
    BY <1>1, <1>3 DEF Sound, Steady, Quiet, Over, Known, Told, Talking, Sessions
  <2>5. Pending(t) /\ Alive(t) /\ Carried(s, t)
    BY <1>1 DEF Pending, Alive, Carried, Sessions
  <2>6. /\ t.news = s.news /\ t.terminated = 0 /\ t.established = s.established
        /\ t.user = s.user /\ t.mem = "live" /\ t.replies = <<>> /\ t.req # "INVITE"
    BY <1>1 DEF Sessions
  <2>. HIDE DEF t, r
  <2>. QED BY <2>1, <2>2, <2>3, <2>4, <2>5, <2>6 DEF Sound, Steady, Fine, r
<1>. QED BY <1>2, <1>3

LEMMA Reply2xxFine ==
  ASSUME NEW s, Fine(s), s.mem = "live", s.terminated = 0, ~s.awaiting_answer,
         s.req \notin {"INVITE", "REINVITE"}, ~s.tmr,
         NEW seq \in Nat, NEW awaiting \in BOOLEAN, NEW ok \in BOOLEAN
  PROVE  /\ Fine(Reply2xx(s, seq, awaiting, ok)) /\ Carried(s, Reply2xx(s, seq, awaiting, ok))
         /\ Reply2xx(s, seq, awaiting, ok).mem = "live"
<1>. DEFINE r == [seq |-> seq, awaiting_answer |-> awaiting]
            q == Append(s.replies, r)
            t == [s EXCEPT !.st = FALSE, !.replies = Append(@, r),
                           !.awaiting_answer = @ \/ awaiting, !.accepted = TRUE]
            u == [s EXCEPT !.st = FALSE]
<1>1. s \in Sessions
  BY DEF Sound, Steady, Fine
<1>2. CASE ~ok
  <2>1. u \in Sessions
    BY <1>1, SessionsAre, Ranges DEF Records
  <2>2. Counted(u)
    BY <1>1 DEF Fine, Sound, Steady, Counted, Sessions
  <2>3. Quiet(u) /\ Over(u) /\ Known(u) /\ Told(u) /\ Talking(u)
    BY <1>1 DEF Fine, Sound, Steady, Quiet, Over, Known, Told, Talking, Sessions
  <2>4. Pending(u) /\ Alive(u) /\ Carried(s, u) /\ u.mem = "live"
    BY <1>1 DEF Fine, Pending, Alive, Carried, Sessions
  <2>5. Reply2xx(s, seq, awaiting, ok) = u
    BY <1>2 DEF Reply2xx
  <2>. HIDE DEF u
  <2>. QED BY <2>1, <2>2, <2>3, <2>4, <2>5 DEF Sound, Steady, Fine
<1>3. CASE ok
  <2>1. s.replies \in ReplyLog /\ r \in [seq : Nat, awaiting_answer : BOOLEAN]
    BY <1>1, SessionsAre DEF Records
  <2>2. /\ q \in ReplyLog /\ q # <<>> /\ Len(q) = Len(s.replies) + 1
        /\ q[Len(q)].awaiting_answer = awaiting
    BY <2>1, AppendProperties DEF ReplyLog
  <2>3. t \in Sessions
    <3>1. (s.awaiting_answer \/ awaiting) \in Flag
      BY DEF Flag
    <3>. HIDE DEF r
    <3>. QED BY <1>1, <2>2, <3>1, SessionsAre, Ranges DEF Records
  <2>4. /\ t.mem = s.mem /\ t.refs = s.refs /\ t.user = s.user /\ t.terminated = 0
        /\ t.established = s.established /\ t.peerterm = s.peerterm /\ t.byed = s.byed
        /\ t.tmr = s.tmr /\ ~t.st /\ t.req = s.req /\ t.replies = q
        /\ t.awaiting_answer = awaiting /\ t.accepted /\ t.news = s.news
    BY <1>1 DEF Sessions
  <2>5. Reply2xx(s, seq, awaiting, ok) = t
    BY <1>3 DEF Reply2xx
  <2>. HIDE DEF t, q
  <2>6. Counted(t) /\ Quiet(t) /\ Over(t) /\ Known(t) /\ Told(t)
    BY <2>2, <2>4 DEF Fine, Sound, Steady, Counted, Quiet, Over, Known, Told
  <2>7. Talking(t)
    BY <2>2, <2>4 DEF Talking
  <2>8. Pending(t) /\ Alive(t) /\ Carried(s, t)
    BY <2>2, <2>4 DEF Fine, Pending, Alive, Carried
  <2>. QED BY <2>3, <2>4, <2>5, <2>6, <2>7, <2>8 DEF Sound, Steady, Fine
<1>. QED BY <1>2, <1>3

(***************************************************************************)
(* The actions: each leaves a Fine session, and takes nothing back.        *)
(***************************************************************************)
Opened(s, t) ==
    /\ s = NoSession /\ t.mem = "live" /\ t.user
    /\ t.news = <<>> /\ ~t.peerterm /\ ~t.byed

Lawful(s, t) == Opened(s, t) \/ (s.mem = "live" /\ Carried(s, t))

LEMMA AtRest ==
  ASSUME NEW s, Fine(s), s.mem # "live"
  PROVE  ~s.user /\ ~s.st /\ ~s.tmr /\ s.req = "none" /\ s.replies = <<>> /\ s.infos = 0
<1>1. s \in Sessions
  BY DEF Fine, Sound, Steady
<1>2. CASE s.mem = "none"
  <2>1. s = NoSession
    BY <1>2 DEF Fine, Alive
  <2>. QED BY <2>1 DEF NoSession
<1>3. CASE s.mem = "freed"
  <2>1. s.refs = 0 /\ s.terminated = 2
    BY <1>3 DEF Fine, Alive
  <2>2. One(s.user) = 0 /\ Waits(s) = 0
    BY <1>1, <2>1, Counts DEF Fine, Sound, Steady, Counted
  <2>3. ~s.user
    BY <2>2 DEF One
  <2>. QED BY <1>1, <2>1, <2>2, <2>3, NothingToWaitFor DEF Fine, Sound, Steady, Quiet
<1>. QED BY <1>1, <1>2, <1>3 DEF Sessions

LEMMA Held ==
  ASSUME NEW s, Fine(s), s.mem = "live", s.terminated = 0
  PROVE  s.user /\ s.refs = 1
<1>1. s \in Sessions /\ s.refs > 0
  BY DEF Fine, Sound, Steady, Alive
<1>2. s.refs = One(s.user)
  BY <1>1, Counts DEF Fine, Sound, Steady, Counted
<1>. QED BY <1>1, <1>2 DEF One

LEMMA NoSessionFine == Fine(NoSession)
<1>1. NoSession \in Sessions
  <2>1. 0 \in Counter /\ 0 \in Phase /\ <<>> \in ReplyLog /\ <<>> \in NewsLog
    BY EmptySeq DEF Counter, Phase, ReplyLog, NewsLog
  <2>2. "none" \in Memory
    BY DEF Memory
  <2>. QED BY <2>1, <2>2, SessionsAre, Ranges DEF NoSession, Records
<1>2. Counted(NoSession)
  BY DEF Counted, One, NoSession
<1>3. /\ Quiet(NoSession) /\ Over(NoSession) /\ Known(NoSession) /\ Told(NoSession)
      /\ Talking(NoSession) /\ Pending(NoSession) /\ Alive(NoSession)
  BY DEF Quiet, Over, Known, Told, Talking, Pending, Alive, NoSession
<1>. QED BY <1>1, <1>2, <1>3 DEF Fine, Sound, Steady

LEMMA OpenedFine ==
  ASSUME NEW desc \in BOOLEAN, NEW awaiting \in BOOLEAN, NEW at_once \in BOOLEAN,
         Connect(desc) \/ SipsessAccept(at_once, awaiting)
  PROVE  Fine(sess)' /\ Lawful(sess, sess')
<1>. DEFINE s == [Allocated EXCEPT !.rtag = TRUE]
            c == Invited([Allocated EXCEPT !.desc = desc], "INVITE", TRUE)
<1>1. Allocated \in Sessions
  <2>1. 1 \in Counter
    BY DEF Counter
  <2>. QED BY <2>1, NoSessionFine, SessionsAre, Ranges DEF Fine, Sound, Steady, Allocated, Records
<1>2. CASE Connect(desc)
  <2>1. sess' = c /\ sess = NoSession
    BY <1>2 DEF Connect
  <2>2. c \in Sessions
    <3>1. desc \in Flag
      BY DEF Flag
    <3>. QED BY <1>1, <3>1, SessionsAre, Ranges DEF Invited, Records
  <2>3. Counted(c)
    BY DEF Counted, One, Invited, Allocated, NoSession
  <2>4. Quiet(c) /\ Over(c) /\ Known(c) /\ Told(c) /\ Talking(c) /\ Pending(c) /\ Alive(c)
    BY DEF Quiet, Over, Known, Told, Talking, Pending, Alive, Invited, Allocated, NoSession
  <2>5. Opened(NoSession, c)
    BY DEF Opened, Invited, Allocated, NoSession
  <2>. HIDE DEF c
  <2>. QED BY <2>1, <2>2, <2>3, <2>4, <2>5 DEF Fine, Sound, Steady, Lawful
<1>3. CASE SipsessAccept(at_once, awaiting)
  <2>1. sess = NoSession
    BY <1>3 DEF SipsessAccept
  <2>2. s \in Sessions
    BY <1>1, SessionsAre, Ranges DEF Records
  <2>3. CASE ~at_once
    <3>. DEFINE t == [s EXCEPT !.st = TRUE]
    <3>1. sess' = t
      BY <1>3, <2>3 DEF SipsessAccept
    <3>2. t \in Sessions
      BY <2>2, SessionsAre, Ranges DEF Records
    <3>3. Counted(t)
      BY DEF Counted, One, Allocated, NoSession
    <3>4. Quiet(t) /\ Over(t) /\ Known(t) /\ Told(t) /\ Talking(t) /\ Pending(t) /\ Alive(t)
      BY DEF Quiet, Over, Known, Told, Talking, Pending, Alive, Allocated, NoSession
    <3>5. Opened(NoSession, t)
      BY DEF Opened, Allocated, NoSession
    <3>. HIDE DEF t
    <3>. QED BY <2>1, <3>1, <3>2, <3>3, <3>4, <3>5 DEF Fine, Sound, Steady, Lawful
  <2>4. CASE at_once
    <3>. DEFINE t == Reply2xx(s, 0, awaiting, TRUE)
    <3>1. sess' = t
      BY <1>3, <2>4 DEF SipsessAccept
    <3>2. Counted(s)
      BY DEF Counted, One, Allocated, NoSession
    <3>3. Quiet(s) /\ Over(s) /\ Known(s) /\ Told(s) /\ Talking(s) /\ Pending(s) /\ Alive(s)
      BY DEF Quiet, Over, Known, Told, Talking, Pending, Alive, Allocated, NoSession
    <3>4. /\ s.mem = "live" /\ s.terminated = 0 /\ ~s.awaiting_answer
          /\ s.req \notin {"INVITE", "REINVITE"} /\ ~s.tmr
      BY DEF Allocated, NoSession
    <3>5. Fine(t)
      <4>1. Fine(s) /\ 0 \in Nat /\ TRUE \in BOOLEAN
        BY <2>2, <3>2, <3>3 DEF Fine, Sound, Steady
      <4>. HIDE DEF s
      <4>. QED BY <3>4, <4>1, Reply2xxFine DEF t
    <3>6. Opened(NoSession, t)
      BY DEF Opened, Reply2xx, Allocated, NoSession
    <3>. HIDE DEF t
    <3>. QED BY <2>1, <3>1, <3>5, <3>6 DEF Lawful
  <2>. QED BY <2>3, <2>4
<1>. QED BY <1>2, <1>3

LEMMA SameCount ==
  ASSUME NEW s, NEW t, Counted(s), t.refs = s.refs, t.user = s.user,
         s.terminated = 0, t.terminated = 0
  PROVE  Counted(t)
  BY DEF Counted

\* a step that moves none of the fields that the reference count and the
\* news depend on
LEMMA UserFine ==
  ASSUME Fine(sess), NEW ok \in BOOLEAN, NEW awaiting \in BOOLEAN,
         Progress(ok) \/ Answer(awaiting, ok) \/ Reject \/ Modify(ok) \/ Info \/ LetGo(ok)
  PROVE  Fine(sess)' /\ Lawful(sess, sess')
<1>1. sess \in Sessions /\ sess.user /\ sess.mem = "live"
  BY AtRest DEF Fine, Sound, Steady, Progress, Answer, Reject, Modify, Info, LetGo
<1>2. ASSUME NEW b \in BOOLEAN, sess' = [sess EXCEPT !.st = b], sess.st
      PROVE  Fine(sess)' /\ Lawful(sess, sess')
  <2>. DEFINE t == [sess EXCEPT !.st = b]
  <2>1. t \in Sessions
    <3>1. b \in Flag
      BY DEF Flag
    <3>. QED BY <1>1, <3>1, SessionsAre DEF Records
  <2>2. Counted(t)
    <3>1. sess.terminated = 0
      BY <1>1, <1>2 DEF Fine, Sound, Steady, Quiet, Sessions
    <3>2. t.refs = sess.refs /\ t.user = sess.user /\ t.terminated = 0
      BY <1>1, <3>1 DEF Sessions
    <3>. HIDE DEF t
    <3>. QED BY <3>1, <3>2, SameCount DEF Fine, Sound, Steady
  <2>3. Quiet(t) /\ Over(t) /\ Known(t) /\ Told(t) /\ Talking(t)
    BY <1>1, <1>2 DEF Fine, Sound, Steady, Quiet, Over, Known, Told, Talking, Sessions
  <2>4. Pending(t) /\ Alive(t) /\ Carried(sess, t)
    BY <1>1 DEF Fine, Pending, Alive, Carried, Sessions
  <2>. HIDE DEF t
  <2>. QED BY <1>1, <1>2, <2>1, <2>2, <2>3, <2>4 DEF Sound, Steady, Fine, Lawful, t
<1>3. CASE Progress(ok) \/ Reject
  BY <1>2, <1>3 DEF Progress, Reject
<1>4. CASE Answer(awaiting, ok)
  <2>1. sess.st /\ sess' = Reply2xx(sess, 0, awaiting, ok)
    BY <1>4 DEF Answer
  <2>2. sess.terminated = 0
    BY <1>1, <2>1 DEF Fine, Sound, Steady, Quiet, Sessions
  <2>3. sess.req \notin {"INVITE", "REINVITE"} /\ ~sess.tmr /\ ~sess.awaiting_answer
    BY <1>1, <2>1, <2>2 DEF Fine, Sound, Steady, Talking, Sessions
  <2>4. /\ Fine(Reply2xx(sess, 0, awaiting, ok))
        /\ Carried(sess, Reply2xx(sess, 0, awaiting, ok))
    BY <1>1, <2>2, <2>3, Reply2xxFine
  <2>. QED BY <1>1, <2>1, <2>4 DEF Lawful
<1>5. CASE Modify(ok)
  <2>. DEFINE s == [sess EXCEPT !.desc = TRUE]
              t == [s EXCEPT !.modify_pending = TRUE]
  <2>1. /\ ~sess.st /\ sess.terminated = 0
        /\ sess' = IF s.req # "none" \/ s.tmr \/ s.replies # <<>> THEN t ELSE Reinvite(s, ok)
    BY <1>5 DEF Modify
  <2>2. s \in Sessions /\ t \in Sessions
    BY <1>1, SessionsAre, Ranges DEF Records
  <2>3. Counted(s) /\ Counted(t)
    <3>1. /\ s.refs = sess.refs /\ s.user = sess.user /\ s.terminated = 0
          /\ t.refs = sess.refs /\ t.user = sess.user /\ t.terminated = 0
      BY <1>1, <2>1 DEF Sessions
    <3>. HIDE DEF s, t
    <3>. QED BY <2>1, <3>1, SameCount DEF Fine, Sound, Steady
  <2>4. /\ Quiet(s) /\ Over(s) /\ Known(s) /\ Told(s) /\ Talking(s)
        /\ Quiet(t) /\ Over(t) /\ Known(t) /\ Told(t) /\ Talking(t)
    BY <1>1, <2>1 DEF Fine, Sound, Steady, Quiet, Over, Known, Told, Talking, Sessions
  <2>5. /\ s.mem = "live" /\ s.refs > 0 /\ s.terminated = 0 /\ ~s.st
        /\ Alive(t) /\ Carried(sess, t)
    BY <1>1, <2>1 DEF Fine, Alive, Carried, Sessions
  <2>6. ASSUME NEW r, Carried(s, r) PROVE Carried(sess, r)
    BY <1>1, <2>6 DEF Carried, Sessions
  <2>7. CASE s.req # "none" \/ s.tmr \/ s.replies # <<>>
    <3>1. Pending(t)
      BY <1>1, <2>7 DEF Pending, Sessions
    <3>2. sess' = t
      BY <2>1, <2>7
    <3>. HIDE DEF t
    <3>. QED BY <1>1, <2>2, <2>3, <2>4, <2>5, <3>1, <3>2 DEF Fine, Sound, Steady, Lawful
  <2>8. CASE s.req = "none" /\ ~s.tmr /\ s.replies = <<>>
    <3>1. sess' = Reinvite(s, ok)
      BY <2>1, <2>8
    <3>2. Fine(Reinvite(s, ok)) /\ Carried(s, Reinvite(s, ok))
      <4>. HIDE DEF s
      <4>. QED BY <2>2, <2>3, <2>4, <2>5, <2>8, ReinviteFine DEF Sound, Steady
    <3>. QED BY <1>1, <2>6, <3>1, <3>2 DEF Lawful
  <2>. QED BY <2>7, <2>8
<1>6. CASE Info
  <2>. DEFINE t == [sess EXCEPT !.infos = @ + 1]
  <2>1. sess' = t /\ sess.terminated = 0
    BY <1>6 DEF Info
  <2>2. t \in Sessions
    <3>1. sess.infos + 1 \in Counter
      BY <1>1 DEF Sessions, Counter
    <3>. QED BY <1>1, <3>1, SessionsAre DEF Records
  <2>3. Counted(t)
    <3>1. t.refs = sess.refs /\ t.user = sess.user /\ t.terminated = 0
      BY <1>1, <2>1 DEF Sessions
    <3>. HIDE DEF t
    <3>. QED BY <2>1, <3>1, SameCount DEF Fine, Sound, Steady
  <2>4. Quiet(t) /\ Over(t) /\ Known(t) /\ Told(t) /\ Talking(t)
    BY <1>1, <2>1 DEF Fine, Sound, Steady, Quiet, Over, Known, Told, Talking, Sessions
  <2>5. Pending(t) /\ Alive(t) /\ Carried(sess, t)
    BY <1>1 DEF Fine, Pending, Alive, Carried, Sessions
  <2>. HIDE DEF t
  <2>. QED BY <1>1, <2>1, <2>2, <2>3, <2>4, <2>5 DEF Sound, Steady, Fine, Lawful
<1>7. CASE LetGo(ok)
  <2>1. sess' = UserDeref(sess, ok)
    BY <1>7 DEF LetGo
  <2>2. /\ Fine(UserDeref(sess, ok)) /\ UserDeref(sess, ok).mem # "none"
        /\ ~UserDeref(sess, ok).user /\ Ends([sess EXCEPT !.user = FALSE], UserDeref(sess, ok))
    BY <1>1, UserDerefFine DEF Fine
  <2>3. Carried(sess, UserDeref(sess, ok))
    BY <1>1, <2>2 DEF Carried, Ends, Sessions
  <2>. QED BY <1>1, <2>1, <2>2, <2>3 DEF Lawful
<1>. QED BY <1>3, <1>4, <1>5, <1>6, <1>7

\* one of the things a terminated session waits for is over: the handler
\* has the reference that was taken for it
LEMMA WaitOver ==
  ASSUME NEW s \in Sessions, NEW t \in Sessions, Counted(s), s.terminated > 0,
         t.terminated = s.terminated, t.user = s.user, t.refs = s.refs - 1,
         Waits(t) = Waits(s) - 1
  PROVE  Counted(t) /\ s.refs > 0
<1>1. /\ s.refs \in Nat /\ Waits(s) \in Nat /\ Waits(t) \in Nat
      /\ One(s.user) \in {0, 1} /\ s.refs = One(s.user) + Waits(s)
  BY Counts DEF Counted
<1>2. Waits(s) > 0
  BY <1>1
<1>. QED BY <1>1, <1>2 DEF Counted

LEMMA DoneSound ==
  ASSUME Fine(sess), sess.req # "none"
  PROVE  /\ sess.mem = "live" /\ Done \in Sessions /\ Done.mem = "live"
         /\ Done.terminated = sess.terminated
         /\ sess.terminated = 0 => Sound(Done) /\ Done.user
         /\ sess.terminated > 0 => Sound([Done EXCEPT !.refs = @ - 1]) /\ Done.refs > 0
<1>1. sess.mem = "live" /\ sess \in Sessions /\ Done \in Sessions
  BY AtRest, SessionsAre, Ranges DEF Fine, Sound, Steady, Records, Done
<1>2. Done.mem = "live" /\ Done.terminated = sess.terminated
  BY <1>1 DEF Sessions, Done
<1>3. ASSUME sess.terminated = 0 PROVE Sound(Done) /\ Done.user
  <2>1. Counted(Done)
    <3>1. Done.refs = sess.refs /\ Done.user = sess.user /\ Done.terminated = 0
      BY <1>1, <1>3 DEF Sessions, Done
    <3>. QED BY <1>3, <3>1, SameCount DEF Fine, Sound, Steady
  <2>2. Quiet(Done) /\ Over(Done) /\ Known(Done) /\ Told(Done) /\ Talking(Done)
    BY <1>1, <1>3 DEF Fine, Sound, Steady, Quiet, Over, Known, Told, Talking, Sessions, Done
  <2>3. Done.user
    BY <1>1, <1>3, Held DEF Done, Sessions
  <2>. QED BY <1>1, <2>1, <2>2, <2>3 DEF Sound, Steady
<1>4. ASSUME sess.terminated > 0
      PROVE  Sound([Done EXCEPT !.refs = @ - 1]) /\ Done.refs > 0
  <2>. DEFINE t == [Done EXCEPT !.refs = @ - 1]
  <2>1. sess.refs > 0 /\ sess.refs \in Nat
    BY <1>1 DEF Fine, Alive, Sessions
  <2>2. t \in Sessions /\ Done.refs = sess.refs
    <3>1. sess.refs - 1 \in Counter
      BY <2>1 DEF Counter
    <3>. QED BY <1>1, <3>1, SessionsAre, Ranges DEF Records, Done
  <2>3. Counted(t)
    <3>1. t.terminated = sess.terminated /\ t.user = sess.user /\ t.refs = sess.refs - 1
      BY <1>1 DEF Sessions, Done
    <3>2. Waits(t) = Waits(sess) - 1
      <4>1. t.req = "none" /\ t.replies = sess.replies /\ t.infos = sess.infos
        BY <1>1 DEF Sessions, Done
      <4>2. One(t.req # "none") = 0 /\ One(sess.req # "none") = 1
        BY <4>1 DEF One
      <4>3. One(sess.replies # <<>>) \in Nat /\ One(sess.infos > 0) \in Nat
        BY DEF One
      <4>. HIDE DEF t
      <4>. QED BY <4>1, <4>2, <4>3 DEF Waits
    <3>. HIDE DEF t
    <3>. QED BY <1>1, <1>4, <2>2, <3>1, <3>2, WaitOver DEF Fine, Sound, Steady
  <2>4. Quiet(t) /\ Over(t) /\ Known(t) /\ Told(t) /\ Talking(t)
    BY <1>1, <1>4 DEF Fine, Sound, Steady, Quiet, Over, Known, Told, Talking, Sessions, Done
  <2>. QED BY <2>1, <2>2, <2>3, <2>4 DEF Sound, Steady
<1>. QED BY <1>1, <1>2, <1>3, <1>4

\* estabh is called
LEMMA ToldUpFine ==
  ASSUME NEW x, Fine(x), x.mem = "live", x.terminated = 0, x.established, x.news = <<>>,
         NEW t, t = [x EXCEPT !.news = Append(@, "up")]
  PROVE  /\ Fine(t) /\ t.mem = "live" /\ t.news = <<"up">> /\ t.user = x.user
         /\ t.accepted = x.accepted /\ t.peerterm = x.peerterm /\ t.byed = x.byed
<1>1. x \in Sessions /\ t.news = <<"up">>
  BY News DEF Fine, Sound, Steady, Sessions
<1>2. t \in Sessions
  <2>1. Append(x.news, "up") \in NewsLog
    BY News
  <2>. QED BY <1>1, <2>1, SessionsAre DEF Records
<1>3. /\ t.refs = x.refs /\ t.user = x.user /\ t.terminated = 0 /\ t.mem = "live"
      /\ t.established /\ t.accepted = x.accepted /\ t.peerterm = x.peerterm
      /\ t.byed = x.byed
  BY <1>1 DEF Sessions
<1>4. Quiet(t) /\ Over(t) /\ Known(t) /\ Talking(t) /\ Pending(t) /\ Alive(t)
  BY <1>1 DEF Fine, Sound, Steady, Quiet, Over, Known, Talking, Pending, Alive, Sessions
<1>5. Counted(t) /\ Told(t)
  BY <1>1, <1>3, SameCount DEF Fine, Sound, Steady, Told
<1>. QED BY <1>1, <1>2, <1>3, <1>4, <1>5 DEF Fine, Sound, Steady

LEMMA InviteFine ==
  ASSUME Fine(sess), NEW created \in BOOLEAN, NEW agreed \in BOOLEAN,
         NEW ok \in BOOLEAN, NEW drop \in BOOLEAN,
         \/ InviteAccepted(created, agreed, ok, drop)
         \/ InviteAgain(ok, drop) \/ InviteFailed(ok, drop)
  PROVE  Fine(sess)' /\ Lawful(sess, sess')
<1>1. /\ sess.req = "INVITE" /\ sess.mem = "live" /\ sess \in Sessions
      /\ Done \in Sessions /\ Done.mem = "live" /\ Done.terminated = sess.terminated
      /\ sess.terminated = 0 => Sound(Done) /\ Done.user
      /\ sess.terminated > 0 => Sound([Done EXCEPT !.refs = @ - 1]) /\ Done.refs > 0
  BY DoneSound DEF InviteAccepted, InviteAgain, InviteFailed, Fine, Sound, Steady
<1>2. ASSUME sess' = Ended(Done, ok, drop) PROVE Fine(sess)' /\ Lawful(sess, sess')
  <2>1. Fine(Ended(Done, ok, drop)) /\ Carried(Done, Ended(Done, ok, drop))
    BY <1>1, EndedFine
  <2>2. Carried(sess, Ended(Done, ok, drop))
    BY <1>1, <2>1 DEF Carried, Done, Sessions
  <2>. QED BY <1>1, <1>2, <2>1, <2>2 DEF Lawful
<1>3. CASE InviteFailed(ok, drop)
  BY <1>2, <1>3 DEF InviteFailed
<1>4. CASE InviteAgain(ok, drop)
  <2>. DEFINE s == Invited(Done, "INVITE", ok)
              q == IF ok THEN "INVITE" ELSE "none"
  <2>1. sess.terminated = 0 /\ sess' = IF ok THEN s ELSE Ended(s, ok, drop)
    BY <1>4 DEF InviteAgain
  <2>2. s = [Done EXCEPT !.sent_offer = Done.desc, !.modify_pending = FALSE,
                         !.req = q]
    BY DEF Invited
  <2>q. q \in {"INVITE", "none"} /\ q \in Requests
    BY Ranges
  <2>. HIDE DEF q, s
  <2>3. s \in Sessions
    <3>1. Done.desc \in Flag
      BY <1>1, SessionsAre DEF Records
    <3>. QED BY <1>1, <2>2, <2>q, <3>1, SessionsAre, Ranges DEF Records
  <2>4. /\ s.refs = Done.refs /\ s.user = Done.user /\ s.terminated = 0 /\ s.mem = "live"
        /\ s.news = sess.news /\ s.user = sess.user /\ s.refs = sess.refs
        /\ s.accepted = sess.accepted /\ s.peerterm = sess.peerterm /\ s.byed = sess.byed
    BY <1>1, <2>1, <2>2 DEF Sessions, Done
  <2>5. Counted(s)
    <3>. HIDE DEF s
    <3>. QED BY <1>1, <2>1, <2>4, SameCount DEF Sound, Steady
  <2>6. Quiet(s) /\ Over(s) /\ Known(s) /\ Told(s) /\ Talking(s) /\ Pending(s)
    BY <1>1, <2>1, <2>2, <2>q
    DEF Fine, Sound, Steady, Quiet, Over, Known, Told, Talking, Pending, Sessions, Done
  <2>7. Sound(s)
    BY <2>3, <2>5, <2>6 DEF Sound, Steady
  <2>8. CASE ok
    <3>1. sess' = s
      BY <2>1, <2>8
    <3>2. Alive(s) /\ Carried(sess, s)
      BY <1>1, <2>4 DEF Fine, Alive, Carried
    <3>. QED BY <1>1, <2>6, <2>7, <3>1, <3>2 DEF Fine, Lawful
  <2>9. CASE ~ok
    <3>1. sess' = Ended(s, ok, drop)
      BY <2>1, <2>9
    <3>2. Fine(Ended(s, ok, drop)) /\ Carried(s, Ended(s, ok, drop))
      <4>1. s.user /\ ~(s.terminated > 0)
        BY <1>1, <2>1, <2>4
      <4>. QED BY <2>3, <2>4, <2>7, <4>1, EndedFine
    <3>3. Carried(sess, Ended(s, ok, drop))
      BY <2>4, <3>2 DEF Carried
    <3>. QED BY <1>1, <3>1, <3>2, <3>3 DEF Lawful
  <2>. QED BY <2>8, <2>9
<1>5. CASE InviteAccepted(created, agreed, ok, drop)
  <2>. DEFINE s == [Done EXCEPT !.modify_pending = @ /\ sess.sent_offer,
                                !.established = TRUE, !.accepted = TRUE, !.rtag = TRUE]
              d == [s EXCEPT !.refs = @ - 1]
              e == [Done EXCEPT !.refs = @ - 1]
              x == IF s.modify_pending THEN Reinvite(s, ok) ELSE [s EXCEPT !.desc = FALSE]
  <2>1. /\ ~created => sess' = Ended(Done, ok, drop)
        /\ created /\ (~agreed \/ s.terminated > 0) => sess' = Ended(s, ok, drop)
        /\ created /\ agreed /\ ~(s.terminated > 0) => sess' = [x EXCEPT !.news = Append(@, "up")]
    BY <1>5 DEF InviteAccepted
  <2>2. s \in Sessions
    <3>1. (Done.modify_pending /\ sess.sent_offer) \in Flag
      BY DEF Flag
    <3>. QED BY <1>1, <3>1, SessionsAre, Ranges DEF Records
  <2>3. /\ s.refs = Done.refs /\ s.user = Done.user /\ s.terminated = Done.terminated
        /\ s.mem = "live" /\ s.req = "none" /\ s.replies = Done.replies /\ s.st = Done.st
        /\ s.news = sess.news /\ s.user = sess.user /\ s.refs = sess.refs
        /\ s.accepted /\ s.peerterm = sess.peerterm /\ s.byed = sess.byed
        /\ s.established /\ Done.replies = sess.replies /\ Done.st = sess.st
    BY <1>1 DEF Sessions, Done
  <2>4. ASSUME sess.terminated = 0 PROVE Sound(s)
    <3>1. Counted(s)
      <4>. HIDE DEF s
      <4>. QED BY <1>1, <2>3, <2>4, SameCount DEF Sound, Steady
    <3>2. Quiet(s) /\ Over(s) /\ Known(s) /\ Told(s) /\ Talking(s)
      BY <1>1, <2>4
      DEF Fine, Sound, Steady, Quiet, Over, Known, Told, Talking, Sessions, Done
    <3>. QED BY <2>2, <3>1, <3>2 DEF Sound, Steady
  <2>5. ASSUME sess.terminated > 0 PROVE Sound(d)
    <3>1. /\ d.refs = e.refs /\ d.user = e.user /\ d.terminated = e.terminated
          /\ d.req = e.req /\ d.replies = e.replies /\ d.infos = e.infos
      BY <1>1 DEF Sessions, Done
    <3>2. Counted(d)
      <4>1. Waits(d) = Waits(e)
        BY <3>1 DEF Waits
      <4>2. Counted(e)
        BY <1>1, <2>5 DEF Sound, Steady
      <4>. HIDE DEF d, e
      <4>. QED BY <3>1, <4>1, <4>2 DEF Counted
    <3>3. d \in Sessions
      <4>1. e.refs \in Counter /\ e.refs = Done.refs - 1
        BY <1>1, <2>5, SessionsAre DEF Sound, Steady, Records
      <4>. HIDE DEF e
      <4>. QED BY <2>2, <2>3, <4>1, SessionsAre DEF Records
    <3>4. Quiet(d) /\ Over(d) /\ Known(d) /\ Told(d) /\ Talking(d)
      BY <1>1, <2>5 DEF Fine, Sound, Steady, Quiet, Over, Known, Told, Talking, Sessions, Done
    <3>. QED BY <3>2, <3>3, <3>4 DEF Sound, Steady
  <2>. HIDE DEF d, e
  <2>6. CASE created /\ (~agreed \/ s.terminated > 0)
    <3>1. Fine(Ended(s, ok, drop)) /\ Carried(s, Ended(s, ok, drop))
      <4>. HIDE DEF s
      <4>. QED BY <1>1, <2>2, <2>3, <2>4, <2>5, EndedFine DEF d
    <3>2. Carried(sess, Ended(s, ok, drop))
      <4>. HIDE DEF s
      <4>. QED BY <2>3, <3>1 DEF Carried
    <3>. QED BY <1>1, <2>1, <2>6, <3>1, <3>2 DEF Lawful
  <2>7. CASE created /\ agreed /\ ~(s.terminated > 0)
    <3>. DEFINE t == [x EXCEPT !.news = Append(@, "up")]
    <3>1. sess.terminated = 0 /\ sess' = t /\ Sound(s)
      BY <1>1, <2>1, <2>3, <2>4, <2>7 DEF Sessions
    <3>2. sess.news = <<>> /\ sess.replies = <<>> /\ ~sess.st /\ sess.user
      BY <1>1, <3>1, Held DEF Fine, Sound, Steady, Known, Told, Talking
    <3>3. /\ Fine(x) /\ Carried(s, x) /\ x.news = <<>> /\ x.terminated = 0
          /\ x.established /\ x.user = s.user /\ x.mem = "live"
      <4>1. CASE s.modify_pending
        <5>1. s.refs > 0
          BY <1>1, <2>3 DEF Fine, Alive
        <5>2. x = Reinvite(s, ok)
          BY <4>1
        <5>. HIDE DEF s, x
        <5>3. s.mem = "live" /\ s.terminated = 0 /\ s.replies = <<>> /\ ~s.st
          BY <1>1, <2>3, <3>1, <3>2
        <5>4. /\ Fine(Reinvite(s, ok)) /\ Carried(s, Reinvite(s, ok))
              /\ Reinvite(s, ok).news = s.news /\ Reinvite(s, ok).terminated = 0
              /\ Reinvite(s, ok).established = s.established
              /\ Reinvite(s, ok).user = s.user /\ Reinvite(s, ok).mem = "live"
          BY <3>1, <5>1, <5>3, ReinviteFine
        <5>. QED BY <2>3, <3>2, <5>2, <5>4
      <4>2. CASE ~s.modify_pending
        <5>. DEFINE y == [s EXCEPT !.desc = FALSE]
        <5>1. x = y
          BY <4>2
        <5>2. y \in Sessions
          BY <2>2, SessionsAre, Ranges DEF Records
        <5>3. /\ y.refs = s.refs /\ y.user = s.user /\ y.terminated = 0 /\ y.mem = "live"
              /\ y.established /\ y.news = <<>> /\ ~y.modify_pending
          BY <2>2, <2>3, <3>1, <3>2, <4>2, <1>1 DEF Sessions
        <5>4. Quiet(y) /\ Over(y) /\ Known(y) /\ Told(y) /\ Talking(y) /\ Carried(s, y)
          <6>. HIDE DEF s
          <6>. QED BY <2>2, <2>3, <3>1
               DEF Sound, Steady, Quiet, Over, Known, Told, Talking, Carried, Sessions
        <5>. HIDE DEF y, s, x
        <5>5. Counted(y)
          BY <1>1, <2>3, <3>1, <5>3, SameCount DEF Sound, Steady
        <5>6. Pending(y) /\ Alive(y)
          BY <1>1, <2>3, <5>3 DEF Fine, Alive, Pending
        <5>. QED BY <5>1, <5>2, <5>3, <5>4, <5>5, <5>6 DEF Fine, Sound, Steady
      <4>. QED BY <4>1, <4>2
    <3>. HIDE DEF s, x
    <3>4. /\ Fine(t) /\ t.mem = "live" /\ t.news = <<"up">> /\ t.user = x.user
          /\ t.accepted = x.accepted /\ t.peerterm = x.peerterm /\ t.byed = x.byed
      BY <3>3, ToldUpFine
    <3>. HIDE DEF t
    <3>9. Carried(sess, t)
      BY <2>3, <3>2, <3>3, <3>4 DEF Carried, Heard
    <3>. QED BY <1>1, <3>1, <3>4, <3>9 DEF Lawful
  <2>8. CASE ~created
    BY <1>2, <2>1, <2>8
  <2>. QED BY <2>6, <2>7, <2>8
<1>. QED BY <1>3, <1>4, <1>5

LEMMA ReinviteDoneFine ==
  ASSUME NEW s \in Sessions, s.mem = "live", s.refs > 0, NEW ok \in BOOLEAN,
         s.terminated = 0 => Sound(s) /\ s.replies = <<>> /\ ~s.st,
         s.terminated > 0 => Sound([s EXCEPT !.refs = @ - 1])
  PROVE  Fine(ReinviteDone(s, ok)) /\ Carried(s, ReinviteDone(s, ok))
<1>1. CASE s.terminated > 0
  <2>1. Pending(s) /\ ReinviteDone(s, ok) = Deref(s, ok)
    BY <1>1 DEF Pending, ReinviteDone
  <2>2. Fine(Deref(s, ok)) /\ Ends(s, Deref(s, ok)) /\ Deref(s, ok).mem # "none"
    BY <1>1, <2>1, DerefFine
  <2>. QED BY <2>1, <2>2 DEF Ends, Carried
<1>2. CASE s.terminated = 0 /\ s.modify_pending
  <2>1. ReinviteDone(s, ok) = Reinvite(s, ok)
    BY <1>2 DEF ReinviteDone
  <2>. QED BY <1>2, <2>1, ReinviteFine
<1>3. CASE s.terminated = 0 /\ ~s.modify_pending
  <2>. DEFINE t == [s EXCEPT !.desc = FALSE]
  <2>1. ReinviteDone(s, ok) = t
    BY <1>3 DEF ReinviteDone
  <2>2. t \in Sessions
    BY SessionsAre, Ranges DEF Records
  <2>3. t.refs = s.refs /\ t.user = s.user /\ t.terminated = 0 /\ t.mem = "live"
    BY <1>3 DEF Sessions
  <2>4. Quiet(t) /\ Over(t) /\ Known(t) /\ Told(t) /\ Talking(t) /\ Pending(t) /\ Carried(s, t)
    BY <1>3 DEF Sound, Steady, Quiet, Over, Known, Told, Talking, Pending, Carried, Sessions
  <2>. HIDE DEF t
  <2>5. Counted(t) /\ Alive(t)
    BY <1>3, <2>3, SameCount DEF Sound, Steady, Alive
  <2>. QED BY <2>1, <2>2, <2>4, <2>5 DEF Fine, Sound, Steady
<1>. QED BY <1>1, <1>2, <1>3 DEF Sessions

LEMMA ReinviteOutcomeFine ==
  ASSUME Fine(sess), NEW class, NEW ok \in BOOLEAN, NEW drop \in BOOLEAN,
         ReinviteOutcome(class, ok, drop)
  PROVE  Fine(sess)' /\ Lawful(sess, sess')
<1>1. /\ sess.req = "REINVITE" /\ sess.mem = "live" /\ sess \in Sessions
      /\ Done \in Sessions /\ Done.mem = "live" /\ Done.terminated = sess.terminated
      /\ sess.terminated = 0 => Sound(Done) /\ Done.user
      /\ sess.terminated > 0 => Sound([Done EXCEPT !.refs = @ - 1]) /\ Done.refs > 0
  BY DoneSound DEF ReinviteOutcome, Fine, Sound, Steady
<1>2. /\ sess.terminated = 0 => Done.replies = <<>> /\ ~Done.st
      /\ Done.refs = sess.refs /\ sess.refs > 0 /\ Done.news = sess.news
      /\ Done.user = sess.user /\ Done.accepted = sess.accepted
      /\ Done.peerterm = sess.peerterm /\ Done.byed = sess.byed
  BY <1>1 DEF Fine, Sound, Steady, Alive, Talking, Done, Sessions
<1>3. ASSUME NEW r, Carried(Done, r) PROVE Carried(sess, r)
  BY <1>2, <1>3 DEF Carried
<1>4. ASSUME sess' = ReinviteDone(Done, ok) PROVE Fine(sess)' /\ Lawful(sess, sess')
  <2>1. Fine(ReinviteDone(Done, ok)) /\ Carried(Done, ReinviteDone(Done, ok))
    BY <1>1, <1>2, ReinviteDoneFine
  <2>. QED BY <1>1, <1>3, <1>4, <2>1 DEF Lawful
<1>5. CASE class = "2xx"
  <2>. DEFINE s == [Done EXCEPT !.modify_pending = @ /\ sess.sent_offer]
              d == [s EXCEPT !.refs = @ - 1]
              e == [Done EXCEPT !.refs = @ - 1]
  <2>1. sess' = ReinviteDone(s, ok)
    BY <1>5 DEF ReinviteOutcome
  <2>2. s \in Sessions
    <3>1. (Done.modify_pending /\ sess.sent_offer) \in Flag
      BY DEF Flag
    <3>. QED BY <1>1, <3>1, SessionsAre, Ranges DEF Records
  <2>3. /\ s.refs = Done.refs /\ s.user = Done.user /\ s.terminated = Done.terminated
        /\ s.mem = "live" /\ s.replies = Done.replies /\ s.st = Done.st
        /\ s.news = Done.news /\ s.accepted = Done.accepted
        /\ s.peerterm = Done.peerterm /\ s.byed = Done.byed
    BY <1>1 DEF Sessions
  <2>4. ASSUME sess.terminated = 0 PROVE Sound(s)
    <3>1. Counted(s)
      <4>. HIDE DEF s
      <4>. QED BY <1>1, <2>3, <2>4, SameCount DEF Sound, Steady
    <3>2. Quiet(s) /\ Over(s) /\ Known(s) /\ Told(s) /\ Talking(s)
      BY <1>1, <2>4 DEF Sound, Steady, Quiet, Over, Known, Told, Talking, Sessions
    <3>. QED BY <2>2, <3>1, <3>2 DEF Sound, Steady
  <2>5. ASSUME sess.terminated > 0 PROVE Sound(d)
    <3>1. /\ d.refs = e.refs /\ d.user = e.user /\ d.terminated = e.terminated
          /\ d.req = e.req /\ d.replies = e.replies /\ d.infos = e.infos
      BY <1>1 DEF Sessions
    <3>2. Counted(d)
      <4>1. Waits(d) = Waits(e)
        BY <3>1 DEF Waits
      <4>2. Counted(e)
        BY <1>1, <2>5 DEF Sound, Steady
      <4>. HIDE DEF d, e
      <4>. QED BY <3>1, <4>1, <4>2 DEF Counted
    <3>3. d \in Sessions
      <4>1. e.refs \in Counter /\ e.refs = Done.refs - 1
        BY <1>1, <2>5, SessionsAre DEF Sound, Steady, Records
      <4>. HIDE DEF e
      <4>. QED BY <2>2, <2>3, <4>1, SessionsAre DEF Records
    <3>4. Quiet(d) /\ Over(d) /\ Known(d) /\ Told(d) /\ Talking(d)
      BY <1>1, <2>5 DEF Fine, Sound, Steady, Quiet, Over, Known, Told, Talking, Sessions, Done
    <3>. QED BY <3>2, <3>3, <3>4 DEF Sound, Steady
  <2>6. Fine(ReinviteDone(s, ok)) /\ Carried(s, ReinviteDone(s, ok))
    <3>. HIDE DEF s
    <3>. QED BY <1>1, <1>2, <2>2, <2>3, <2>4, <2>5, ReinviteDoneFine
  <2>. HIDE DEF s
  <2>7. Carried(Done, ReinviteDone(s, ok))
    BY <2>3, <2>6 DEF Carried
  <2>. QED BY <1>1, <1>3, <2>1, <2>6, <2>7 DEF Lawful
<1>6. CASE class = "auth" /\ sess.terminated = 0
  <2>1. ASSUME NEW b \in BOOLEAN
        PROVE  /\ Fine(Reinvite(Done, b)) /\ Carried(Done, Reinvite(Done, b))
               /\ Reinvite(Done, b).news = Done.news /\ Reinvite(Done, b).terminated = 0
               /\ Reinvite(Done, b).user = Done.user /\ Reinvite(Done, b).mem = "live"
               /\ Reinvite(Done, b).replies = <<>>
    BY <1>1, <1>2, <1>6, ReinviteFine
  <2>2. CASE ok
    <3>1. sess' = Reinvite(Done, TRUE)
      BY <1>6, <2>2 DEF ReinviteOutcome
    <3>. QED BY <1>1, <1>3, <2>1, <3>1 DEF Lawful
  <2>3. CASE ~ok
    <3>. DEFINE s == Reinvite(Done, FALSE)
    <3>1. sess' = ReinviteDone(s, ok)
      BY <1>6, <2>3 DEF ReinviteOutcome
    <3>2. ~s.st
      <4>1. s.st = Done.st
        BY <1>1 DEF Reinvite, Invited, Sessions
      <4>. QED BY <1>2, <1>6, <4>1
    <3>3. /\ Fine(s) /\ s.terminated = 0 /\ s.mem = "live" /\ s.replies = <<>> /\ Carried(Done, s)
          /\ s.news = Done.news /\ s.user = Done.user
      BY <2>1
    <3>. HIDE DEF s
    <3>4. Fine(ReinviteDone(s, ok)) /\ Carried(s, ReinviteDone(s, ok))
      <4>1. Sound(s) /\ s \in Sessions /\ s.refs > 0 /\ ~(s.terminated > 0)
        BY <3>3 DEF Fine, Sound, Steady, Alive
      <4>. QED BY <3>2, <3>3, <4>1, ReinviteDoneFine
    <3>5. Carried(Done, ReinviteDone(s, ok))
      BY <3>3, <3>4 DEF Carried
    <3>. QED BY <1>1, <1>3, <3>1, <3>4, <3>5 DEF Lawful
  <2>. QED BY <2>2, <2>3
<1>7. CASE class \in {"481", "timeout"}
  <2>1. sess' = Ended(Done, ok, drop)
    BY <1>7 DEF ReinviteOutcome
  <2>2. Fine(Ended(Done, ok, drop)) /\ Carried(Done, Ended(Done, ok, drop))
    BY <1>1, EndedFine
  <2>. QED BY <1>1, <1>3, <2>1, <2>2 DEF Lawful
<1>8. CASE class = "later" /\ sess.terminated = 0
  <2>. DEFINE t == [Done EXCEPT !.tmr = TRUE]
  <2>1. sess' = t
    BY <1>8 DEF ReinviteOutcome
  <2>2. t \in Sessions
    BY <1>1, SessionsAre, Ranges DEF Records
  <2>3. /\ t.refs = Done.refs /\ t.user = Done.user /\ t.terminated = 0 /\ t.mem = "live"
        /\ Done.terminated = 0
    BY <1>1, <1>8 DEF Sessions
  <2>4. Quiet(t) /\ Over(t) /\ Known(t) /\ Told(t) /\ Talking(t) /\ Pending(t) /\ Carried(Done, t)
    BY <1>1, <1>2, <1>8
    DEF Sound, Steady, Quiet, Over, Known, Told, Talking, Pending, Carried, Sessions
  <2>. HIDE DEF t
  <2>5. Counted(t) /\ Alive(t)
    BY <1>1, <1>2, <1>8, <2>3, SameCount DEF Sound, Steady, Alive
  <2>. QED BY <1>1, <1>3, <2>1, <2>2, <2>4, <2>5 DEF Fine, Sound, Steady, Lawful
<1>9. CASE /\ class \notin {"2xx", "481", "timeout"}
           /\ ~(class = "auth" /\ sess.terminated = 0)
           /\ ~(class = "later" /\ sess.terminated = 0)
  <2>1. sess' = ReinviteDone(Done, ok)
    BY <1>9 DEF ReinviteOutcome
  <2>. QED BY <1>4, <2>1
<1>. QED BY <1>5, <1>6, <1>7, <1>8, <1>9

LEMMA ReinviteTimerFine ==
  ASSUME Fine(sess), NEW ok \in BOOLEAN, ReinviteTimer(ok)
  PROVE  Fine(sess)' /\ Lawful(sess, sess')
<1>. DEFINE s == [sess EXCEPT !.tmr = FALSE]
<1>1. sess.tmr /\ sess' = Reinvite(s, ok) /\ sess.mem = "live" /\ sess \in Sessions
  BY AtRest DEF ReinviteTimer, Fine, Sound, Steady
<1>2. sess.terminated = 0 /\ sess.replies = <<>> /\ ~sess.st
  BY <1>1 DEF Fine, Sound, Steady, Quiet, Talking, Sessions
<1>3. s \in Sessions
  BY <1>1, SessionsAre, Ranges DEF Records
<1>4. /\ s.refs = sess.refs /\ s.user = sess.user /\ s.terminated = 0 /\ s.mem = "live"
      /\ s.replies = <<>> /\ ~s.st /\ s.news = sess.news /\ s.accepted = sess.accepted
      /\ s.peerterm = sess.peerterm /\ s.byed = sess.byed /\ s.refs > 0
  BY <1>1, <1>2 DEF Sessions, Fine, Alive
<1>5. Quiet(s) /\ Over(s) /\ Known(s) /\ Told(s) /\ Talking(s)
  BY <1>1, <1>2 DEF Fine, Sound, Steady, Quiet, Over, Known, Told, Talking, Sessions
<1>. HIDE DEF s
<1>6. Counted(s)
  BY <1>2, <1>4, SameCount DEF Fine, Sound, Steady
<1>7. Fine(Reinvite(s, ok)) /\ Carried(s, Reinvite(s, ok))
  BY <1>3, <1>4, <1>5, <1>6, ReinviteFine DEF Sound, Steady
<1>8. Carried(sess, Reinvite(s, ok))
  BY <1>4, <1>7 DEF Carried
<1>. QED BY <1>1, <1>7, <1>8 DEF Lawful

LEMMA ByeOutcomeFine ==
  ASSUME Fine(sess), NEW class, NEW ok \in BOOLEAN, ByeOutcome(class, ok)
  PROVE  Fine(sess)' /\ Lawful(sess, sess')
<1>1. /\ sess.req = "BYE" /\ sess.mem = "live" /\ sess \in Sessions
      /\ Done \in Sessions /\ Done.mem = "live" /\ Done.terminated = sess.terminated
      /\ sess.terminated > 0 => Sound([Done EXCEPT !.refs = @ - 1]) /\ Done.refs > 0
  BY DoneSound DEF ByeOutcome, Fine, Sound, Steady
<1>2. sess.terminated = 2
  BY <1>1 DEF Fine, Sound, Steady, Over
<1>3. CASE sess' = sess
  BY <1>1, <1>3 DEF Lawful, Carried
<1>4. CASE sess' = Deref(Done, ok)
  <2>1. Pending(Done)
    BY <1>1, <1>2 DEF Pending
  <2>2. Fine(Deref(Done, ok)) /\ Ends(Done, Deref(Done, ok)) /\ Deref(Done, ok).mem # "none"
    BY <1>1, <1>2, <2>1, DerefFine
  <2>3. Carried(sess, Deref(Done, ok))
    BY <1>1, <2>2 DEF Carried, Ends, Done, Sessions
  <2>. QED BY <1>1, <1>4, <2>2, <2>3 DEF Lawful
<1>. QED BY <1>3, <1>4 DEF ByeOutcome

\* the session after an INFO of its has ended
LEMMA InfoOutcomeFine ==
  ASSUME Fine(sess), NEW fatal \in BOOLEAN, NEW ok \in BOOLEAN, NEW drop \in BOOLEAN,
         InfoOutcome(fatal, ok, drop)
  PROVE  Fine(sess)' /\ Lawful(sess, sess')
<1>. DEFINE s == IF fatal THEN SipsessTerminate(sess, ok, drop) ELSE sess
            t == [s EXCEPT !.infos = @ - 1]
            d == [t EXCEPT !.refs = @ - 1]
<1>1. /\ sess.infos > 0 /\ sess.mem = "live" /\ sess \in Sessions
      /\ sess' = IF t.terminated > 0 /\ t.infos = 0 THEN Deref(t, ok) ELSE t
  BY AtRest DEF InfoOutcome, Fine, Sound, Steady
<1>2. Fine(s) /\ Carried(sess, s) /\ s.mem = "live" /\ s.infos > 0
  <2>1. CASE fatal /\ sess.terminated = 0
    <3>1. sess.user
      BY <1>1, <2>1, Held
    <3>. QED BY <1>1, <2>1, <3>1, SipsessTerminateFine DEF Fine, Sound
  <2>2. CASE ~(fatal /\ sess.terminated = 0)
    <3>1. s = sess
      BY <1>1, <2>2 DEF SipsessTerminate, Sessions
    <3>. QED BY <1>1, <3>1 DEF Carried
  <2>. QED BY <2>1, <2>2
<1>. HIDE DEF s
<1>3. s \in Sessions /\ s.infos \in Nat /\ s.refs \in Nat /\ s.refs > 0 /\ s.terminated # 2
  BY <1>2, Counts DEF Fine, Sound, Steady, Alive, Over, Sessions
<1>4. t \in Sessions
  <2>1. s.infos - 1 \in Counter
    BY <1>2, <1>3 DEF Counter
  <2>. QED BY <1>3, <2>1, SessionsAre DEF Records
<1>5. /\ t.refs = s.refs /\ t.user = s.user /\ t.terminated = s.terminated /\ t.mem = "live"
      /\ t.req = s.req /\ t.replies = s.replies /\ t.infos = s.infos - 1
      /\ t.news = s.news /\ t.accepted = s.accepted /\ t.peerterm = s.peerterm
      /\ t.byed = s.byed
  BY <1>2, <1>3 DEF Sessions
<1>6. Quiet(t) /\ Over(t) /\ Known(t) /\ Told(t) /\ Talking(t) /\ Pending(t)
  BY <1>2, <1>3 DEF Fine, Sound, Steady, Quiet, Over, Known, Told, Talking, Pending, Sessions
<1>7. ASSUME NEW r, Ends(t, r), r.mem # "none" PROVE Carried(sess, r)
  <2>. HIDE DEF t
  <2>. QED BY <1>2, <1>5, <1>7 DEF Carried, Ends
<1>8. CASE t.terminated > 0 /\ t.infos = 0
  <2>1. d \in Sessions
    <3>1. s.refs - 1 \in Counter
      BY <1>3 DEF Counter
    <3>. QED BY <1>4, <1>5, <3>1, SessionsAre DEF Records
  <2>2. Counted(d)
    <3>1. /\ d.terminated = s.terminated /\ d.user = s.user /\ d.refs = s.refs - 1
          /\ d.req = s.req /\ d.replies = s.replies /\ d.infos = 0
      BY <1>4, <1>5, <1>8 DEF Sessions
    <3>2. Waits(d) = Waits(s) - 1
      <4>1. One(s.infos > 0) = 1 /\ One(d.infos > 0) = 0
        BY <1>2, <3>1 DEF One
      <4>2. One(s.req # "none") \in Nat /\ One(s.replies # <<>>) \in Nat
        BY DEF One
      <4>. HIDE DEF d
      <4>. QED BY <3>1, <4>1, <4>2 DEF Waits
    <3>3. s.terminated > 0 /\ Counted(s)
      BY <1>2, <1>5, <1>8 DEF Fine, Sound, Steady
    <3>. HIDE DEF d
    <3>. QED BY <1>3, <2>1, <3>1, <3>2, <3>3, WaitOver
  <2>3. Sound(d)
    <3>1. Quiet(d) /\ Over(d) /\ Known(d) /\ Told(d) /\ Talking(d)
      <4>. HIDE DEF t
      <4>. QED BY <1>4, <1>6 DEF Quiet, Over, Known, Told, Talking, Sessions
    <3>. QED BY <2>1, <2>2, <3>1 DEF Sound, Steady
  <2>4. sess' = Deref(t, ok)
    BY <1>1, <1>8
  <2>. HIDE DEF t
  <2>5. Fine(Deref(t, ok)) /\ Ends(t, Deref(t, ok)) /\ Deref(t, ok).mem # "none"
    BY <1>3, <1>4, <1>5, <1>6, <2>3, DerefFine
  <2>. QED BY <1>1, <1>7, <2>4, <2>5 DEF Lawful
<1>9. CASE ~(t.terminated > 0 /\ t.infos = 0)
  <2>1. sess' = t /\ t.infos \in Nat /\ t.terminated \in 0..2
    BY <1>1, <1>4, <1>9 DEF Sessions
  <2>. HIDE DEF t
  <2>2. Counted(t)
    <3>1. CASE t.terminated = 0
      BY <1>2, <1>5, <3>1, SameCount DEF Fine, Sound, Steady
    <3>2. CASE t.terminated > 0
      <4>1. One(s.infos > 0) = One(t.infos > 0)
        BY <1>2, <1>9, <2>1, <3>2 DEF One
      <4>2. Waits(t) = Waits(s)
        BY <1>5, <4>1 DEF Waits
      <4>. QED BY <1>2, <1>5, <4>2 DEF Fine, Sound, Steady, Counted
    <3>. QED BY <2>1, <3>1, <3>2
  <2>3. Alive(t) /\ Ends(t, t)
    BY <1>3, <1>5 DEF Alive, Ends
  <2>4. Carried(sess, t)
    BY <1>5, <1>7, <2>3
  <2>. QED BY <1>1, <1>4, <1>6, <2>1, <2>2, <2>3, <2>4 DEF Fine, Sound, Steady, Lawful
<1>. QED BY <1>8, <1>9

(***************************************************************************)
(* The peer's requests                                                     *)
(***************************************************************************)
LEMMA PeerEndsFine ==
  ASSUME Fine(sess), NEW seq, NEW ok \in BOOLEAN, NEW drop \in BOOLEAN,
         CancelArrives(ok, drop) \/ ByeArrives(seq, ok, drop)
  PROVE  Fine(sess)' /\ Lawful(sess, sess')
<1>. DEFINE s == [sess EXCEPT !.peerterm = TRUE]
            t == [sess EXCEPT !.st = FALSE, !.peerterm = TRUE]
<1>1. sess \in Sessions /\ sess.mem = "live"
  BY AtRest DEF Fine, Sound, Steady, CancelArrives, ByeArrives, Found
<1>2. CASE sess.terminated = 0
  <2>1. sess' = SipsessTerminate(t, ok, drop)
    <3>1. [s EXCEPT !.st = FALSE] = t /\ s.terminated = 0
      BY <1>1, <1>2 DEF Sessions
    <3>. QED BY <1>2, <3>1 DEF CancelArrives, ByeArrives
  <2>2. t \in Sessions
    BY <1>1, SessionsAre, Ranges DEF Records
  <2>3. /\ t.refs = sess.refs /\ t.user = sess.user /\ t.terminated = 0 /\ t.mem = "live"
        /\ t.news = sess.news /\ t.accepted = sess.accepted /\ t.byed = sess.byed /\ t.peerterm
        /\ sess.user
    BY <1>1, <1>2, Held DEF Sessions
  <2>4. Quiet(t) /\ Over(t) /\ Known(t) /\ Told(t) /\ Talking(t)
    BY <1>1, <1>2 DEF Fine, Sound, Steady, Quiet, Over, Known, Told, Talking, Sessions
  <2>. HIDE DEF t
  <2>5. Counted(t)
    BY <1>2, <2>3, SameCount DEF Fine, Sound, Steady
  <2>6. Fine(SipsessTerminate(t, ok, drop)) /\ Carried(t, SipsessTerminate(t, ok, drop))
    BY <2>2, <2>3, <2>4, <2>5, SipsessTerminateFine DEF Sound, Steady
  <2>7. Carried(sess, SipsessTerminate(t, ok, drop))
    BY <2>3, <2>6 DEF Carried
  <2>. QED BY <1>1, <2>1, <2>6, <2>7 DEF Lawful
<1>3. CASE sess.terminated > 0
  <2>1. sess' = s
    <3>1. ~sess.st /\ s.terminated > 0
      BY <1>1, <1>3 DEF Fine, Sound, Steady, Quiet, Sessions
    <3>. QED BY <3>1 DEF CancelArrives, ByeArrives
  <2>2. s \in Sessions
    BY <1>1, SessionsAre, Ranges DEF Records
  <2>3. /\ s.refs = sess.refs /\ s.user = sess.user /\ s.terminated = sess.terminated
        /\ s.req = sess.req /\ s.replies = sess.replies /\ s.infos = sess.infos
    BY <1>1 DEF Sessions
  <2>4. /\ Quiet(s) /\ Over(s) /\ Known(s) /\ Told(s) /\ Talking(s)
        /\ Pending(s) /\ Alive(s) /\ Carried(sess, s)
    BY <1>1, <1>3
    DEF Fine, Sound, Steady, Quiet, Over, Known, Told, Talking, Pending, Alive, Carried, Sessions
  <2>. HIDE DEF s
  <2>5. Counted(s)
    <3>1. Waits(s) = Waits(sess)
      BY <2>3 DEF Waits
    <3>. QED BY <2>3, <3>1 DEF Fine, Sound, Steady, Counted
  <2>. QED BY <1>1, <2>1, <2>2, <2>4, <2>5 DEF Fine, Sound, Steady, Lawful
<1>. QED BY <1>1, <1>2, <1>3 DEF Sessions

LEMMA ReinviteArrivesFine ==
  ASSUME Fine(sess), NEW seq \in Nat, NEW agreed \in BOOLEAN, NEW awaiting \in BOOLEAN,
         NEW ok \in BOOLEAN, ReinviteArrives(seq, agreed, awaiting, ok)
  PROVE  Fine(sess)' /\ Lawful(sess, sess')
<1>. DEFINE s == [sess EXCEPT !.desc = FALSE, !.modify_pending = FALSE, !.tmr = FALSE]
<1>1. sess \in Sessions /\ sess.mem = "live" /\ sess.terminated = 0
  BY DEF Fine, Sound, Steady, ReinviteArrives, Found
<1>2. CASE sess' = sess
  BY <1>1, <1>2 DEF Lawful, Carried
<1>3. CASE sess' # sess
  <2>1. /\ ~sess.st /\ ~sess.awaiting_answer /\ sess.req = "none"
        /\ sess' = [Reply2xx(sess, seq, awaiting, ok)
                      EXCEPT !.desc = FALSE, !.modify_pending = FALSE, !.tmr = FALSE]
    BY <1>3 DEF ReinviteArrives
  <2>2. [Reply2xx(sess, seq, awaiting, ok)
           EXCEPT !.desc = FALSE, !.modify_pending = FALSE, !.tmr = FALSE]
          = Reply2xx(s, seq, awaiting, ok)
    BY <1>1 DEF Reply2xx, Sessions
  <2>3. s \in Sessions
    BY <1>1, SessionsAre, Ranges DEF Records
  <2>4. /\ s.refs = sess.refs /\ s.user = sess.user /\ s.terminated = 0 /\ s.mem = "live"
        /\ s.req = "none" /\ ~s.tmr /\ ~s.awaiting_answer /\ s.news = sess.news
        /\ s.accepted = sess.accepted /\ s.byed = sess.byed /\ s.peerterm = sess.peerterm
    BY <1>1, <2>1 DEF Sessions
  <2>5. Quiet(s) /\ Over(s) /\ Known(s) /\ Told(s) /\ Talking(s) /\ Pending(s) /\ Alive(s)
    BY <1>1, <2>1
    DEF Fine, Sound, Steady, Quiet, Over, Known, Told, Talking, Pending, Alive, Sessions
  <2>. HIDE DEF s
  <2>6. Counted(s)
    BY <1>1, <2>4, SameCount DEF Fine, Sound, Steady
  <2>7. Fine(s)
    BY <2>3, <2>5, <2>6 DEF Fine, Sound, Steady
  <2>8. /\ Fine(Reply2xx(s, seq, awaiting, ok))
        /\ Carried(s, Reply2xx(s, seq, awaiting, ok))
    BY <2>4, <2>7, Reply2xxFine
  <2>9. Carried(sess, Reply2xx(s, seq, awaiting, ok))
    BY <2>4, <2>8 DEF Carried
  <2>. QED BY <1>1, <2>1, <2>2, <2>8, <2>9 DEF Lawful
<1>. QED BY <1>2, <1>3

(***************************************************************************)
(* The answers that wait for their ACK                                     *)
(***************************************************************************)
\* a nonempty set of positions has a least one
LEMMA LeastPosition ==
  ASSUME NEW n \in Nat, NEW I, I \subseteq 1..n, I # {}
  PROVE  (CHOOSE x \in I : \A y \in I : x <= y) \in I
<1>. DEFINE R == OpToRel(<, Nat)
<1>1. IsWellFoundedOn(R, Nat)
  BY NatLessThanWellFounded
<1>0. I \subseteq Nat
  OBVIOUS
<1>2. \A u, v \in Nat : <<u, v>> \in R <=> u < v
  BY DEF OpToRel
<1>. HIDE DEF R
<1>3. PICK x \in I : \A y \in I : ~(<<y, x>> \in R)
  BY <1>0, <1>1, WFMin
<1>4. ASSUME NEW y \in I PROVE x <= y
  <2>1. x \in Nat /\ y \in Nat /\ ~(<<y, x>> \in R)
    BY <1>0, <1>3
  <2>2. ~(y < x)
    BY <1>2, <2>1
  <2>. QED BY <2>1, <2>2
<1>. QED BY <1>4

\* what is left when one answer is gone: the newest stays the newest
LEMMA Removed ==
  ASSUME NEW q \in ReplyLog, NEW i \in 1..Len(q)
  PROVE  /\ RemoveAt(q, i) \in ReplyLog /\ Len(RemoveAt(q, i)) = Len(q) - 1
         /\ i # Len(q) => /\ RemoveAt(q, i) # <<>>
                         /\ RemoveAt(q, i)[Len(q) - 1] = q[Len(q)]
<1>. DEFINE R == [seq : Nat, awaiting_answer : BOOLEAN]
            f == SubSeq(q, 1, i - 1)
            g == SubSeq(q, i + 1, Len(q))
<1>1. q \in Seq(R) /\ Len(q) \in Nat /\ i \in Nat /\ 1 <= i /\ i <= Len(q)
  BY LenProperties DEF ReplyLog
<1>. HIDE DEF R
<1>2. /\ \A j \in 1..(i - 1) : q[j] \in R
      /\ \A j \in (i + 1)..Len(q) : q[j] \in R
  BY <1>1, ElementOfSeq
<1>3. f \in Seq(R) /\ Len(f) = i - 1
  <2>1. Len(f) = IF 1 <= i - 1 THEN i - 1 - 1 + 1 ELSE 0
    BY <1>1, <1>2, SubSeqProperties
  <2>2. f \in Seq(R)
    BY <1>1, <1>2, SubSeqProperties
  <2>. QED BY <1>1, <2>1, <2>2
<1>4. /\ g \in Seq(R) /\ Len(g) = Len(q) - i
      /\ \A j \in 1..(Len(q) - i) : g[j] = q[i + j]
  <2>1. /\ g \in Seq(R) /\ Len(g) = IF i + 1 <= Len(q) THEN Len(q) - (i + 1) + 1 ELSE 0
        /\ \A j \in 1..(Len(q) - (i + 1) + 1) : g[j] = q[i + 1 + j - 1]
    BY <1>1, <1>2, SubSeqProperties
  <2>. HIDE DEF g
  <2>2. Len(g) = Len(q) - i
    <3>1. CASE i + 1 <= Len(q)
      BY <1>1, <2>1, <3>1
    <3>2. CASE i = Len(q)
      BY <1>1, <2>1, <3>2
    <3>. QED BY <1>1, <3>1, <3>2
  <2>3. ASSUME NEW j \in 1..(Len(q) - i) PROVE g[j] = q[i + j]
    <3>1. i + 1 + j - 1 = i + j /\ j \in 1..(Len(q) - (i + 1) + 1)
      BY <1>1
    <3>. QED BY <2>1, <3>1
  <2>. QED BY <2>1, <2>2, <2>3
<1>6. RemoveAt(q, i) = f \o g
  BY DEF RemoveAt
<1>. HIDE DEF f, g
<1>5. /\ f \o g \in Seq(R) /\ Len(f \o g) = Len(q) - 1
      /\ \A j \in 1..(Len(q) - 1) : (f \o g)[j] = IF j <= i - 1 THEN f[j] ELSE g[j - (i - 1)]
  <2>1. Len(f) + Len(g) = Len(q) - 1
    BY <1>1, <1>3, <1>4
  <2>2. /\ f \o g \in Seq(R) /\ Len(f \o g) = Len(f) + Len(g)
        /\ \A j \in 1..Len(f) + Len(g) :
               (f \o g)[j] = IF j <= Len(f) THEN f[j] ELSE g[j - Len(f)]
    BY <1>3, <1>4, ConcatProperties
  <2>. QED BY <1>3, <2>1, <2>2
<1>7. ASSUME i # Len(q)
      PROVE  f \o g # <<>> /\ (f \o g)[Len(q) - 1] = q[Len(q)]
  <2>1. /\ Len(q) - 1 \in 1..(Len(q) - 1) /\ ~(Len(q) - 1 <= i - 1)
        /\ Len(q) - 1 - (i - 1) = Len(q) - i
    BY <1>1, <1>7
  <2>2. (f \o g)[Len(q) - 1] = g[Len(q) - i]
    BY <1>5, <2>1
  <2>3. Len(q) - i \in 1..(Len(q) - i) /\ i + (Len(q) - i) = Len(q)
    BY <1>1, <1>7
  <2>4. g[Len(q) - i] = q[Len(q)]
    BY <1>4, <2>3
  <2>5. f \o g # <<>>
    BY <1>1, <1>5, <1>7, EmptySeq
  <2>. QED BY <2>2, <2>4, <2>5
<1>. QED BY <1>5, <1>6, <1>7 DEF ReplyLog, R

\* the answer an ACK is for is on the list
Acked(q, n) == SelectInSeq(q, LAMBDA r : r.seq = n)

LEMMA Selected ==
  ASSUME NEW q \in ReplyLog, NEW n, \E r \in ToSet(q) : r.seq = n
  PROVE  Acked(q, n) \in 1..Len(q)
<1>. DEFINE I == {i \in 1..Len(q) : q[i].seq = n}
<1>1. Len(q) \in Nat /\ DOMAIN q = 1..Len(q)
  BY LenProperties DEF ReplyLog
<1>2. I # {} /\ I \subseteq 1..Len(q)
  BY <1>1 DEF ToSet
<1>3. Acked(q, n) = CHOOSE x \in I : \A y \in I : x <= y
  BY <1>2 DEF Acked, SelectInSeq, Min
<1>. HIDE DEF I
<1>. QED BY <1>1, <1>2, <1>3, LeastPosition

\* the session is over, and one of its answers no longer waits for its ACK
LEMMA LateReplyGone ==
  ASSUME Fine(sess), sess.replies # <<>>, sess.terminated > 0, NEW q \in ReplyLog,
         NEW ok \in BOOLEAN, NEW s, s = [sess EXCEPT !.replies = q]
  PROVE  /\ q # <<>> => Fine(s) /\ Lawful(sess, s)
         /\ q = <<>> => /\ Fine(Deref([s EXCEPT !.established = TRUE], ok))
                        /\ Lawful(sess, Deref([s EXCEPT !.established = TRUE], ok))
<1>. DEFINE e == [s EXCEPT !.established = TRUE]
            d == [e EXCEPT !.refs = @ - 1]
<1>1. sess \in Sessions /\ sess.mem = "live" /\ sess.refs \in Nat /\ sess.refs > 0
  BY AtRest, Counts DEF Fine, Sound, Steady, Alive
<1>2. sess.terminated = 1 /\ sess.req # "INVITE"
  BY <1>1 DEF Fine, Sound, Steady, Over, Known, Sessions
<1>3. s \in Sessions /\ e \in Sessions /\ d \in Sessions
  <2>1. sess.refs - 1 \in Counter
    BY <1>1 DEF Counter
  <2>2. s \in Sessions
    BY <1>1, SessionsAre DEF Records
  <2>3. e \in Sessions /\ e.refs = sess.refs
    BY <1>1, <2>2, SessionsAre, Ranges DEF Records
  <2>. HIDE DEF e
  <2>. QED BY <2>1, <2>2, <2>3, SessionsAre DEF Records
<1>4. /\ s.refs = sess.refs /\ s.user = sess.user /\ s.terminated = 1 /\ s.mem = "live"
      /\ s.req = sess.req /\ s.replies = q /\ s.infos = sess.infos
      /\ s.news = sess.news /\ s.accepted = sess.accepted /\ s.peerterm = sess.peerterm
      /\ s.byed = sess.byed
  BY <1>1, <1>2 DEF Sessions
<1>5. CASE q # <<>>
  <2>1. Quiet(s) /\ Over(s) /\ Known(s) /\ Told(s) /\ Talking(s) /\ Pending(s)
    BY <1>1, <1>2, <1>5
    DEF Fine, Sound, Steady, Quiet, Over, Known, Told, Talking, Pending, Sessions
  <2>2. Waits(s) = Waits(sess)
    BY <1>4, <1>5 DEF Waits
  <2>3. Counted(s) /\ Alive(s) /\ Carried(sess, s)
    BY <1>1, <1>2, <1>4, <2>2 DEF Fine, Sound, Steady, Counted, Alive, Carried
  <2>. QED BY <1>1, <1>3, <1>5, <2>1, <2>3 DEF Fine, Sound, Steady, Lawful
<1>6. CASE q = <<>>
  <2>1. Quiet(d) /\ Over(d) /\ Known(d) /\ Told(d) /\ Talking(d) /\ Pending(e)
    BY <1>1, <1>2, <1>6
    DEF Fine, Sound, Steady, Quiet, Over, Known, Told, Talking, Pending, Sessions
  <2>2. /\ d.refs = sess.refs - 1 /\ d.user = sess.user /\ d.terminated = 1
        /\ d.req = sess.req /\ d.replies = <<>> /\ d.infos = sess.infos
        /\ e.refs = sess.refs /\ e.mem = "live" /\ e.user = sess.user
        /\ e.news = sess.news /\ e.accepted = sess.accepted /\ e.peerterm = sess.peerterm
        /\ e.byed = sess.byed
    BY <1>3, <1>4, <1>6 DEF Sessions
  <2>. HIDE DEF d, e
  <2>3. Waits(d) = Waits(sess) - 1
    <3>1. One(sess.replies # <<>>) = 1 /\ One(d.replies # <<>>) = 0
      BY <2>2 DEF One
    <3>2. One(sess.req # "none") \in Nat /\ One(sess.infos > 0) \in Nat
      BY DEF One
    <3>. QED BY <2>2, <3>1, <3>2 DEF Waits
  <2>4. Counted(d)
    BY <1>1, <1>2, <1>3, <2>2, <2>3, WaitOver DEF Fine, Sound, Steady
  <2>5. Sound(d)
    BY <1>3, <2>1, <2>4 DEF Sound, Steady
  <2>6. Fine(Deref(e, ok)) /\ Ends(e, Deref(e, ok)) /\ Deref(e, ok).mem # "none"
    BY <1>1, <1>3, <2>1, <2>2, <2>5, DerefFine DEF d
  <2>7. Carried(sess, Deref(e, ok))
    BY <2>2, <2>6 DEF Carried, Ends
  <2>. QED BY <1>1, <1>6, <2>6, <2>7 DEF Lawful, e
<1>. QED BY <1>5, <1>6

LEMMA ReplyTimerFine ==
  ASSUME Fine(sess), NEW ok \in BOOLEAN, NEW drop \in BOOLEAN, ReplyTimer(ok, drop)
  PROVE  Fine(sess)' /\ Lawful(sess, sess')
<1>. DEFINE q == Tail(sess.replies)
            s == [sess EXCEPT !.replies = q]
            e == [s EXCEPT !.established = TRUE]
<1>1. /\ sess.replies # <<>> /\ sess.mem = "live" /\ sess \in Sessions
      /\ sess' = IF s.replies # <<>> THEN s ELSE Ended(e, ok, drop)
  BY AtRest DEF ReplyTimer, Fine, Sound, Steady
<1>2. /\ q \in ReplyLog /\ Len(q) = Len(sess.replies) - 1 /\ Len(sess.replies) \in Nat
      /\ q # <<>> => q[Len(q)] = sess.replies[Len(sess.replies)]
  <2>1. sess.replies \in ReplyLog
    BY <1>1, SessionsAre DEF Records
  <2>2. /\ q \in ReplyLog /\ Len(q) = Len(sess.replies) - 1 /\ Len(sess.replies) \in Nat
        /\ \A i \in 1..Len(q) : q[i] = sess.replies[i + 1]
    BY <1>1, <2>1, HeadTailProperties DEF ReplyLog
  <2>3. q # <<>> => Len(q) \in 1..Len(q)
    BY <2>2, EmptySeq DEF ReplyLog
  <2>. QED BY <2>2, <2>3
<1>. HIDE DEF q
<1>3. /\ s.replies = q /\ s.terminated = sess.terminated
      /\ e.terminated = sess.terminated
  BY <1>1 DEF Sessions
<1>4. CASE sess.terminated > 0
  <2>1. sess' = IF q # <<>> THEN s ELSE Deref(e, ok)
    BY <1>1, <1>3, <1>4 DEF Ended
  <2>. QED BY <1>1, <1>2, <1>4, <2>1, LateReplyGone
<1>5. CASE sess.terminated = 0
  <2>1. sess.user /\ sess.refs = 1 /\ sess.req # "INVITE"
    BY <1>1, <1>5, Held DEF Fine, Sound, Steady, Known
  <2>2. s \in Sessions /\ e \in Sessions
    BY <1>1, <1>2, SessionsAre, Ranges DEF Records
  <2>3. /\ s.refs = sess.refs /\ s.user = sess.user /\ s.mem = "live" /\ s.terminated = 0
        /\ e.refs = sess.refs /\ e.user = sess.user /\ e.mem = "live"
        /\ e.news = sess.news /\ e.accepted = sess.accepted /\ e.peerterm = sess.peerterm
        /\ e.byed = sess.byed
    BY <1>1, <1>5 DEF Sessions
  <2>4. Counted(s) /\ Counted(e)
    <3>. HIDE DEF s, e
    <3>. QED BY <1>3, <1>5, <2>3, SameCount DEF Fine, Sound, Steady
  <2>5. CASE q # <<>>
    <3>1. Quiet(s) /\ Over(s) /\ Known(s) /\ Told(s) /\ Talking(s) /\ Pending(s)
      BY <1>1, <1>2, <1>5, <2>1, <2>5
      DEF Fine, Sound, Steady, Quiet, Over, Known, Told, Talking, Pending, Sessions
    <3>2. Alive(s) /\ Carried(sess, s)
      BY <1>1, <2>1 DEF Alive, Carried, Sessions
    <3>3. sess' = s
      BY <1>1, <1>3, <2>5
    <3>. HIDE DEF s
    <3>. QED BY <1>1, <2>2, <2>4, <3>1, <3>2, <3>3 DEF Fine, Sound, Steady, Lawful
  <2>6. CASE q = <<>>
    <3>1. Quiet(e) /\ Over(e) /\ Known(e) /\ Told(e)
      BY <1>1, <1>5, <2>1, <2>6 DEF Fine, Sound, Steady, Quiet, Over, Known, Told, Sessions
    <3>2. sess' = SipsessTerminate(e, ok, drop)
      BY <1>1, <1>3, <1>5, <2>6 DEF Ended
    <3>. HIDE DEF s, e
    <3>3. /\ Fine(SipsessTerminate(e, ok, drop))
          /\ Carried(e, SipsessTerminate(e, ok, drop))
      BY <1>3, <1>5, <2>1, <2>2, <2>3, <2>4, <3>1, SipsessTerminateFine DEF Steady
    <3>4. Carried(sess, SipsessTerminate(e, ok, drop))
      BY <2>3, <3>3 DEF Carried
    <3>. QED BY <1>1, <3>2, <3>3, <3>4 DEF Lawful
  <2>. QED BY <2>5, <2>6
<1>. QED BY <1>1, <1>4, <1>5 DEF Sessions

\* the ACK of the session's first 2xx, or of a re-INVITE's
LEMMA AckArrivesFine ==
  ASSUME Fine(sess), NEW seq, NEW agreed \in BOOLEAN, NEW ok \in BOOLEAN, NEW drop \in BOOLEAN,
         AckArrives(seq, agreed, ok, drop)
  PROVE  Fine(sess)' /\ Lawful(sess, sess')
<1>. DEFINE i == Acked(sess.replies, seq)
            q == RemoveAt(sess.replies, i)
            a == sess.replies[i].awaiting_answer
            s == [sess EXCEPT !.replies = q]
            t == [s EXCEPT !.awaiting_answer = @ /\ ~a]
            u == IF t.modify_pending /\ t.replies = <<>> THEN Reinvite(t, ok) ELSE t
            v == [u EXCEPT !.established = TRUE]
            w == [t EXCEPT !.established = TRUE]
            x == IF w.modify_pending /\ w.replies = <<>> THEN Reinvite(w, ok) ELSE w
<1>1. /\ sess.mem = "live" /\ sess \in Sessions /\ sess.replies \in ReplyLog
      /\ \E r \in ToSet(sess.replies) : r.seq = seq
  BY SessionsAre DEF AckArrives, Found, Fine, Sound, Steady, Records
<1>0. sess' = CASE s.terminated > 0 /\ s.replies # <<>> -> s
                [] s.terminated > 0 /\ s.replies = <<>> ->
                     Deref([s EXCEPT !.established = TRUE], ok)
                [] s.terminated = 0 /\ s.established -> u
                [] s.terminated = 0 /\ ~s.established /\ a /\ ~agreed ->
                     SipsessTerminate(v, ok, drop)
                [] OTHER -> [v EXCEPT !.news = Append(@, "up")]
  BY DEF AckArrives, Acked
<1>2. /\ i \in 1..Len(sess.replies) /\ Len(sess.replies) \in Nat /\ sess.replies # <<>>
      /\ q \in ReplyLog /\ Len(q) = Len(sess.replies) - 1
      /\ i # Len(sess.replies) =>
            q # <<>> /\ q[Len(sess.replies) - 1] = sess.replies[Len(sess.replies)]
  <2>1. i \in 1..Len(sess.replies)
    <3>1. sess.replies \in ReplyLog /\ \E r \in ToSet(sess.replies) : r.seq = seq
      BY <1>1
    <3>. QED BY <3>1, Selected
  <2>. HIDE DEF i
  <2>2. Len(sess.replies) \in Nat
    BY <1>1, LenProperties DEF ReplyLog
  <2>3. sess.replies # <<>>
    BY <1>1, <2>1, <2>2, EmptySeq DEF ReplyLog
  <2>. QED BY <1>1, <2>1, <2>2, <2>3, Removed
<1>3. a \in Flag
  <2>. HIDE DEF i
  <2>1. sess.replies[i] \in [seq : Nat, awaiting_answer : BOOLEAN]
    BY <1>1, <1>2, ElementOfSeq DEF ReplyLog
  <2>. QED BY <2>1 DEF Flag
<1>4. sess.awaiting_answer /\ sess.terminated = 0 /\ ~a =>
         /\ q # <<>> /\ q[Len(q)].awaiting_answer
         /\ Len(q) = Len(sess.replies) - 1
  <2>. HIDE DEF i, q
  <2>. QED BY <1>2 DEF Fine, Sound, Talking
<1>. HIDE DEF i, q, a
<1>5. s.terminated = sess.terminated /\ s.replies = q /\ s.established = sess.established
  BY <1>1 DEF Sessions
<1>6. CASE sess.terminated > 0
  <2>1. sess' = IF q # <<>> THEN s ELSE Deref([s EXCEPT !.established = TRUE], ok)
    <3>. HIDE DEF s, u, v
    <3>. QED BY <1>0, <1>5, <1>6
  <2>2. s = [sess EXCEPT !.replies = q] /\ q \in ReplyLog /\ sess.replies # <<>>
    BY <1>2
  <2>. HIDE DEF s, t, u, v, w, x
  <2>3. /\ q # <<>> => Fine(s) /\ Lawful(sess, s)
        /\ q = <<>> => /\ Fine(Deref([s EXCEPT !.established = TRUE], ok))
                       /\ Lawful(sess, Deref([s EXCEPT !.established = TRUE], ok))
    BY <1>6, <2>2, LateReplyGone
  <2>4. CASE q # <<>>
    BY <2>1, <2>3, <2>4
  <2>5. CASE q = <<>>
    BY <2>1, <2>3, <2>5
  <2>. QED BY <2>4, <2>5
<1>7. CASE sess.terminated = 0
  <2>1. /\ sess.user /\ sess.refs = 1 /\ sess.req = "none" /\ ~sess.tmr /\ ~sess.st
    BY <1>1, <1>2, <1>7, Held
    DEF Fine, Sound, Steady, Over, Known, Talking, Sessions, Requests
  <2>2. s \in Sessions /\ t \in Sessions /\ w \in Sessions
    <3>1. s \in Records
      BY <1>1, <1>2, SessionsAre DEF Records
    <3>2. (s.awaiting_answer /\ ~a) \in Flag
      BY DEF Flag
    <3>3. t \in Records
      <4>. HIDE DEF s
      <4>. QED BY <3>1, <3>2 DEF Records
    <3>4. w \in Records
      <4>. HIDE DEF t
      <4>. QED BY <3>3, Ranges DEF Records
    <3>. QED BY <3>1, <3>3, <3>4, SessionsAre
  <2>3. /\ t.req = "none" /\ w.req = "none" /\ w.refs = 1 /\ w.user /\ w.terminated = 0
        /\ w.mem = "live" /\ w.replies = q /\ w.established /\ ~w.st /\ ~w.tmr
        /\ w.news = sess.news /\ w.accepted = sess.accepted /\ w.peerterm = sess.peerterm
        /\ w.byed = sess.byed /\ w.modify_pending = sess.modify_pending
        /\ w.awaiting_answer = (sess.awaiting_answer /\ ~a)
        /\ t.modify_pending = sess.modify_pending /\ t.replies = q
        /\ t.established = sess.established
    BY <1>1, <1>7, <2>1 DEF Sessions
  <2>4. Quiet(w) /\ Over(w) /\ Known(w) /\ Told(w)
    <3>. HIDE DEF w
    <3>. QED BY <1>7, <2>3 DEF Fine, Sound, Steady, Quiet, Over, Known, Told
  <2>5. Counted(w)
    <3>. HIDE DEF w
    <3>. QED BY <1>7, <2>1, <2>3, SameCount DEF Fine, Sound, Steady
  <2>6. Talking(w)
    <3>. HIDE DEF w, t
    <3>. QED BY <1>4, <1>7, <2>3 DEF Talking
  <2>7. Sound(w)
    BY <2>2, <2>4, <2>5, <2>6 DEF Sound, Steady
  <2>8. v = x
    <3>1. [Reinvite(t, ok) EXCEPT !.established = TRUE] = Reinvite(w, ok)
      <4>1. /\ Reinvite(t, ok) = Invited(t, "REINVITE", ok)
            /\ Reinvite(w, ok) = Invited(w, "REINVITE", ok)
        <5>. HIDE DEF t, w
        <5>. QED BY <2>3 DEF Reinvite
      <4>2. [Invited(t, "REINVITE", ok) EXCEPT !.established = TRUE] = Invited(w, "REINVITE", ok)
        <5>1. t \in Sessions
          BY <2>2
        <5>. HIDE DEF t
        <5>. QED BY <5>1 DEF Invited, Sessions
      <4>. QED BY <4>1, <4>2
    <3>2. CASE t.modify_pending /\ t.replies = <<>>
      <4>. HIDE DEF t, w
      <4>. QED BY <2>3, <3>1, <3>2
    <3>3. CASE ~(t.modify_pending /\ t.replies = <<>>)
      <4>1. u = t
        BY <3>3
      <4>2. x = w
        <5>. HIDE DEF t, w
        <5>. QED BY <2>3, <3>3
      <4>. QED BY <4>1, <4>2
    <3>. QED BY <3>2, <3>3
  <2>9. /\ Fine(x) /\ Carried(w, x) /\ x.news = w.news /\ x.terminated = 0
        /\ x.established /\ x.user /\ x.mem = "live"
    <3>1. CASE w.modify_pending /\ w.replies = <<>>
      <4>. HIDE DEF w
      <4>1. x = Reinvite(w, ok)
        BY <3>1
      <4>2. /\ Fine(Reinvite(w, ok)) /\ Carried(w, Reinvite(w, ok))
            /\ Reinvite(w, ok).news = w.news /\ Reinvite(w, ok).terminated = 0
            /\ Reinvite(w, ok).established = w.established /\ Reinvite(w, ok).user = w.user
            /\ Reinvite(w, ok).mem = "live"
        <5>1. /\ Sound(w) /\ w.mem = "live" /\ w.refs > 0 /\ w.terminated = 0
              /\ w.replies = <<>> /\ ~w.st
          BY <2>3, <2>7, <3>1
        <5>. HIDE DEF x, t, s
        <5>. QED BY <5>1, ReinviteFine
      <4>. HIDE DEF x
      <4>. QED BY <2>3, <4>1, <4>2
    <3>2. CASE ~(w.modify_pending /\ w.replies = <<>>)
      <4>. HIDE DEF w
      <4>1. x = w
        BY <3>2
      <4>2. Pending(w) /\ Alive(w) /\ Carried(w, w)
        BY <2>3, <3>2 DEF Pending, Alive, Carried, Heard
      <4>. QED BY <2>3, <2>7, <4>1, <4>2 DEF Fine
    <3>. QED BY <3>1, <3>2
  <2>10. ASSUME NEW r, Carried(x, r) PROVE Carried(sess, r)
    <3>. HIDE DEF x, w
    <3>. QED BY <2>1, <2>3, <2>9, <2>10 DEF Carried
  <2>11. CASE sess.established
    <3>1. sess' = u
      <4>. HIDE DEF s, u, v
      <4>. QED BY <1>0, <1>5, <1>7, <2>11
    <3>2. u \in Sessions /\ u.established
      <4>1. CASE t.modify_pending /\ t.replies = <<>>
        <5>1. u = Invited(t, "REINVITE", ok)
          <6>. HIDE DEF t
          <6>. QED BY <2>3, <4>1 DEF Reinvite
        <5>2. t.desc \in Flag /\ (IF ok THEN "REINVITE" ELSE "none") \in Requests /\ t \in Sessions
          BY <2>2, Ranges, SessionsAre DEF Records
        <5>3. t.established
          BY <2>3, <2>11
        <5>. HIDE DEF t, u
        <5>4. Invited(t, "REINVITE", ok) \in Sessions
          BY <5>2, SessionsAre, Ranges DEF Invited, Records
        <5>5. Invited(t, "REINVITE", ok).established
          BY <5>2, <5>3 DEF Invited, Sessions
        <5>. QED BY <5>1, <5>4, <5>5
      <4>2. CASE ~(t.modify_pending /\ t.replies = <<>>)
        <5>1. t \in Sessions /\ t.established
          BY <2>2, <2>3, <2>11
        <5>. HIDE DEF t
        <5>. QED BY <4>2, <5>1
      <4>. QED BY <4>1, <4>2
    <3>3. v = u
      <4>. HIDE DEF u
      <4>. QED BY <3>2 DEF Sessions
    <3>. HIDE DEF u, v, x, w
    <3>4. Carried(sess, x)
      BY <2>1, <2>3, <2>9 DEF Carried, Heard
    <3>. QED BY <1>1, <2>8, <2>9, <3>1, <3>3, <3>4 DEF Lawful
  <2>12. CASE ~sess.established
    <3>1. sess.news = <<>>
      BY <1>7, <2>12 DEF Fine, Sound, Steady, Told
    <3>2. \/ sess' = SipsessTerminate(v, ok, drop)
          \/ sess' = [v EXCEPT !.news = Append(@, "up")]
      <4>. HIDE DEF s, u, v
      <4>. QED BY <1>0, <1>5, <1>7, <2>12
    <3>. HIDE DEF u, v, x, w
    <3>3. CASE sess' = SipsessTerminate(v, ok, drop)
      <4>1. Fine(SipsessTerminate(x, ok, drop)) /\ Carried(x, SipsessTerminate(x, ok, drop))
        BY <2>9, SipsessTerminateFine DEF Fine, Sound
      <4>. QED BY <1>1, <2>8, <2>10, <3>3, <4>1 DEF Lawful
    <3>4. CASE sess' = [v EXCEPT !.news = Append(@, "up")]
      <4>1. /\ Fine(sess)' /\ sess'.mem = "live" /\ sess'.news = <<"up">>
            /\ sess'.user = x.user /\ sess'.accepted = x.accepted
            /\ sess'.peerterm = x.peerterm /\ sess'.byed = x.byed
        <5>1. x.news = <<>> /\ sess' = [x EXCEPT !.news = Append(@, "up")]
          BY <2>3, <2>8, <2>9, <3>1, <3>4
        <5>2. \A y : y = sess' => Fine(y) /\ y.mem = "live" /\ y.news = <<"up">>
                       /\ y.user = x.user /\ y.accepted = x.accepted
                       /\ y.peerterm = x.peerterm /\ y.byed = x.byed
          BY <2>9, <5>1, ToldUpFine
        <5>. QED BY <5>2
      <4>2. Carried(sess, sess')
        BY <2>1, <2>3, <2>9, <3>1, <4>1 DEF Carried, Heard
      <4>. QED BY <1>1, <4>1, <4>2 DEF Lawful
    <3>. QED BY <3>2, <3>3, <3>4
  <2>. QED BY <2>11, <2>12
<1>. QED BY <1>1, <1>6, <1>7 DEF Sessions

(***************************************************************************)
(* The invariant                                                           *)
(***************************************************************************)
LEMMA InfoArrivesFine ==
  ASSUME Fine(sess), NEW seq, InfoArrives(seq)
  PROVE  Fine(sess)' /\ Lawful(sess, sess')
<1>1. sess' = sess /\ sess.mem = "live"
  BY DEF InfoArrives, Found
<1>2. Carried(sess, sess)
  BY <1>1 DEF Carried
<1>. QED BY <1>1, <1>2 DEF Lawful

LEMMA NextFine ==
  ASSUME Fine(sess), Next
  PROVE  Fine(sess)' /\ Lawful(sess, sess')
<1>1. CASE UserCalls
  BY <1>1, OpenedFine, UserFine DEF UserCalls
<1>2. CASE RequestsEnd
  BY <1>2, InviteFine, ReinviteOutcomeFine, ByeOutcomeFine DEF RequestsEnd
<1>3. CASE InfosEnd
  BY <1>3, InfoOutcomeFine DEF InfosEnd
<1>4. CASE RepliesEnd
  BY <1>4, ReplyTimerFine DEF RepliesEnd
<1>5. CASE Challenged
  BY <1>5, InviteFine, ReinviteOutcomeFine, ByeOutcomeFine DEF Challenged
<1>6. CASE PeerRequests
  BY <1>6, PeerEndsFine, InfoArrivesFine, AckArrivesFine, ReinviteArrivesFine, SessAssumption
  DEF PeerRequests
<1>7. CASE \E ok \in BOOLEAN : ReinviteTimer(ok)
  BY <1>7, ReinviteTimerFine
<1>. QED BY <1>1, <1>2, <1>3, <1>4, <1>5, <1>6, <1>7 DEF Next

LEMMA NextSeq ==
  ASSUME rseq \in 0..MaxSeq, Next
  PROVE  rseq' \in 0..MaxSeq
<1>1. CASE UserCalls
  BY <1>1 DEF UserCalls, Connect, Progress, Modify, LetGo, SipsessAccept, Answer, Reject, Info
<1>2. CASE RequestsEnd \/ Challenged
  BY <1>2 DEF RequestsEnd, Challenged, InviteAccepted, InviteFailed, InviteAgain,
              ReinviteOutcome, ByeOutcome
<1>3. CASE InfosEnd \/ RepliesEnd \/ \E ok \in BOOLEAN : ReinviteTimer(ok)
  BY <1>3 DEF InfosEnd, RepliesEnd, InfoOutcome, ReplyTimer, ReinviteTimer
<1>4. CASE PeerRequests
  <2>1. ASSUME NEW ok, NEW drop, CancelArrives(ok, drop)
        PROVE  rseq' = rseq
    BY <2>1 DEF CancelArrives
  <2>2. ASSUME NEW seq, NEW agreed, NEW ok, NEW drop,
               \/ InfoArrives(seq) \/ ByeArrives(seq, ok, drop)
               \/ ReinviteArrives(seq, agreed, drop, ok)
        PROVE  rseq' = seq
    BY <2>2 DEF InfoArrives, ByeArrives, ReinviteArrives, SeqValid
  <2>3. ASSUME NEW seq, NEW agreed, NEW ok, NEW drop, AckArrives(seq, agreed, ok, drop)
        PROVE  rseq' = rseq
    BY <2>3 DEF AckArrives
  <2>. QED BY <1>4, <2>1, <2>2, <2>3 DEF PeerRequests
<1>. QED BY <1>1, <1>2, <1>3, <1>4 DEF Next

LEMMA InitInv == Init => SessInv
  BY NoSessionFine, SessAssumption DEF Init, SessInv

LEMMA NextInv == SessInv /\ [Next]_vars => SessInv'
<1>. SUFFICES ASSUME SessInv, [Next]_vars PROVE SessInv'
  OBVIOUS
<1>1. CASE Next
  BY <1>1, NextFine, NextSeq DEF SessInv
<1>2. CASE UNCHANGED vars
  <2>1. sess' = sess /\ rseq' = rseq
    BY <1>2 DEF vars
  <2>. QED BY <2>1 DEF SessInv
<1>. QED BY <1>1, <1>2

LEMMA AlwaysInv == Spec => []SessInv
  BY InitInv, NextInv, PTL DEF Spec

(***************************************************************************)
(* The theorems                                                            *)
(***************************************************************************)
\* Every field of the session stays in its range: the count never goes below
\* zero, and the user is told "up" and "closed" only.
THEOREM TypeCorrect == Spec => []SessTypeOK
<1>1. SessInv => SessTypeOK
  BY DEF SessInv, Fine, Sound, Steady, SessTypeOK
<1>. QED BY <1>1, AlwaysInv, PTL

\* mem_ref and mem_deref balance on every path through the session's handlers:
\* the count is exactly what the session still waits for.
THEOREM RefsCorrect == Spec => []RefsExact
<1>1. SessInv => RefsExact
  BY DEF SessInv, Fine, Sound, Steady, Counted, RefsExact
<1>. QED BY <1>1, AlwaysInv, PTL

\* destructor() frees the session only when nothing can call back into it.
THEOREM FreedCorrect == Spec => []FreedAtRest
<1>1. ASSUME SessInv, sess.mem = "freed"
      PROVE  Waits(sess) = 0 /\ ~sess.user /\ ~sess.tmr /\ ~sess.st
  <2>1. sess \in Sessions
    BY <1>1 DEF SessInv, Fine, Sound, Steady
  <2>. QED BY <1>1, <2>1, AtRest, NothingToWaitFor DEF SessInv
<1>2. SessInv => FreedAtRest
  BY <1>1 DEF FreedAtRest
<1>. QED BY <1>2, AlwaysInv, PTL

\* A re-INVITE that sipsess_modify() put off is woken up by what put it off.
THEOREM ModifyCorrect == Spec => []ModifyNotLost
<1>1. SessInv => ModifyNotLost
  BY DEF SessInv, Fine, Pending, ModifyNotLost
<1>. QED BY <1>1, AlwaysInv, PTL

\* No handler starts an INVITE, or a timer for one, while an answer to the
\* peer's INVITE waits for its ACK or has not been given.
THEOREM NoGlareCorrect == Spec => []NoGlare
<1>1. SessInv => NoGlare
  BY DEF SessInv, Fine, Sound, Talking, NoGlare
<1>. QED BY <1>1, AlwaysInv, PTL

\* awaiting_answer is never left set with no reply to clear it.
THEOREM AwaitedCorrect == Spec => []AnswerAwaited
<1>1. ASSUME SessInv, sess.awaiting_answer, sess.terminated = 0
      PROVE  \E r \in ToSet(sess.replies) : r.awaiting_answer
  <2>. DEFINE q == sess.replies
  <2>1. q \in ReplyLog /\ q # <<>> /\ q[Len(q)].awaiting_answer
    BY <1>1, SessionsAre DEF SessInv, Fine, Sound, Steady, Talking, Records
  <2>. HIDE DEF q
  <2>2. Len(q) \in DOMAIN q
    BY <2>1, EmptySeq, LenProperties DEF ReplyLog
  <2>3. q[Len(q)] \in ToSet(q)
    BY <2>2 DEF ToSet
  <2>4. \E r \in ToSet(q) : r.awaiting_answer
    BY <2>1, <2>3
  <2>. QED BY <2>4 DEF q
<1>2. SessInv => AnswerAwaited
  BY <1>1 DEF AnswerAwaited
<1>. QED BY <1>2, AlwaysInv, PTL

(***************************************************************************)
(* The session keeps its promise                                           *)
(***************************************************************************)
UserOf(t) == IF t.mem = "none" THEN "none" ELSE IF t.user THEN "holds" ELSE "gone"

DialogOf(t) == IF t.peerterm \/ t.byed THEN "over" ELSE IF t.accepted THEN "up" ELSE "none"

\* a session is released without its user, and not behind the back of a peer
\* who was accepted
LEMMA ReleasedAtRest ==
  ASSUME NEW t, Fine(t), t.mem = "freed"
  PROVE  UserOf(t) = "gone" /\ DialogOf(t) # "up"
<1>1. ~t.user /\ t.replies = <<>>
  BY AtRest
<1>2. t.terminated = 2
  BY DEF Fine, Alive
<1>3. t.accepted => t.peerterm \/ t.byed
  BY <1>1, <1>2 DEF Fine, Sound, Steady, Known, Over
<1>. QED BY <1>1, <1>3 DEF UserOf, DialogOf

LEMMA OpenedKeeps ==
  ASSUME NEW s, NEW t, Opened(s, t)
  PROVE  /\ UserOf(s) = "none" /\ UserOf(t) = "holds"
         /\ DialogOf(t) \in {"none", "up"}
         /\ t.news = s.news /\ (t.mem = "freed") = (s.mem = "freed")
  BY DEF Opened, UserOf, DialogOf, NoSession

LEMMA CarriedKeeps ==
  ASSUME NEW s \in Sessions, NEW t \in Sessions, s.mem = "live", Carried(s, t)
  PROVE  /\ UserOf(s) # "none"
         /\ UserOf(t) = UserOf(s) \/ (UserOf(s) = "holds" /\ UserOf(t) = "gone")
         /\ \/ DialogOf(t) = DialogOf(s)
            \/ DialogOf(s) = "none" /\ DialogOf(t) \in {"up", "over"}
            \/ DialogOf(s) = "up" /\ DialogOf(t) = "over"
         /\ \/ t.news = s.news
            \/ UserOf(s) = "holds" /\ s.news = <<>> /\ t.news \in {<<"up">>, <<"closed">>}
            \/ UserOf(s) = "holds" /\ s.news = <<"up">> /\ t.news = <<"up", "closed">>
<1>1. UserOf(s) # "none" /\ (s.user => UserOf(s) = "holds")
  BY DEF UserOf
<1>2. UserOf(t) = UserOf(s) \/ (UserOf(s) = "holds" /\ UserOf(t) = "gone")
  BY DEF Carried, UserOf, Sessions
<1>3. \/ DialogOf(t) = DialogOf(s)
      \/ DialogOf(s) = "none" /\ DialogOf(t) \in {"up", "over"}
      \/ DialogOf(s) = "up" /\ DialogOf(t) = "over"
  BY DEF Carried, DialogOf, Sessions
<1>4. \/ t.news = s.news
      \/ UserOf(s) = "holds" /\ s.news = <<>> /\ t.news \in {<<"up">>, <<"closed">>}
      \/ UserOf(s) = "holds" /\ s.news = <<"up">> /\ t.news = <<"up", "closed">>
  BY <1>1 DEF Carried, Heard
<1>. QED BY <1>1, <1>2, <1>3, <1>4

LEMMA InitKeeps == Init => Promise!Init
  BY DEF Init, NoSession, Promise!Init

LEMMA StepKeeps ==
  SessInv /\ SessInv' /\ [Next]_vars => [Promise!Open \/ Promise!Event]_(Promise!vars)
<1>. SUFFICES ASSUME SessInv, SessInv', [Next]_vars
              PROVE  [Promise!Open \/ Promise!Event]_(Promise!vars)
  OBVIOUS
<1>1. CASE UNCHANGED vars
  BY <1>1 DEF vars, Promise!vars
<1>2. CASE Next
  <2>1. Lawful(sess, sess')
    BY <1>2, NextFine DEF SessInv
  <2>2. sess \in Sessions /\ sess' \in Sessions
    BY DEF SessInv, Fine, Sound, Steady
  <2>3. CASE Opened(sess, sess')
    <3>1. /\ UserOf(sess) = "none" /\ UserOf(sess') = "holds"
          /\ DialogOf(sess') \in {"none", "up"}
          /\ sess'.news = sess.news /\ (sess'.mem = "freed") = (sess.mem = "freed")
      BY <2>3, OpenedKeeps
    <3>2. Promise!Open
      BY <3>1 DEF Promise!Open, UserOf, DialogOf
    <3>. QED BY <3>2
  <2>4. CASE sess.mem = "live" /\ Carried(sess, sess')
    <3>1. /\ UserOf(sess) # "none"
          /\ \/ UserOf(sess') = UserOf(sess)
             \/ UserOf(sess) = "holds" /\ UserOf(sess') = "gone"
          /\ \/ DialogOf(sess') = DialogOf(sess)
             \/ DialogOf(sess) = "none" /\ DialogOf(sess') \in {"up", "over"}
             \/ DialogOf(sess) = "up" /\ DialogOf(sess') = "over"
          /\ \/ sess'.news = sess.news
             \/ /\ UserOf(sess) = "holds" /\ sess.news = <<>>
                /\ sess'.news \in {<<"up">>, <<"closed">>}
             \/ /\ UserOf(sess) = "holds" /\ sess.news = <<"up">>
                /\ sess'.news = <<"up", "closed">>
      BY <2>2, <2>4, CarriedKeeps
    <3>2. sess'.mem = "freed" => UserOf(sess') = "gone" /\ DialogOf(sess') # "up"
      <4>1. Fine(sess')
        BY DEF SessInv
      <4>. QED BY <4>1, ReleasedAtRest
    <3>3. Promise!TellUser
      BY <3>1 DEF Promise!TellUser, UserOf
    <3>4. Promise!LetGo
      BY <3>1 DEF Promise!LetGo, UserOf
    <3>5. Promise!DialogMoves
      BY <3>1 DEF Promise!DialogMoves, DialogOf
    <3>6. Promise!Release
      BY <3>2 DEF Promise!Release, UserOf, DialogOf
    <3>7. Promise!Event
      BY <2>4, <3>1, <3>3, <3>4, <3>5, <3>6 DEF Promise!Event, UserOf
    <3>. QED BY <3>7
  <2>. QED BY <2>1, <2>3, <2>4 DEF Lawful
<1>. QED BY <1>1, <1>2

\* The handlers of a session, in whatever order they run, tell the user that
\* it is up and that it is closed once each, in that order and never after he
\* let go; and destructor() never leaves a peer who was accepted without a BYE.
THEOREM Refinement == Spec => KeepsPromise
<1>1. Init => Promise!Init
  BY InitKeeps
<1>2. SessInv /\ SessInv' /\ [Next]_vars => [Promise!Open \/ Promise!Event]_(Promise!vars)
  BY StepKeeps
<1>. QED BY <1>1, <1>2, AlwaysInv, PTL DEF Spec, KeepsPromise, Promise!Spec
=============================================================================
