------------------------------ MODULE Sipsess ------------------------------
(***************************************************************************)
(* A SIP session: re/src/sipsess.                                          *)
(*                                                                         *)
(* One endpoint, caller or callee, between its user and a peer who may     *)
(* send whatever he likes at any moment.  The session is a memory object   *)
(* with a reference count (re/src/mem): the user has one reference, and    *)
(* when the session is terminated it takes one more for each kind of thing *)
(* it must wait for (its request, its unacknowledged 2xx, its INFOs, then  *)
(* its BYE).  The destructor may so bring the object back to life.         *)
(*                                                                         *)
(* Every action is one callback or one call of the user, with all it does. *)
(* The handlers are operators on the record sess; `ok' arguments say which *)
(* of the calls that can fail succeed.                                     *)
(***************************************************************************)
EXTENDS Integers, SequencesExt

CONSTANTS
    MaxSeq,         \* bound on the CSeq numbers of the peer's INVITEs
    MaxReplies,     \* bound on the 2xx answers waiting for their ACK
    MaxInfos        \* bound on the INFO requests under way

ASSUME SessAssumption == MaxSeq \in Nat /\ MaxReplies \in Nat \ {0} /\ MaxInfos \in Nat

VARIABLES
    sess,       \* struct sipsess
    rseq        \* the dialog's remote sequence number

vars == <<sess, rseq>>

\* mem: has it been allocated, freed; refs: its reference count; user: the
\* user's reference is one of them.  req, tmr, st, desc: is the pointer set
\* (the timer running), and for req which request it is; rtag: the dialog
\* knows the peer's tag, so his requests find the session; replies and infos:
\* the lists replyl and requestl.  The last three fields only record what has
\* happened: the invitation was accepted (its 2xx was sent or received), BYE
\* was tried, estabh ("up") and closeh ("closed") were called.
NoSession ==
    [mem |-> "none", refs |-> 0, user |-> FALSE, terminated |-> 0,
     established |-> FALSE, peerterm |-> FALSE, modify_pending |-> FALSE,
     awaiting_answer |-> FALSE, sent_offer |-> FALSE, desc |-> FALSE,
     tmr |-> FALSE, st |-> FALSE, rtag |-> FALSE, req |-> "none", replies |-> <<>>,
     infos |-> 0, accepted |-> FALSE, byed |-> FALSE, news |-> <<>>]

Allocated == [NoSession EXCEPT !.mem = "live", !.refs = 1, !.user = TRUE]

Init == sess = NoSession /\ rseq = 0

(***************************************************************************)
(* Termination: sip_sess.c                                                 *)
(***************************************************************************)
One(b) == IF b THEN 1 ELSE 0

\* what a terminated session waits for, one reference each
Waits(s) == One(s.req # "none") + One(s.replies # <<>>) + One(s.infos > 0)

\* mutation: no reference for a 2xx that is not acknowledged
TermwaitImpatient(s) ==
    [s EXCEPT !.terminated = 1, !.tmr = FALSE, !.st = FALSE,
              !.refs = @ + One(s.req # "none") + One(s.infos > 0)]

\* mutation: the re-INVITE timer keeps running
TermwaitTimer(s) ==
    [s EXCEPT !.terminated = 1, !.st = FALSE, !.refs = @ + Waits(s)]

Termwait(s) ==
    [s EXCEPT !.terminated = 1, !.tmr = FALSE, !.st = FALSE, !.refs = @ + Waits(s)]

\* mutation: BYE only for an INVITE of our own
TerminateSilent(s, ok) ==
    LET t == [s EXCEPT !.terminated = 2]
    IN  IF ~s.established \/ s.peerterm \/ ~s.sent_offer \/ s.req # "none" THEN t
        ELSE [t EXCEPT !.byed = TRUE,
                       !.req  = IF ok THEN "BYE" ELSE @,
                       !.refs = IF ok THEN @ + 1 ELSE @]

\* terminate(): nobody is left to wait for, so BYE if the peer needs one
Terminate(s, ok) ==
    LET t == [s EXCEPT !.terminated = 2]
    IN  IF ~s.established \/ s.peerterm \/ s.req # "none" THEN t
        ELSE [t EXCEPT !.byed = TRUE,
                       !.req  = IF ok THEN "BYE" ELSE @,
                       !.refs = IF ok THEN @ + 1 ELSE @]

\* destructor(), called when the last reference is gone
Destroyed(s, ok) ==
    LET t == IF s.terminated = 0 THEN Termwait(s) ELSE s
        u == IF t.refs > 0 \/ t.terminated = 2 THEN t ELSE Terminate(t, ok)
    IN  IF u.refs > 0 THEN u ELSE [u EXCEPT !.mem = "freed"]

Deref(s, ok) ==
    LET t == [s EXCEPT !.refs = @ - 1]
    IN  IF t.refs = 0 THEN Destroyed(t, ok) ELSE t

UserDeref(s, ok) == Deref([s EXCEPT !.user = FALSE], ok)

\* sipsess_terminate(): closeh is the session's last word to a user who may
\* let go of it there and then
SipsessTerminate(s, ok, drop) ==
    LET t == Termwait(s)
        u == IF Waits(s) > 0 THEN t ELSE Terminate(t, ok)
        v == [u EXCEPT !.news = Append(@, "closed")]
    IN  IF s.terminated > 0 THEN s
        ELSE IF drop /\ s.user THEN UserDeref(v, ok) ELSE v

\* how a handler ends when its request has ended the session
Ended(s, ok, drop) ==
    IF s.terminated = 0 THEN SipsessTerminate(s, ok, drop) ELSE Deref(s, ok)

(***************************************************************************)
(* Requests and answers of the session                                     *)
(***************************************************************************)
\* invite() and sipsess_reinvite()
Invited(s, what, ok) ==
    [s EXCEPT !.sent_offer = s.desc, !.modify_pending = FALSE,
              !.req = IF ok THEN what ELSE "none"]

Reinvite(s, ok) == IF s.req # "none" THEN s ELSE Invited(s, "REINVITE", ok)

\* sipsess_reply_2xx()
Reply2xx(s, seq, awaiting, ok) ==
    IF ok
    THEN [s EXCEPT !.st = FALSE,
                   !.replies = Append(@, [seq |-> seq, awaiting_answer |-> awaiting]),
                   !.awaiting_answer = @ \/ awaiting,
                   !.accepted = TRUE]
    ELSE [s EXCEPT !.st = FALSE]

(***************************************************************************)
(* The user                                                                *)
(***************************************************************************)
Connect(desc) ==
    /\ sess = NoSession
    /\ sess' = Invited([Allocated EXCEPT !.desc = desc], "INVITE", TRUE)
    /\ UNCHANGED rseq

\* sipsess_accept(): the peer's first INVITE is answered 1xx or 2xx
SipsessAccept(at_once, awaiting) ==
    /\ sess = NoSession
    /\ LET s == [Allocated EXCEPT !.rtag = TRUE]
       IN  sess' = IF at_once THEN Reply2xx(s, 0, awaiting, TRUE) ELSE [s EXCEPT !.st = TRUE]
    /\ UNCHANGED rseq

\* sipsess_progress(): a response that cannot be sent loses the transaction
Progress(ok) ==
    /\ sess.user /\ sess.st
    /\ sess' = [sess EXCEPT !.st = ok]
    /\ UNCHANGED rseq

Answer(awaiting, ok) ==
    /\ sess.user /\ sess.st
    /\ sess' = Reply2xx(sess, 0, awaiting, ok)
    /\ UNCHANGED rseq

Reject ==
    /\ sess.user /\ sess.st
    /\ sess' = [sess EXCEPT !.st = FALSE]
    /\ UNCHANGED rseq

\* mutation: an unacknowledged answer does not put the re-INVITE off
ModifyEager(ok) ==
    /\ sess.user /\ ~sess.st /\ sess.terminated = 0
    /\ LET s == [sess EXCEPT !.desc = TRUE]
       IN  sess' = IF s.req # "none" \/ s.tmr
                   THEN [s EXCEPT !.modify_pending = TRUE]
                   ELSE Reinvite(s, ok)
    /\ UNCHANGED rseq

Modify(ok) ==
    /\ sess.user /\ ~sess.st /\ sess.terminated = 0
    /\ LET s == [sess EXCEPT !.desc = TRUE]
       IN  sess' = IF s.req # "none" \/ s.tmr \/ s.replies # <<>>
                   THEN [s EXCEPT !.modify_pending = TRUE]
                   ELSE Reinvite(s, ok)
    /\ UNCHANGED rseq

Info ==
    /\ sess.user /\ sess.terminated = 0 /\ sess.infos < MaxInfos
    /\ sess' = [sess EXCEPT !.infos = @ + 1]
    /\ UNCHANGED rseq

LetGo(ok) ==
    /\ sess.user
    /\ sess' = UserDeref(sess, ok)
    /\ UNCHANGED rseq

(***************************************************************************)
(* Outcomes of the session's own requests.  The request layer has cleared  *)
(* sess->req when it calls; "fail" stands for every other failure, those   *)
(* sip_request_loops() stops among them, "error" for the transport's.      *)
(***************************************************************************)
Done == [sess EXCEPT !.req = "none"]

\* invite_resp_handler, 2xx: created: the response makes a dialog;
\* agreed: the user's answerh or offerh and the sending of the ACK went well
InviteAccepted(created, agreed, ok, drop) ==
    LET s == [Done EXCEPT !.modify_pending = @ /\ sess.sent_offer,
                          !.established = TRUE, !.accepted = TRUE, !.rtag = TRUE]
    IN  /\ sess.req = "INVITE"
        /\ sess' = CASE ~created -> Ended(Done, ok, drop)
                     [] created /\ (~agreed \/ s.terminated > 0) -> Ended(s, ok, drop)
                     [] OTHER ->
                          [IF s.modify_pending THEN Reinvite(s, ok)
                                               ELSE [s EXCEPT !.desc = FALSE]
                             EXCEPT !.news = Append(@, "up")]
        /\ UNCHANGED rseq

\* a redirection or a challenge the session can answer: INVITE again
InviteAgain(ok, drop) ==
    /\ sess.req = "INVITE" /\ sess.terminated = 0
    /\ LET s == Invited(Done, "INVITE", ok)
       IN  sess' = IF ok THEN s ELSE Ended(s, ok, drop)
    /\ UNCHANGED rseq

InviteFailed(ok, drop) ==
    /\ sess.req = "INVITE"
    /\ sess' = Ended(Done, ok, drop)
    /\ UNCHANGED rseq

\* mutation: a pending modification is not looked for
ReinviteDoneDeaf(s, ok) ==
    IF s.terminated > 0 THEN Deref(s, ok) ELSE [s EXCEPT !.desc = FALSE]

\* the tail of reinvite_resp_handler
ReinviteDone(s, ok) ==
    CASE s.terminated > 0                    -> Deref(s, ok)
      [] s.terminated = 0 /\ s.modify_pending -> Reinvite(s, ok)
      [] OTHER                               -> [s EXCEPT !.desc = FALSE]

\* reinvite_resp_handler
ReinviteOutcome(class, ok, drop) ==
    /\ sess.req = "REINVITE"
    /\ sess' =
         CASE class = "2xx" ->
                ReinviteDone([Done EXCEPT !.modify_pending = @ /\ sess.sent_offer], ok)
           [] class = "auth" /\ sess.terminated = 0 ->
                IF ok THEN Reinvite(Done, TRUE) ELSE ReinviteDone(Reinvite(Done, FALSE), ok)
           [] class \in {"481", "timeout"} -> Ended(Done, ok, drop)
           [] class = "later" /\ sess.terminated = 0 -> [Done EXCEPT !.tmr = TRUE]
           [] OTHER -> ReinviteDone(Done, ok)
    /\ UNCHANGED rseq

\* tmr_handler of modify.c: 491 or Retry-After has been waited for
ReinviteTimer(ok) ==
    /\ sess.tmr
    /\ sess' = Reinvite([sess EXCEPT !.tmr = FALSE], ok)
    /\ UNCHANGED rseq

\* mutation: a challenge that cannot be answered leaves the session waiting
ByeOutcomeStuck(class, ok) ==
    /\ sess.req = "BYE"
    /\ sess' = IF class = "auth" /\ ~sess.peerterm
               THEN [Done EXCEPT !.req = IF ok THEN "BYE" ELSE "none"]
               ELSE Deref(Done, ok)
    /\ UNCHANGED rseq

\* bye_resp_handler; a challenge is answered with another BYE
ByeOutcome(class, ok) ==
    /\ sess.req = "BYE"
    /\ sess' = IF class = "auth" /\ ~sess.peerterm /\ ok
               THEN sess
               ELSE Deref(Done, ok)
    /\ UNCHANGED rseq

\* info_resp_handler: 408, 481 and timeouts end the session; the handler goes
\* on to use the session after that, and drops its own request last
InfoOutcome(fatal, ok, drop) ==
    /\ sess.infos > 0
    /\ LET s == IF fatal THEN SipsessTerminate(sess, ok, drop) ELSE sess
           t == [s EXCEPT !.infos = @ - 1]
       IN  sess' = IF t.terminated > 0 /\ t.infos = 0 THEN Deref(t, ok) ELSE t
    /\ UNCHANGED rseq

(***************************************************************************)
(* The peer's requests: listen.c, accept.c, sipsess_reply.c                *)
(***************************************************************************)
\* sipsess_find: the request's tags are those of the session's dialog
Found == sess.mem = "live" /\ sess.rtag

\* sip_dialog_rseq_valid: the peer's sequence number never goes back (here it
\* goes on by one at most); the request is refused otherwise
SeqValid(seq) == seq \in {rseq, rseq + 1} /\ rseq' = seq

\* info_handler and refer_handler: the user answers, the session stays
InfoArrives(seq) ==
    /\ Found /\ SeqValid(seq) /\ sess.terminated = 0
    /\ UNCHANGED sess

\* CANCEL of the first INVITE, while its transaction is unanswered
CancelArrives(ok, drop) ==
    /\ sess.st
    /\ sess' = SipsessTerminate([sess EXCEPT !.st = FALSE, !.peerterm = TRUE], ok, drop)
    /\ UNCHANGED rseq

ByeArrives(seq, ok, drop) ==
    /\ Found /\ SeqValid(seq)
    /\ sess' = LET s == [sess EXCEPT !.peerterm = TRUE]
               IN  IF s.terminated > 0 THEN s
                   ELSE SipsessTerminate([s EXCEPT !.st = FALSE], ok, drop)

\* reinvite_handler: refused with 481, 500, 491 or 488, or answered with the
\* user's description; a repeated INVITE has the sequence number it had
ReinviteArrives(seq, agreed, awaiting, ok) ==
    /\ Found /\ SeqValid(seq) /\ sess.terminated = 0
    /\ IF sess.st \/ sess.awaiting_answer \/ sess.req # "none" \/ ~agreed
       THEN sess' = sess
       ELSE /\ Len(sess.replies) < MaxReplies
            /\ sess' = [Reply2xx(sess, seq, awaiting, ok)
                          EXCEPT !.desc = FALSE, !.modify_pending = FALSE, !.tmr = FALSE]

\* ack_handler: the ACK takes the first reply with its number off the list
AckArrives(seq, agreed, ok, drop) ==
    /\ Found
    /\ \E r \in ToSet(sess.replies) : r.seq = seq
    /\ LET i == SelectInSeq(sess.replies, LAMBDA r : r.seq = seq)
           a == sess.replies[i].awaiting_answer
           s == [sess EXCEPT !.replies = RemoveAt(@, i)]
           t == [s EXCEPT !.awaiting_answer = @ /\ ~a]
           u == IF t.modify_pending /\ t.replies = <<>> THEN Reinvite(t, ok) ELSE t
           v == [u EXCEPT !.established = TRUE]
       IN  sess' =
             CASE s.terminated > 0 /\ s.replies # <<>> -> s
               [] s.terminated > 0 /\ s.replies = <<>> ->
                    Deref([s EXCEPT !.established = TRUE], ok)
               [] s.terminated = 0 /\ s.established -> u
               [] s.terminated = 0 /\ ~s.established /\ a /\ ~agreed ->
                    SipsessTerminate(v, ok, drop)
               [] OTHER -> [v EXCEPT !.news = Append(@, "up")]
    /\ UNCHANGED rseq

\* mutation: the newest answer times out first
ReplyTimerNewest(ok, drop) ==
    /\ sess.replies # <<>>
    /\ LET s == [sess EXCEPT !.replies = Front(@)]
       IN  sess' = IF s.replies # <<>> THEN s
                   ELSE Ended([s EXCEPT !.established = TRUE], ok, drop)
    /\ UNCHANGED rseq

\* tmr_handler of sipsess_reply.c, 64*T1 after the answer: all have the same
\* delay, so the oldest goes first; the last one ends the session
ReplyTimer(ok, drop) ==
    /\ sess.replies # <<>>
    /\ LET s == [sess EXCEPT !.replies = Tail(@)]
       IN  sess' = IF s.replies # <<>> THEN s
                   ELSE Ended([s EXCEPT !.established = TRUE], ok, drop)
    /\ UNCHANGED rseq

(***************************************************************************)
(* The session                                                             *)
(***************************************************************************)
UserCalls ==
    \/ \E b \in BOOLEAN : Connect(b) \/ Progress(b) \/ Modify(b) \/ LetGo(b)
    \/ \E b, awaiting \in BOOLEAN : SipsessAccept(b, awaiting) \/ Answer(awaiting, b)
    \/ Reject \/ Info

\* final outcomes of the requests, and the timers: what is sure to come
RequestsEnd ==
    \/ \E ok, drop \in BOOLEAN :
           \/ \E created, agreed \in BOOLEAN : InviteAccepted(created, agreed, ok, drop)
           \/ InviteFailed(ok, drop)
           \/ \E class \in {"2xx", "481", "timeout", "fail", "error"} :
                  ReinviteOutcome(class, ok, drop)
    \/ \E ok \in BOOLEAN : ByeOutcome("fail", ok)
InfosEnd == \E fatal, ok, drop \in BOOLEAN : InfoOutcome(fatal, ok, drop)
RepliesEnd == \E ok, drop \in BOOLEAN : ReplyTimer(ok, drop)

Challenged ==
    \E ok, drop \in BOOLEAN :
        \/ InviteAgain(ok, drop)
        \/ ReinviteOutcome("auth", ok, drop) \/ ReinviteOutcome("later", ok, drop)
        \/ ByeOutcome("auth", ok)

PeerRequests ==
    \E ok, drop \in BOOLEAN :
        \/ CancelArrives(ok, drop)
        \/ \E seq \in 0..MaxSeq, agreed \in BOOLEAN :
               \/ InfoArrives(seq) \/ ByeArrives(seq, ok, drop)
               \/ AckArrives(seq, agreed, ok, drop)
               \/ ReinviteArrives(seq, agreed, drop, ok)

Next ==
    \/ UserCalls \/ RequestsEnd \/ InfosEnd \/ RepliesEnd \/ Challenged \/ PeerRequests
    \/ \E ok \in BOOLEAN : ReinviteTimer(ok)

\* The request layer ends every request that was cancelled, and every BYE
\* and INFO (ClientRequest, RequestEnds), and the reply timers run.
Fairness ==
    /\ WF_vars(sess.terminated > 0 /\ RequestsEnd)
    /\ WF_vars(InfosEnd) /\ WF_vars(RepliesEnd)

Spec == Init /\ [][Next]_vars /\ Fairness

(***************************************************************************)
(* Properties                                                              *)
(***************************************************************************)
Requests == {"none", "INVITE", "REINVITE", "BYE"}

Sessions ==
    [mem : {"none", "live", "freed"}, refs : Nat, user : BOOLEAN, terminated : 0..2,
     established : BOOLEAN, peerterm : BOOLEAN, modify_pending : BOOLEAN,
     awaiting_answer : BOOLEAN, sent_offer : BOOLEAN, desc : BOOLEAN,
     tmr : BOOLEAN, st : BOOLEAN, rtag : BOOLEAN, req : Requests,
     replies : Seq([seq : Nat, awaiting_answer : BOOLEAN]), infos : Nat,
     accepted : BOOLEAN, byed : BOOLEAN, news : Seq({"up", "closed"})]

SessTypeOK == sess \in Sessions /\ rseq \in 0..MaxSeq

\* The reference count is exactly the user's reference and those of the
\* things the session still waits for: one too few is a use of freed memory,
\* one too many a session that never goes away and never says BYE.
RefsExact ==
    sess.refs = One(sess.user) + IF sess.terminated > 0 THEN Waits(sess) ELSE 0

\* The object is freed only when nobody can call back into it: no user, no
\* request, no reply or INFO under way, no timer, no transaction.
FreedAtRest ==
    sess.mem = "freed" =>
        /\ Waits(sess) = 0
        /\ ~sess.user /\ ~sess.tmr /\ ~sess.st

\* A modification the user asked for while he could not have it sent (another
\* request, a delay or an unacknowledged answer in the way) always has
\* something in progress that will wake it up: it is not forgotten.  (Only a
\* re-INVITE that cannot be sent at all is given up.)
ModifyNotLost ==
    sess.modify_pending /\ sess.terminated = 0
        => sess.req # "none" \/ sess.tmr \/ sess.replies # <<>>

\* The session never has an INVITE of its own under way, or waits to repeat
\* one, while it has answered an INVITE of the peer and not got the ACK: the
\* two offers would cross.
NoGlare ==
    (sess.req \in {"INVITE", "REINVITE"} \/ sess.tmr) /\ sess.terminated = 0
        => sess.replies = <<>> /\ ~sess.st

\* While re-INVITEs are refused because an answer is awaited in an ACK, that
\* ACK or its timeout is still to come; otherwise the session would refuse
\* the peer's re-INVITEs for good.
AnswerAwaited ==
    sess.awaiting_answer /\ sess.terminated = 0
        => \E r \in ToSet(sess.replies) : r.awaiting_answer

\* The session keeps the promise of SessionPromise.
Promise == INSTANCE SessionPromise WITH
    user     <- IF sess.mem = "none" THEN "none" ELSE IF sess.user THEN "holds" ELSE "gone",
    news     <- sess.news,
    dialog   <- IF sess.peerterm \/ sess.byed THEN "over"
                ELSE IF sess.accepted THEN "up" ELSE "none",
    released <- sess.mem = "freed"

KeepsPromise == Promise!Spec

\* A session its user let go of ends and is freed, whatever the peer does.
SessionGoes == Promise!Goes
=============================================================================
