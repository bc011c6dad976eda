------------------------------ MODULE UserAgent ------------------------------
(***************************************************************************)
(* The user agent's calls: baresip/src/call.c and the call list of         *)
(* baresip/src/ua.c, above a session that keeps SessionPromise.            *)
(*                                                                         *)
(* Each action is a call of the session's or of the user's side and says   *)
(* how the list changes; the events it raises are handled in Phone.  The   *)
(* account answers manually and media need no NAT traversal, as the phone  *)
(* configures it; transfer (REFER) and what a stream sends are left out.   *)
(***************************************************************************)
EXTENDS Integers, SequencesExt

CONSTANTS Calls,         \* calls, in the order they are made
          LocalTimeout,  \* LOCAL_TIMEOUT, in ticks
          MaxCalls       \* MAX_CALLS

ASSUME UserAgentAssumption ==
  Calls \subseteq Nat \ {0} /\ LocalTimeout \in Nat \ {0} /\ MaxCalls \in Nat \ {0}

Off == -1

VARIABLES call,      \* the calls
          list       \* ua->calls

uaVars == <<call, list>>

\* answered: the 200 has been sent; tmr: what is left of tmr_inv
NewCall == [state |-> "idle", answered |-> FALSE, tmr |-> Off]

UaInit == call = [c \in Calls |-> NewCall] /\ list = <<>>

IsNext(c) == /\ call[c].state = "idle"
             /\ \A d \in Calls : d < c => call[d].state # "idle"

InList(c) == c \in {list[i] : i \in DOMAIN list}

Trying == {"outgoing", "ringing", "early"}

\* The call is dereferenced: its destructor takes it off the list and lets go of the session.
Freed(c) == /\ call' = [call EXCEPT ![c] = [NewCall EXCEPT !.state = "freed"]]
            /\ list' = RemoveFirst(list, c)

-----------------------------------------------------------------------------
(***************************************************************************)
(* Calls from the session, in the SIP thread.                              *)
(***************************************************************************)
\* sipsess_conn_handler and call_accept; with MaxCalls in the list the answer is 486.
CallAccept(c) ==
  /\ IsNext(c)
  /\ Len(list) + 1 <= MaxCalls
  /\ list' = Append(list, c)
  /\ call' = [call EXCEPT ![c].state = "incoming", ![c].tmr = LocalTimeout]

\* sipsess_progr_handler
SipsessProgr(c, scode) ==
  /\ InList(c) /\ call[c].state \in Trying
  /\ call' = [call EXCEPT ![c].state = CASE scode = 180 -> "ringing"
                                         [] scode = 183 -> "early"
                                         [] OTHER -> @]
  /\ UNCHANGED list

\* sipsess_estab_handler: the call was answered by the peer, or the peer's ACK has arrived.
SipsessEstab(c) ==
  /\ InList(c)
  /\ call[c].state \in Trying \/ (call[c].state = "incoming" /\ call[c].answered)
  /\ call' = [call EXCEPT ![c].state = "established", ![c].tmr = Off]
  /\ UNCHANGED list

\* The call is over for its session or by its timer, which is stopped or has run; it stays in
\* the list until the event it raises has been told.
Over(c) == call' = [call EXCEPT ![c].tmr = Off] /\ UNCHANGED list

\* sipsess_close_handler
SipsessClose(c) == InList(c) /\ Over(c)

\* invite_timeout
InviteTimeout(c) == InList(c) /\ call[c].tmr = 0 /\ Over(c)

\* CALL_EVENT_CLOSED has been told; a call that the user has hung up meanwhile is gone
Dropped(c) == IF call[c].state = "freed" THEN UNCHANGED uaVars ELSE Freed(c)

-----------------------------------------------------------------------------
(***************************************************************************)
(* Calls from the user, in the GUI thread.  They mean the last of the list.*)
(***************************************************************************)
\* ua_connect: an INVITE that cannot be sent leaves no call behind.
UaConnect(c, ok) ==
  /\ IsNext(c)
  /\ call' = [call EXCEPT ![c].state = IF ok THEN "outgoing" ELSE "freed"]
  /\ list' = IF ok THEN Append(list, c) ELSE list

\* ua_hangup: rejects, cancels or ends, and derefs the call; it raises no event.
UaHangup == IF list = <<>> THEN UNCHANGED uaVars ELSE Freed(Last(list))

\* mutation: answering stops the timer
UaAnswerUntimed(ok) ==
  /\ call' = IF list # <<>> /\ call[Last(list)].state = "incoming"
             THEN [call EXCEPT ![Last(list)].answered = @ \/ ok, ![Last(list)].tmr = Off]
             ELSE call
  /\ UNCHANGED list

\* ua_answer and call_answer: the call stays incoming until the ACK.
UaAnswer(ok) ==
  /\ call' = IF list # <<>> /\ call[Last(list)].state = "incoming"
             THEN [call EXCEPT ![Last(list)].answered = @ \/ ok] ELSE call
  /\ UNCHANGED list

=============================================================================
