------------------------------ MODULE MainLoop ------------------------------
(***************************************************************************)
(* The event loop (re/src/main/main.c) with its timers (re/src/tmr/tmr.c)  *)
(* as the phone runs it: the SIP thread is in PhoneThread::run, the GUI    *)
(* thread starts timers in the same list when it dials or hangs up, and    *)
(* ends the SIP thread in PhoneThread::close.  Time is counted in ticks,   *)
(* and passes only while the loop sleeps in poll.                          *)
(***************************************************************************)
EXTENDS Integers, SequencesExt

CONSTANTS
    Timers,         \* the timers of the SIP stack
    NetTimer,       \* the timer of net.c, which is always running
    NetInterval,    \* its interval
    Delays,         \* the delays timers are started with
    PollMax         \* the longest sleep in poll (100 ms)

ASSUME LoopAssumption ==
    /\ NetTimer \notin Timers
    /\ Delays \subseteq Nat /\ {NetInterval, PollMax} \subseteq Nat \ {0}

VARIABLES
    tmrl,           \* the timer list: [tmr, left], left until the timer expires
    polling,        \* re->polling
    interrupted,    \* isInterruptionRequested
    sip,            \* where the SIP thread is
    sleep,          \* what is left of its sleep in poll
    closing             \* where the GUI thread is in PhoneThread::close

loopVars == <<tmrl, polling, interrupted, sip, sleep, closing>>

InMain == {"loop", "poll", "fds", "timers"}

-----------------------------------------------------------------------------
(***************************************************************************)
(* tmr.c                                                                   *)
(***************************************************************************)
Unlinked(l, t) == RemoveFirstMatch(l, LAMBDA e : e.tmr = t)

\* tmr_start searches from the front for a delay of 0 and from the back for any other
Linked(l, e, delay) ==
  IF delay = 0
  THEN LET next == SelectInSeq(l, LAMBDA f : f.left > e.left)
       IN IF next = 0 THEN Append(l, e) ELSE InsertAt(l, next, e)
  ELSE InsertAt(l, SelectLastInSeq(l, LAMBDA f : f.left <= e.left) + 1, e)

Started(l, t, delay) == Linked(Unlinked(l, t), [tmr |-> t, left |-> delay], delay)

Due(l) == l # <<>> /\ Head(l).left <= 0

\* what a handler, or another thread, may do to the timer list
Touched(l, delays) == {l} \union {Unlinked(l, t) : t \in Timers}
                          \union {Started(l, t, d) : t \in Timers, d \in delays}

-----------------------------------------------------------------------------
LoopInit ==
  /\ tmrl = <<[tmr |-> NetTimer, left |-> NetInterval]>>
  /\ polling = FALSE /\ interrupted = FALSE
  /\ sip = "run" /\ sleep = 0 /\ closing = "idle"

(***************************************************************************)
(* The SIP thread: PhoneThread::run and re_main.                           *)
(***************************************************************************)
\* run tests whether it should end and enters re_main; in between it waits for the mutex
CheckInterruption ==
  /\ sip = "run"
  /\ sip' = IF interrupted THEN "ended" ELSE "checked"
  /\ UNCHANGED <<tmrl, polling, interrupted, sleep, closing>>

EnterMain ==
  /\ sip = "checked"
  /\ polling' = TRUE
  /\ sip' = "loop"
  /\ UNCHANGED <<tmrl, interrupted, sleep, closing>>

\* mutation: once in its loop, re_main does not look at the flag again
NextRoundBlind ==
  /\ sip = "loop"
  /\ sip' = "poll"
  /\ sleep' = CASE tmrl = <<>> -> -1
                [] Due(tmrl) -> 0
                [] OTHER -> Min({Head(tmrl).left, PollMax})
  /\ UNCHANGED <<tmrl, polling, interrupted, closing>>

\* mutation: the loop sleeps until its next timer
NextRoundLong ==
  /\ sip = "loop"
  /\ IF ~polling THEN sip' = "ended" /\ UNCHANGED sleep
     ELSE /\ sip' = "poll"
          /\ sleep' = IF tmrl = <<>> THEN -1 ELSE IF Due(tmrl) THEN 0 ELSE Head(tmrl).left
  /\ UNCHANGED <<tmrl, polling, interrupted, closing>>

\* a round of the loop: re_main returns 0 when it was cancelled, and run breaks; fd_poll
\* sleeps until the next timer, at most PollMax, and without a timer for good
NextRound ==
  /\ sip = "loop"
  /\ IF ~polling THEN sip' = "ended" /\ UNCHANGED sleep
     ELSE /\ sip' = "poll"
          /\ sleep' = CASE tmrl = <<>> -> -1
                        [] Due(tmrl) -> 0
                        [] OTHER -> Min({Head(tmrl).left, PollMax})
  /\ UNCHANGED <<tmrl, polling, interrupted, closing>>

\* poll returns: there is something to read, or the time is over
PollReturns ==
  /\ sip = "poll"
  /\ \/ sip' = "fds"
     \/ sleep = 0 /\ sip' = "timers"
  /\ sleep' = 0
  /\ UNCHANGED <<tmrl, polling, interrupted, closing>>

\* poll is interrupted by the signals of close; the timers are not looked at
PollInterrupted ==
  /\ sip = "poll" /\ closing = "waiting"
  /\ sip' = "loop"
  /\ sleep' = 0
  /\ UNCHANGED <<tmrl, polling, interrupted, closing>>

FdHandler ==
  /\ sip = "fds"
  /\ tmrl' \in Touched(tmrl, Delays)
  /\ sip' \in {"fds", "timers"}
  /\ UNCHANGED <<polling, interrupted, sleep, closing>>

\* tmr_poll: the timer that is due leaves the list before its handler is called; that of
\* the network is started again first of all (ipchange_handler).  That a timer's handler
\* starts one that is due at once (dns/client.c) happens only so often, and is left out.
TmrPoll ==
  /\ sip = "timers"
  /\ IF Due(tmrl)
     THEN LET t == Head(tmrl).tmr
              rest == IF t = NetTimer THEN Started(Tail(tmrl), t, NetInterval) ELSE Tail(tmrl)
          IN tmrl' \in Touched(rest, Delays \ {0}) /\ UNCHANGED sip
     ELSE sip' = "loop" /\ UNCHANGED tmrl
  /\ UNCHANGED <<polling, interrupted, sleep, closing>>

(***************************************************************************)
(* The GUI thread.                                                         *)
(***************************************************************************)
\* it dials, answers or hangs up: the stack starts and cancels timers
GuiCall ==
  /\ closing = "idle" /\ sip # "ended"
  /\ tmrl' \in Touched(tmrl, Delays)
  /\ UNCHANGED <<polling, interrupted, sip, sleep, closing>>

\* close: hang up, requestInterruption, re_cancel, and signals until the thread has ended
CloseInterrupt ==
  /\ closing = "idle"
  /\ interrupted' = TRUE
  /\ closing' = "interrupting"
  /\ UNCHANGED <<tmrl, polling, sip, sleep>>

ReCancel ==
  /\ closing = "interrupting"
  /\ polling' = FALSE
  /\ closing' = "waiting"
  /\ UNCHANGED <<tmrl, interrupted, sip, sleep>>

ThreadEnded ==
  /\ closing = "waiting" /\ sip = "ended"
  /\ closing' = "closed"
  /\ UNCHANGED <<tmrl, polling, interrupted, sip, sleep>>

LoopTick ==
  /\ sip = "poll" /\ sleep # 0
  /\ sleep' = IF sleep = -1 THEN -1 ELSE sleep - 1
  /\ tmrl' = [i \in DOMAIN tmrl |-> [tmrl[i] EXCEPT !.left = @ - 1]]
  /\ UNCHANGED <<polling, interrupted, sip, closing>>

SipThread == CheckInterruption \/ EnterMain \/ NextRound \/ PollReturns \/ PollInterrupted
             \/ FdHandler \/ TmrPoll
GuiThread == CloseInterrupt \/ ReCancel \/ ThreadEnded

LoopNext == SipThread \/ GuiThread \/ GuiCall \/ LoopTick

LoopFairness ==
  /\ WF_loopVars(CheckInterruption) /\ WF_loopVars(EnterMain) /\ WF_loopVars(NextRound)
  /\ WF_loopVars(PollReturns) /\ WF_loopVars(TmrPoll) /\ WF_loopVars(LoopTick)
  /\ WF_loopVars(FdHandler /\ sip' = "timers")
  /\ WF_loopVars(ReCancel) /\ WF_loopVars(ThreadEnded)

LoopSpec == LoopInit /\ [][LoopNext]_loopVars /\ LoopFairness

-----------------------------------------------------------------------------
(***************************************************************************)
(* Properties.                                                             *)
(***************************************************************************)
\* No timer is called more than PollMax late: neither one that another thread started while
\* the loop slept in poll, nor one behind it in the list.
TimersPrompt == \A i \in DOMAIN tmrl : tmrl[i].left >= -PollMax

\* A cancel that finds the loop running ends the SIP thread.
CancelHeeded == (closing = "waiting" /\ sip \in InMain /\ ~polling) ~> sip = "ended"

\* The GUI thread, which cancels the loop and waits for the SIP thread, gets to the end of
\* close.  The code does not guarantee this (see the README): a cancel between
\* CheckInterruption and EnterMain is lost.
CancelCloses == closing = "waiting" ~> closing = "closed"
=============================================================================
