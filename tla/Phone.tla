-------------------------------- MODULE Phone --------------------------------
(***************************************************************************)
(* The phone: qSIP/PhoneThread.cpp and qSIP/PhoneWidget.cpp above the user *)
(* agent's calls.                                                          *)
(*                                                                         *)
(* The SIP thread handles sessions, timers and the events they raise; the  *)
(* GUI thread runs what the user asks for and its own timer.  Both write   *)
(* the phone's state, without a lock: each changes the user agent's calls  *)
(* first and reaches setState later, which looks at the state, writes it   *)
(* and emits it in steps of their own.  A signal emitted in the SIP thread *)
(* is queued for the GUI thread, one emitted in the GUI thread is handled  *)
(* at once.  What a thread does inside the user agent before the event, or *)
(* in one call into it, is one step.  Numbers, texts and directions are    *)
(* shown only and left out.                                                *)
(***************************************************************************)
EXTENDS UserAgent

CONSTANT RingingTimeout    \* ringing_timeout_sec, in ticks

ASSUME PhoneAssumption == RingingTimeout \in Nat

VARIABLES
    phone,      \* m->state of PhoneThread
    event,      \* where the SIP thread is: in its loop, or with the event of call c on the
                \* way to setState(s)
    crossed,    \* was phone last written for a call that the user had already hung up?
    queue,      \* signals on their way to the GUI thread
    gui,        \* where the GUI thread is
    ringing,    \* ringing_time: Off, or the ticks since it was started
    holdBox,    \* is checkBox_hold checked?
    asked,      \* the incoming calls the user has asked to be answered
    age         \* age[c]: ticks since c was placed

guiVars == <<gui, ringing, holdBox, asked, age>>
phVars == <<uaVars, phone, event, crossed, queue, guiVars>>

InLoop == [at |-> "loop", c |-> 0, s |-> "Idle"]

Init ==
  /\ UaInit
  /\ phone = "Idle" /\ queue = <<>>
  /\ event = InLoop /\ crossed = FALSE
  /\ gui = "waiting" /\ ringing = Off /\ holdBox = FALSE
  /\ asked = {}
  /\ age = [c \in Calls |-> 0]

-----------------------------------------------------------------------------
(***************************************************************************)
(* The SIP thread: a handler changes the call and raises an event; setState*)
(* and onPhoneEvent follow.                                                *)
(***************************************************************************)
\* mutation: the closed call is forgotten without a change of state
RaisedUnlessIdle(c, s) ==
  /\ event.at = "loop"
  /\ event' = [at |-> IF s = "Idle" THEN "tells" ELSE "tests", c |-> c, s |-> s]
  /\ UNCHANGED <<phone, crossed, guiVars>>

\* the event of c is on its way through call_event_handler and onPhoneEvent
Raised(c, s) ==
  /\ event.at = "loop"
  /\ event' = [at |-> "tests", c |-> c, s |-> s]
  /\ UNCHANGED <<phone, crossed, guiVars>>

CallIncoming(c) == CallAccept(c) /\ Raised(c, "Incoming") /\ UNCHANGED queue

\* 100 is TRYING and others are RINGING, unless early media make them PROGRESS.
CallProceeds(c, scode, media) ==
  /\ SipsessProgr(c, scode)
  /\ IF media /\ scode # 100
     THEN event.at = "loop" /\ UNCHANGED <<phone, event, crossed, guiVars>>
     ELSE Raised(c, "Outgoing")
  /\ UNCHANGED queue

CallEstablished(c) == SipsessEstab(c) /\ Raised(c, "Established") /\ UNCHANGED queue

\* closed is emitted before the state is set
OnClosed(c) == Raised(c, "Idle") /\ queue' = Append(queue, "closed")

CallClosed(c) == SipsessClose(c) /\ OnClosed(c)

CallTimesOut(c) == InviteTimeout(c) /\ OnClosed(c)

\* after setState: callIncoming is emitted, a closed call is dereferenced
Rest == IF event.s \in {"Incoming", "Idle"} THEN [event EXCEPT !.at = "tells"] ELSE InLoop

\* setState: the state is compared, written and, read once more, emitted.
SipTests ==
  /\ event.at = "tests"
  /\ event' = IF phone = event.s THEN Rest ELSE [event EXCEPT !.at = "writes"]
  /\ UNCHANGED <<uaVars, phone, crossed, queue, guiVars>>

SipWrites ==
  /\ event.at = "writes" /\ event' = [event EXCEPT !.at = "emits"]
  /\ phone' = event.s
  /\ crossed' = (event.s # "Idle" /\ call[event.c].state = "freed")
  /\ UNCHANGED <<uaVars, queue, guiVars>>

SipEmits ==
  /\ event.at = "emits" /\ event' = Rest
  /\ queue' = Append(queue, phone)
  /\ UNCHANGED <<uaVars, phone, crossed, guiVars>>

\* the rest of onPhoneEvent and of call_event_handler
SipTells ==
  /\ event.at = "tells" /\ event' = InLoop
  /\ queue' = IF event.s = "Incoming" THEN Append(queue, "callIncoming") ELSE queue
  /\ IF event.s = "Idle" THEN Dropped(event.c) ELSE UNCHANGED uaVars
  /\ UNCHANGED <<phone, crossed, guiVars>>

SipGoesOn == SipTests \/ SipWrites \/ SipEmits \/ SipTells

-----------------------------------------------------------------------------
(***************************************************************************)
(* The GUI thread.                                                         *)
(***************************************************************************)
\* PhoneWidget::call: nothing keeps the user from placing another call.
UserCalls(c, ok) ==
  /\ gui = "waiting"
  /\ UaConnect(c, ok)
  /\ gui' = IF ok THEN "placing" ELSE "waiting"
  /\ ringing' = Off
  /\ UNCHANGED <<phone, event, crossed, queue, holdBox, asked, age>>

CallPlaced ==
  /\ gui = "placing"
  /\ gui' = "waiting"
  /\ ringing' = 0
  /\ UNCHANGED <<uaVars, phone, event, crossed, queue, holdBox, asked, age>>

\* PhoneThread::hangup, on the user's demand or by PhoneWidget's timer
Hangup ==
  /\ gui \in {"waiting", "timedOut"}
  /\ UaHangup
  /\ gui' = "hungUp"
  /\ UNCHANGED <<phone, event, crossed, queue, ringing, holdBox, asked, age>>

\* its setState: the state is compared, written and, read once more, emitted; onStateChanged
\* runs at once and stops the ringing time
HangupTests ==
  /\ gui = "hungUp"
  /\ gui' = IF phone = "Idle" THEN "waiting" ELSE "idles"
  /\ UNCHANGED <<uaVars, phone, event, crossed, queue, ringing, holdBox, asked, age>>

HangupWrites ==
  /\ gui = "idles" /\ gui' = "idled"
  /\ phone' = "Idle" /\ crossed' = FALSE
  /\ UNCHANGED <<uaVars, event, queue, ringing, holdBox, asked, age>>

HangupEmits ==
  /\ gui = "idled" /\ gui' = "waiting"
  /\ ringing' = IF phone = "Outgoing" THEN ringing ELSE Off
  /\ UNCHANGED <<uaVars, phone, event, crossed, queue, holdBox, asked, age>>

\* mutation: the state of the phone is not looked at
RingingTimesOutAnyway ==
  /\ gui = "waiting"
  /\ ringing >= RingingTimeout
  /\ gui' = "timedOut"
  /\ UNCHANGED <<uaVars, phone, event, crossed, queue, ringing, holdBox, asked, age>>

\* PhoneWidget::timerEvent decides on what it sees.
RingingTimesOut ==
  /\ gui = "waiting"
  /\ phone = "Outgoing" /\ ringing >= RingingTimeout
  /\ gui' = "timedOut"
  /\ UNCHANGED <<uaVars, phone, event, crossed, queue, ringing, holdBox, asked, age>>

AskedNow == asked \union {c \in Calls : list # <<>> /\ c = Last(list) /\ call[c].state = "incoming"}

UserAnswers(ok) ==
  /\ gui = "waiting"
  /\ UaAnswer(ok)
  /\ asked' = AskedNow
  /\ UNCHANGED <<phone, event, crossed, queue, gui, ringing, holdBox, age>>

\* on_checkBox_hold_toggled: answers the call, then holds or resumes it.
UserToggles(ok) ==
  /\ gui = "waiting"
  /\ holdBox' = ~holdBox
  /\ UaAnswer(ok)
  /\ asked' = AskedNow
  /\ UNCHANGED <<phone, event, crossed, queue, gui, ringing, age>>

\* The GUI handles the next signal.  onCallIncoming and onClosed clear the box, which is a
\* toggle like the user's if it was checked.
SignalHandled(ok) ==
  /\ gui = "waiting" /\ queue # <<>>
  /\ queue' = Tail(queue)
  /\ IF Head(queue) \in {"callIncoming", "closed"}
     THEN /\ holdBox' = FALSE
          /\ IF holdBox THEN UaAnswer(ok) ELSE UNCHANGED uaVars
          /\ UNCHANGED ringing
     ELSE /\ ringing' = IF Head(queue) = "Outgoing" THEN ringing ELSE Off
          /\ UNCHANGED <<uaVars, holdBox>>
  /\ UNCHANGED <<phone, event, crossed, gui, asked, age>>

-----------------------------------------------------------------------------
\* Time passes unless a call's timer is due.
Tick ==
  /\ \A c \in Calls : call[c].tmr # 0
  /\ call' = [c \in Calls |-> [call[c] EXCEPT !.tmr = IF @ = Off THEN Off ELSE @ - 1]]
  /\ ringing' = IF ringing = Off THEN Off ELSE Min({ringing + 1, RingingTimeout})
  /\ age' = [c \in Calls |-> IF InList(c) THEN Min({age[c] + 1, RingingTimeout}) ELSE 0]
  /\ UNCHANGED <<list, phone, event, crossed, queue, gui, holdBox, asked>>

Next ==
  \/ \E c \in Calls :
        \/ CallIncoming(c) \/ CallEstablished(c) \/ CallClosed(c) \/ CallTimesOut(c)
        \/ \E scode \in {100, 180, 183}, media \in BOOLEAN : CallProceeds(c, scode, media)
  \/ \E ok \in BOOLEAN :
        \/ \E c \in Calls : UserCalls(c, ok)
        \/ UserAnswers(ok) \/ UserToggles(ok) \/ SignalHandled(ok)
  \/ SipGoesOn
  \/ CallPlaced \/ Hangup \/ HangupTests \/ HangupWrites \/ HangupEmits \/ RingingTimesOut
  \/ Tick

\* Time goes on; the SIP thread finishes what it has begun and looks at its timers in every
\* round of its loop, however many events come before them.
Fairness == /\ WF_phVars(Tick) /\ WF_phVars(SipGoesOn)
            /\ \A c \in Calls : SF_phVars(CallTimesOut(c))

Spec == Init /\ [][Next]_phVars /\ Fairness

-----------------------------------------------------------------------------
(***************************************************************************)
(* Properties.                                                             *)
(***************************************************************************)
\* Is PhoneThread::hangup between ua_hangup and the write of Idle?
HangingUp == gui \in {"hungUp", "idles"}

\* The phone shows a call only while there is one: although both threads write its state,
\* nothing leaves it busy but a hangup that comes between the event of a call and setState.
OnlyCrossingLeavesBusy == phone # "Idle" /\ ~HangingUp /\ ~crossed => list # <<>>

\* The GUI's timer decides to give a call up only when that call, the last one, was placed
\* long enough ago, whatever calls came and went before it, unless the phone was left busy by
\* such a hangup.
RingsLongEnough(c) == age[c] >= RingingTimeout
OnlyCrossingEndsOther ==
  [][gui' = "timedOut" /\ gui # "timedOut" /\ ~crossed =>
        list # <<>> /\ RingsLongEnough(Last(list))]_phVars

\* What the code does not guarantee: both without the exception.
BusyHasCall == phone # "Idle" /\ ~HangingUp => list # <<>>
RingsOut ==
  [][gui' = "timedOut" /\ gui # "timedOut" =>
        list # <<>> /\ RingsLongEnough(Last(list))]_phVars

\* "Incoming call timeout": an incoming call is over or established after a while, even if
\* nobody answers, the ACK to the answer never comes and the session says nothing.
IncomingSettles ==
  \A c \in Calls : call[c].state = "incoming" ~> call[c].state # "incoming"

\* The account's answer mode is manual: a call is answered only when the user asks for it.
AnsweredWhenAsked == \A c \in Calls : call[c].answered => c \in asked

=============================================================================
