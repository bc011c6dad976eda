---------------------------- MODULE AudioReceive ----------------------------
(***************************************************************************)
(* How the peer's voice is played: the SIP thread receives packets, sorts  *)
(* them (RtpStream), decodes them and appends the sound to the audio       *)
(* buffer; the GUI thread's timer calls the player, which reads it.  The   *)
(* player is found through callback pointers that the SIP thread sets when *)
(* the call's audio starts and clears, under a mutex, after it was stopped.*)
(***************************************************************************)
EXTENDS RtpStream, Aubuf

CONSTANTS PktSz,       \* bytes decoded from one packet
          ReadSz,      \* bytes the player reads at once
          NoBuffer     \* rx->ab when there is none

ASSUME AudioAssumption ==
  /\ PktSz \in Nat /\ ReadSz \in Nat \ {0}
  /\ NoBuffer \notin Aubufs

VARIABLES ab,          \* rx->ab
          player,      \* rx->auplay: "none", "alive", "freed"
          callback,    \* is callback_output_f set?
          gui,         \* the GUI thread: "idle", or "calling" with the mutex
          heard        \* the packet heard last

deviceVars == <<player, callback, gui>>
arVars == <<jb, newest, copies, played, strm, todo, ab, player, callback, gui, heard>>

Init ==
  /\ JbInit
  /\ strm = NewStream /\ todo = <<>>
  /\ ab = NoBuffer /\ player = "none" /\ callback = FALSE
  /\ gui = "idle" /\ heard = 0

-----------------------------------------------------------------------------
(***************************************************************************)
(* The SIP thread.                                                         *)
(***************************************************************************)
Stopped == player = "freed"

PacketArrives(p) ==
  /\ ~Stopped
  /\ RtpRecv(p)
  /\ UNCHANGED <<ab, deviceVars, heard>>

CallEstablished ==
  /\ ~Stopped
  /\ StreamReset
  /\ UNCHANGED <<ab, deviceVars, heard>>

\* aurx_stream_decode: a codec without concealment makes an empty frame of a loss.
Sound(frame) == [num |-> frame, left |-> IF frame = NoFrame THEN 0 ELSE PktSz]

Decode ==
  /\ todo # <<>>
  /\ todo' = Tail(todo)
  /\ ab' = IF ab = NoBuffer THEN ab ELSE Appended(ab, Sound(Head(todo)))
  /\ UNCHANGED <<jb, newest, copies, played, strm, deviceVars, heard>>

\* start_player: the player announces itself in the callback pointers.
StartPlayer ==
  /\ todo = <<>> /\ player = "none"
  /\ ab' = AllocatedAubuf
  /\ player' = "alive"
  /\ callback' = TRUE
  /\ UNCHANGED <<jb, newest, copies, played, strm, todo, gui, heard>>

\* audio_stop frees the player, then the buffer; the event that the call is
\* closed clears the pointers.
StopPlayer ==
  /\ todo = <<>> /\ player = "alive"
  /\ player' = "freed"
  /\ UNCHANGED <<jb, newest, copies, played, strm, todo, ab, callback, gui, heard>>

FreeBuffer ==
  /\ player = "freed" /\ ab # NoBuffer
  /\ ab' = NoBuffer
  /\ UNCHANGED <<jb, newest, copies, played, strm, todo, deviceVars, heard>>

ResetCallbackPtr ==
  /\ player = "freed" /\ ab = NoBuffer /\ callback
  /\ gui = "idle"
  /\ callback' = FALSE
  /\ UNCHANGED <<jb, newest, copies, played, strm, todo, ab, player, gui, heard>>

-----------------------------------------------------------------------------
(***************************************************************************)
(* The GUI thread: timerEvent holds the mutex while it calls the player,   *)
(* which reads if its device has room.                                     *)
(***************************************************************************)
TimerEvent ==
  /\ gui = "idle" /\ callback
  /\ gui' = "calling"
  /\ UNCHANGED <<jb, newest, copies, played, strm, todo, ab, player, callback, heard>>

NoRoom ==
  /\ gui = "calling"
  /\ gui' = "idle"
  /\ UNCHANGED <<jb, newest, copies, played, strm, todo, ab, player, callback, heard>>

\* auplay_write_handler; what comes out of freed memory is not modelled.
PlayerReads ==
  /\ gui = "calling"
  /\ gui' = "idle"
  /\ IF player = "alive"
     THEN /\ ab' = AfterRead(ab, ReadSz)
          /\ heard' = LastHeard(ab, ReadSz, heard)
     ELSE UNCHANGED <<ab, heard>>
  /\ UNCHANGED <<jb, newest, copies, played, strm, todo, player, callback>>

Next ==
  \/ \E p \in Packets : PacketArrives(p)
  \/ CallEstablished \/ Decode \/ StartPlayer \/ StopPlayer \/ FreeBuffer \/ ResetCallbackPtr
  \/ TimerEvent \/ NoRoom \/ PlayerReads

Spec == Init /\ [][Next]_arVars

-----------------------------------------------------------------------------
(***************************************************************************)
(* Properties.                                                             *)
(***************************************************************************)
\* The byte count of the audio buffer is the sum of what its frames have left, although
\* overruns drop frames that were partly read and losses append empty ones.
BytesExact == ab # NoBuffer => ab.cur = Bytes(ab.afl)

\* The peer's packets between the network and the ear, oldest first, and gaps between them.
OnTheWay ==
  (IF ab = NoBuffer THEN <<>> ELSE [i \in DOMAIN ab.afl |-> ab.afl[i].num]) \o todo \o jb.framel

\* From end to end: what is on its way to the ear is in the order it was spoken in, each
\* packet once, and nothing of it is older than what was heard.
SoundInOrder ==
  LET sounds == {i \in DOMAIN OnTheWay : OnTheWay[i] # NoFrame}
  IN /\ \A i, j \in sounds : i < j => OnTheWay[i] < OnTheWay[j]
     /\ \A i \in sounds : OnTheWay[i] >= heard

\* The GUI thread does not call a player that audio_stop has freed.  The code does not
\* guarantee this (see the README): the callback pointers outlive the player.
DeviceStoppedFirst == ~(gui = "calling" /\ player = "freed")

=============================================================================
