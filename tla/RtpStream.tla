------------------------------ MODULE RtpStream ------------------------------
(***************************************************************************)
(* The receiving end of a media stream, baresip/src/stream.c: every packet *)
(* is put into the jitter buffer and at most one is taken out of it; what  *)
(* the decoder is given for it is a sequence of frames, NoFrame where it   *)
(* should conceal a loss.                                                  *)
(***************************************************************************)
EXTENDS Jbuf

CONSTANTS NewSource,   \* the first packet of the stream's second SSRC
          LossMax,     \* a jump this far ahead is a new start (3000)
          LateMax      \* a step this far back is a late packet (100)

ASSUME StreamAssumption == {NewSource, LossMax, LateMax} \subseteq Nat

NoFrame == 0
NoSeq == SeqSpace      \* pseq before the first frame: (uint32_t)-1

Ssrc(p) == IF p < NewSource THEN 1 ELSE 2

VARIABLES strm,        \* [ssrcRx, pseq, started] of struct stream
          todo         \* what the decoder has been given and not yet decoded

NewStream == [ssrcRx |-> 0, pseq |-> NoSeq, started |-> FALSE]

(***************************************************************************)
(* lostcalc: has a loss to be concealed before this frame, and the         *)
(* sequence number remembered for the next one.                            *)
(***************************************************************************)
Delta(seq) == (seq + SeqSpace - strm.pseq) % SeqSpace

Lost(seq) == strm.pseq # NoSeq /\ Delta(seq) > 1 /\ Delta(seq) < LossMax

NextPseq(seq) == IF strm.pseq = NoSeq \/ Delta(seq) < SeqSpace - LateMax
                 THEN seq ELSE strm.pseq

\* Concealment if the frame's number says so, then the frame.
Given(frame, seq) == (IF Lost(seq) THEN <<NoFrame>> ELSE <<>>) \o <<frame>>

-----------------------------------------------------------------------------
(***************************************************************************)
(* rtp_recv with a jitter buffer.  When the buffer gives nothing, a stream *)
(* that has started conceals, and the zeroed header counts as a frame with *)
(* sequence number 0.                                                      *)
(***************************************************************************)
SourceChanged(p) == strm.ssrcRx \notin {0, Ssrc(p)}

RtpRecv(p) ==
  LET after == Put(IF SourceChanged(p) THEN Flushed(jb) ELSE jb, p)
      has == [strm EXCEPT !.ssrcRx = Ssrc(p)]
  IN
  /\ Arrives(p)
  /\ todo = <<>>
  /\ \/ /\ ~Ready(after) /\ ~strm.started
        /\ jb' = after
        /\ strm' = has
        /\ UNCHANGED <<todo, played>>
     \/ /\ ~Ready(after) /\ strm.started
        /\ jb' = after
        /\ strm' = [has EXCEPT !.pseq = NextPseq(0)]
        /\ todo' = Given(NoFrame, 0)
        /\ UNCHANGED played
     \/ /\ Ready(after)
        /\ jb' = Taken(after)
        /\ strm' = [has EXCEPT !.started = TRUE,
                               !.pseq = NextPseq(SeqNo(Head(after.framel)))]
        /\ played' = Head(after.framel)
        /\ todo' = Given(played', SeqNo(played'))

\* stream_reset, when the call is established: nothing is kept of early media.
StreamReset ==
  /\ todo = <<>>
  /\ jb' = Flushed(jb)
  /\ UNCHANGED <<newest, copies, played, strm, todo>>

=============================================================================
