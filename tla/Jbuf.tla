-------------------------------- MODULE Jbuf --------------------------------
(***************************************************************************)
(* The jitter buffer, re/src/jbuf/jbuf.c: received packets in the order of *)
(* their 16-bit sequence numbers, in frames from a fixed pool.             *)
(*                                                                         *)
(* A packet is the number under which its sender counted it; the header    *)
(* carries that number modulo SeqSpace (2^16 in the code).  The operators    *)
(* give a call's effect on the record jb; the actions are the calls of a   *)
(* user who puts what a reordering network delivers and gets when he likes.*)
(***************************************************************************)
EXTENDS Naturals, Sequences, FiniteSetsExt, SequencesExt

CONSTANTS SeqSpace,     \* number of sequence numbers
          JbMin,      \* frames that stay buffered
          JbMax       \* frames in the pool

ASSUME JbufAssumption ==
  /\ SeqSpace \in Nat \ {0} /\ SeqSpace % 2 = 0
  /\ JbMin \in Nat /\ JbMax \in Nat \ {0} /\ JbMin <= JbMax

SeqNo(p) == p % SeqSpace

\* Half of the circle lies before a sequence number.
SeqLess(x, y) == (x + SeqSpace - y) % SeqSpace >= SeqSpace \div 2

AllocatedJbuf == [framel |-> <<>>, pool |-> JbMax, n |-> 0,
                  running |-> FALSE, seqPut |-> 0]

(***************************************************************************)
(* jbuf_put: the frame comes from the pool or is the oldest one; its place *)
(* is behind the last frame that is not younger.                           *)
(***************************************************************************)
\* mutation: a stolen frame is counted as a new one.
FrameAllocCounted(jb) ==
  IF jb.pool > 0 THEN [jb EXCEPT !.pool = @ - 1, !.n = @ + 1]
                 ELSE [jb EXCEPT !.framel = Tail(@), !.n = @ + 1]

FrameAlloc(jb) ==
  IF jb.pool > 0 THEN [jb EXCEPT !.pool = @ - 1, !.n = @ + 1]
                 ELSE [jb EXCEPT !.framel = Tail(@)]

\* mutation: the buffered frames are not allowed for.
TooLateStrict(jb, p) == jb.running /\ SeqLess(SeqNo(p), jb.seqPut)

TooLate(jb, p) == jb.running /\ SeqLess((SeqNo(p) + jb.n) % SeqSpace, jb.seqPut)

\* mutation: sequence numbers are compared as plain numbers.
NotYoungerPlain(q, p) == SeqNo(q) <= SeqNo(p)

NotYounger(q, p) == SeqNo(q) = SeqNo(p) \/ SeqLess(SeqNo(q), SeqNo(p))

Place(framel, p) ==
  Max({0} \cup {i \in DOMAIN framel : NotYounger(framel[i], p)})

Duplicate(framel, p) ==
  LET at == Place(framel, p) IN at > 0 /\ SeqNo(framel[at]) = SeqNo(p)

Put(jb, p) ==
  LET a == FrameAlloc(jb) IN
  IF TooLate(jb, p) THEN jb
  ELSE IF Duplicate(a.framel, p) THEN [a EXCEPT !.pool = @ + 1, !.n = @ - 1]
  ELSE [a EXCEPT !.framel = InsertAt(@, Place(@, p) + 1, p),
                 !.running = TRUE, !.seqPut = SeqNo(p)]

(***************************************************************************)
(* jbuf_get and jbuf_flush.                                                *)
(***************************************************************************)
\* mutation: one frame less is held back.
ReadyEarly(jb) == jb.n >= JbMin /\ jb.framel # <<>>

Ready(jb) == jb.n > JbMin /\ jb.framel # <<>>

Taken(jb) == [jb EXCEPT !.framel = Tail(@), !.pool = @ + 1, !.n = @ - 1]

Flushed(jb) == [jb EXCEPT !.framel = <<>>, !.pool = @ + Len(jb.framel), !.n = 0,
                          !.running = FALSE]

-----------------------------------------------------------------------------
(***************************************************************************)
(* The network: packets FirstNum .. LastNum are sent in order; each is     *)
(* lost or arrives, at most Copies times, and no later than Displaced      *)
(* places behind the newest that has arrived.  It never loses so many in a *)
(* row that a packet is half the circle ahead of what is still buffered.   *)
(***************************************************************************)
CONSTANTS FirstNum, LastNum, Copies, Displaced

\* The buffer can put in order what is displaced by less than it holds back.
ASSUME NetworkAssumption ==
  /\ FirstNum \in Nat \ {0} /\ LastNum \in Nat /\ Copies \in Nat
  /\ Displaced \in Nat /\ Displaced < JbMin

VARIABLES jb,        \* the buffer
          newest,    \* highest packet that has arrived
          copies,    \* copies[p]: how often p has arrived
          played     \* packet got last, or FirstNum - 1

jbVars == <<jb, newest, copies, played>>

Packets == FirstNum .. LastNum

JbInit ==
  /\ jb = AllocatedJbuf
  /\ newest = FirstNum - 1
  /\ copies = [p \in Packets |-> 0]
  /\ played = FirstNum - 1

Oldest == IF jb.framel = <<>> THEN newest ELSE Head(jb.framel)

Arrives(p) ==
  /\ copies[p] < Copies
  /\ p + Displaced >= newest
  /\ p + JbMax + Displaced < Oldest + SeqSpace \div 2
  /\ newest' = Max({newest, p})
  \* packets that can arrive no more are all alike
  /\ copies' = [q \in Packets |-> IF q + Displaced < newest' THEN Copies
                                  ELSE IF q = p THEN copies[q] + 1 ELSE copies[q]]

JbufPut(p) ==
  /\ Arrives(p)
  /\ jb' = Put(jb, p)
  /\ UNCHANGED played

JbufGet ==
  /\ Ready(jb)
  /\ jb' = Taken(jb)
  /\ played' = Head(jb.framel)
  /\ UNCHANGED <<newest, copies>>

JbufFlush ==
  /\ jb' = Flushed(jb)
  /\ UNCHANGED <<newest, copies, played>>

JbNext == \/ \E p \in Packets : JbufPut(p)
          \/ JbufGet
          \/ JbufFlush

JbSpec == JbInit /\ [][JbNext]_jbVars
-----------------------------------------------------------------------------
(***************************************************************************)
(* Properties.                                                             *)
(***************************************************************************)
JbTypeOK ==
  /\ jb \in [framel : Seq(Packets), pool : 0 .. JbMax, n : 0 .. JbMax,
             running : BOOLEAN, seqPut : 0 .. SeqSpace - 1]
  /\ newest \in FirstNum - 1 .. LastNum
  /\ copies \in [Packets -> 0 .. Copies]
  /\ played \in FirstNum - 1 .. LastNum

\* Every frame of the pool is either free or buffered, and n counts the buffered ones:
\* neither a frame stolen from a full buffer nor a duplicate may be counted twice.
FramesAccounted ==
  /\ jb.n = Len(jb.framel)
  /\ jb.n + jb.pool = JbMax

\* While no packet is displaced by as many places as the buffer holds frames back, the user
\* gets packets in the order they were sent in, each once: across the wrap-around of
\* the sequence numbers, overruns, flushes and copies of packets already played.
PlayedInOrder ==
  /\ \A i \in 2 .. Len(jb.framel) : jb.framel[i - 1] < jb.framel[i]
  /\ jb.framel # <<>> => played < Head(jb.framel)

\* A packet the network delivers in time for its place is not refused once the buffer has
\* filled up, even if the last put was of a younger one.
InTimeAccepted ==
  [][\A p \in Packets :
       JbufPut(p) /\ copies[p] = 0 /\ jb.n >= JbMin => Contains(jb'.framel, p)]_jbVars

=============================================================================
