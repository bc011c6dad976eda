-------------------------------- MODULE Aubuf --------------------------------
(***************************************************************************)
(* The audio buffer, rem/src/aubuf/aubuf.c, between the thread that decodes*)
(* and the thread that plays.  A frame is what one append brought and has  *)
(* `left' bytes still to be read; `num' names the packet it was decoded    *)
(* from.  Every call works under the buffer's lock, so it is one operator. *)
(***************************************************************************)
EXTENDS Naturals, Sequences, FiniteSets, SequencesExt, FiniteSetsExt

CONSTANTS WishSz,     \* bytes to collect before reading starts
          MaxSz       \* bytes from which on the oldest frame is dropped; 0: never

ASSUME AubufAssumption == WishSz \in Nat \ {0} /\ MaxSz \in Nat

Aubufs == [afl : Seq([num : Nat, left : Nat]), cur : Nat, filling : BOOLEAN]

AllocatedAubuf == [afl |-> <<>>, cur |-> 0, filling |-> TRUE]

\* Upto(afl)[i]: what the first i frames have left
Upto(afl) ==
  LET sum[i \in 0 .. Len(afl)] == IF i = 0 THEN 0 ELSE sum[i - 1] + afl[i].left IN sum

Bytes(afl) == Upto(afl)[Len(afl)]

(***************************************************************************)
(* aubuf_append: an overrun costs the oldest frame, however little is left *)
(* of it.                                                                  *)
(***************************************************************************)
Overrun(ab) == MaxSz > 0 /\ ab.cur > MaxSz /\ ab.afl # <<>>

\* mutation: the dropped frame is counted as if it were whole.
DropOldestWhole(ab) ==
  IF Overrun(ab) THEN [ab EXCEPT !.afl = Tail(@),
                                 !.cur = @ - Max({Head(ab.afl).left, Last(ab.afl).left})]
  ELSE ab

DropOldest(ab) ==
  IF Overrun(ab) THEN [ab EXCEPT !.afl = Tail(@), !.cur = @ - Head(ab.afl).left] ELSE ab

Appended(ab, f) ==
  DropOldest([ab EXCEPT !.afl = Append(@, f), !.cur = @ + f.left])

(***************************************************************************)
(* aubuf_read: silence if the buffer holds less than asked for (less than  *)
(* WishSz while it is filling); otherwise frames are used up from the      *)
(* oldest until sz bytes are read.  A frame that is reached and has nothing*)
(* left is freed.                                                          *)
(***************************************************************************)
Starved(ab, sz) == ab.cur < (IF ab.filling THEN WishSz ELSE sz)

LeastOf(m, n) == IF m < n THEN m ELSE n

Before(afl, i) == Upto(afl)[i - 1]

\* What a read of sz bytes takes from frame i.
TakenFrom(afl, i, sz) ==
  IF Before(afl, i) >= sz THEN 0 ELSE LeastOf(afl[i].left, sz - Before(afl, i))

UsedUp(afl, i, sz) == Before(afl, i) < sz /\ TakenFrom(afl, i, sz) = afl[i].left

Remaining(afl, sz) ==
  LET used == Cardinality({i \in DOMAIN afl : UsedUp(afl, i, sz)}) IN
  [i \in 1 .. Len(afl) - used |->
     [afl[i + used] EXCEPT !.left = @ - TakenFrom(afl, i + used, sz)]]

AfterRead(ab, sz) ==
  IF Starved(ab, sz) THEN [ab EXCEPT !.filling = TRUE]
  ELSE [afl |-> Remaining(ab.afl, sz), cur |-> ab.cur - LeastOf(sz, ab.cur),
        filling |-> FALSE]

\* The packet the last of the bytes read come from; heard, if nothing is read.
Reached(afl, sz) == {i \in DOMAIN afl : TakenFrom(afl, i, sz) > 0}

LastHeard(ab, sz, heard) ==
  IF Starved(ab, sz) \/ Reached(ab.afl, sz) = {} THEN heard
  ELSE ab.afl[Max(Reached(ab.afl, sz))].num

=============================================================================
