----------------------------- MODULE Phone_proof -----------------------------
(***************************************************************************)
(* Proofs about the phone's two threads: what the GUI thread knows of the  *)
(* calls (Phone, UserAgent), and the loop the SIP thread runs, whose timers*)
(* the GUI thread starts as well (MainLoop).                               *)
(***************************************************************************)
EXTENDS Phone, MainLoop, TLAPS, SequenceTheorems, WellFoundedInduction

(***************************************************************************)
(* The inductive invariant.                                                *)
(***************************************************************************)
CallStates == {"idle", "incoming", "outgoing", "ringing", "early", "established", "freed"}

CallRecords == [state : CallStates, answered : BOOLEAN, tmr : Nat \union {Off}]

\* the user agent's part
UaTyped == call \in [Calls -> CallRecords] /\ list \in Seq(Calls)

\* the rest
PhoneStates == {"Idle", "Incoming", "Outgoing", "Established"}
Places == {"loop", "tests", "writes", "emits", "tells"}

PhoneTyped ==
  /\ phone \in PhoneStates /\ crossed \in BOOLEAN
  /\ event \in [at : Places, c : Calls \union {0}, s : PhoneStates]
  /\ gui \in {"waiting", "placing", "timedOut", "hungUp", "idles", "idled"}
  /\ ringing \in Nat \union {Off}
  /\ age \in [Calls -> Nat]

\* a call is the user agent's until it is freed
Listed == \A c \in Calls : call[c].state \notin {"idle", "freed"} => InList(c)

\* LOCAL_TIMEOUT runs from the arrival of a call until it is established or gone, or until the
\* SIP thread is on its way to tell that it is over.
Closing(c) == event.at # "loop" /\ event.s = "Idle" /\ event.c = c
Timed == \A c \in Calls :
           call[c].state = "incoming" =>
             InList(c) /\ (call[c].tmr \in 0 .. LocalTimeout \/ Closing(c))

\* What the SIP thread still knows of the call whose event it brings to setState: the user may
\* have hung it up, and no more.  When a closed call is dereferenced the phone is idle.
SipInv ==
  event.at # "loop" =>
    /\ event.c \in Calls /\ (event.s # "Idle" => call[event.c].state # "idle")
    /\ event.at \in {"tests", "writes"} /\ event.s = "Outgoing" =>
          call[event.c].state \in Trying \union {"freed"}
    /\ event.s = "Idle" /\ event.at \in {"emits", "tells"} => phone = "Idle"

PhoneInv == UaTyped /\ PhoneTyped /\ Listed /\ Timed /\ SipInv /\ OnlyCrossingLeavesBusy

\* The ringing time counts from the placing of the newest call at the earliest.  A call that
\* is not outgoing is the first of the list, as the user agent accepts one only when it has none.
Aged ==
  ringing # Off =>
    \A i \in DOMAIN list :
       i > 1 \/ call[list[i]].state \in Trying => age[list[i]] >= ringing

\* While the phone shows an outgoing call, the last one of the list is one.
LastAged ==
  phone = "Outgoing" /\ ~HangingUp /\ ~crossed /\ ringing # Off => age[Last(list)] >= ringing

RingInv == PhoneInv /\ Aged /\ LastAged /\ (gui = "placing" => ringing = Off)

-----------------------------------------------------------------------------
(***************************************************************************)
(* Lemmas about lists.                                                     *)
(***************************************************************************)
\* what SubSeq cuts out of a sequence
LEMMA Sliced ==
  ASSUME NEW S, NEW l \in Seq(S), NEW a \in Nat \ {0}, NEW b \in Nat,
         a <= b + 1, b <= Len(l)
  PROVE  /\ SubSeq(l, a, b) \in Seq(S)
         /\ Len(SubSeq(l, a, b)) = b - a + 1
         /\ \A i \in 1..(b - a + 1) : SubSeq(l, a, b)[i] = l[a + i - 1]
<1>1. \A i \in a..b : l[i] \in S
  BY ElementOfSeq
<1>2. b - a + 1 = IF a <= b THEN b - a + 1 ELSE 0
  OBVIOUS
<1>. QED BY <1>1, <1>2, SubSeqProperties

\* what RemoveAt leaves: the elements behind move up
LEMMA RemovedAt ==
  ASSUME NEW S, NEW l \in Seq(S), NEW k \in 1..Len(l)
  PROVE  /\ RemoveAt(l, k) \in Seq(S)
         /\ Len(RemoveAt(l, k)) = Len(l) - 1
         /\ \A i \in 1..(Len(l) - 1) :
              RemoveAt(l, k)[i] = IF i < k THEN l[i] ELSE l[i + 1]
<1>. DEFINE f == SubSeq(l, 1, k - 1)
            g == SubSeq(l, k + 1, Len(l))
<1>1. Len(l) \in Nat
  BY LenProperties
<1>2. f \in Seq(S) /\ Len(f) = k - 1 /\ \A i \in 1..(k - 1) : f[i] = l[i]
  <2>1. 1 \in Nat \ {0} /\ k - 1 \in Nat /\ 1 <= k - 1 + 1 /\ k - 1 <= Len(l)
    BY <1>1
  <2>2. f \in Seq(S) /\ Len(f) = k - 1 - 1 + 1 /\ \A i \in 1..(k - 1 - 1 + 1) : f[i] = l[1 + i - 1]
    BY <2>1, Sliced
  <2>. HIDE DEF f
  <2>. QED BY <1>1, <2>2
<1>3. /\ g \in Seq(S) /\ Len(g) = Len(l) - k
      /\ \A i \in 1..(Len(l) - k) : g[i] = l[k + i]
  <2>1. k + 1 \in Nat \ {0} /\ k + 1 <= Len(l) + 1
    BY <1>1
  <2>2. /\ g \in Seq(S) /\ Len(g) = Len(l) - (k + 1) + 1
        /\ \A i \in 1..(Len(l) - (k + 1) + 1) : g[i] = l[k + 1 + i - 1]
    BY <1>1, <2>1, Sliced
  <2>. HIDE DEF g
  <2>3. ASSUME NEW i \in 1..(Len(l) - k) PROVE g[i] = l[k + i]
    <3>1. k + 1 + i - 1 = k + i /\ i \in 1..(Len(l) - (k + 1) + 1)
      BY <1>1
    <3>. QED BY <2>2, <3>1
  <2>4. Len(g) = Len(l) - k
    BY <1>1, <2>2
  <2>. QED BY <2>2, <2>3, <2>4
<1>4. RemoveAt(l, k) = f \o g
  BY DEF RemoveAt
<1>. HIDE DEF f, g
<1>5. /\ f \o g \in Seq(S) /\ Len(f \o g) = Len(l) - 1
      /\ \A i \in 1..(Len(l) - 1) : (f \o g)[i] = IF i <= k - 1 THEN f[i] ELSE g[i - (k - 1)]
  <2>1. Len(f) + Len(g) = Len(l) - 1
    BY <1>1, <1>2, <1>3
  <2>2. /\ f \o g \in Seq(S) /\ Len(f \o g) = Len(f) + Len(g)
        /\ \A i \in 1..Len(f) + Len(g) :
              (f \o g)[i] = IF i <= Len(f) THEN f[i] ELSE g[i - Len(f)]
    BY <1>2, <1>3, ConcatProperties
  <2>. QED BY <1>2, <2>1, <2>2
<1>6. ASSUME NEW i \in 1..(Len(l) - 1)
      PROVE  (f \o g)[i] = IF i < k THEN l[i] ELSE l[i + 1]
  <2>1. CASE i < k
    <3>1. i <= k - 1 /\ i \in 1..(k - 1)
      BY <1>1, <2>1
    <3>. QED BY <1>2, <1>5, <2>1, <3>1
  <2>2. CASE ~(i < k)
    <3>1. ~(i <= k - 1) /\ i - (k - 1) \in 1..(Len(l) - k) /\ k + (i - (k - 1)) = i + 1
      BY <1>1, <2>2
    <3>. QED BY <1>3, <1>5, <2>2, <3>1
  <2>. QED BY <2>1, <2>2
<1>. QED BY <1>4, <1>5, <1>6

\* what InsertAt makes: the elements from position k on move down
LEMMA InsertedAt ==
  ASSUME NEW S, NEW l \in Seq(S), NEW k \in 1..(Len(l) + 1), NEW e \in S
  PROVE  /\ InsertAt(l, k, e) \in Seq(S)
         /\ Len(InsertAt(l, k, e)) = Len(l) + 1
         /\ \A i \in 1..(Len(l) + 1) :
              InsertAt(l, k, e)[i] = IF i < k THEN l[i] ELSE IF i = k THEN e ELSE l[i - 1]
<1>. DEFINE f == SubSeq(l, 1, k - 1)
            g == SubSeq(l, k, Len(l))
            h == f \o <<e>>
<1>1. Len(l) \in Nat
  BY LenProperties
<1>2. f \in Seq(S) /\ Len(f) = k - 1 /\ \A i \in 1..(k - 1) : f[i] = l[i]
  <2>1. 1 \in Nat \ {0} /\ k - 1 \in Nat /\ 1 <= k - 1 + 1 /\ k - 1 <= Len(l)
    BY <1>1
  <2>2. f \in Seq(S) /\ Len(f) = k - 1 - 1 + 1 /\ \A i \in 1..(k - 1 - 1 + 1) : f[i] = l[1 + i - 1]
    BY <2>1, Sliced
  <2>. HIDE DEF f
  <2>. QED BY <1>1, <2>2
<1>3. /\ g \in Seq(S) /\ Len(g) = Len(l) - k + 1
      /\ \A i \in 1..(Len(l) - k + 1) : g[i] = l[k + i - 1]
  <2>1. k \in Nat \ {0} /\ k <= Len(l) + 1
    BY <1>1
  <2>. QED BY <1>1, <2>1, Sliced
<1>4. InsertAt(l, k, e) = h \o g
  <2>1. InsertAt(l, k, e) = f \o <<e>> \o g
    BY DEF InsertAt
  <2>. QED BY <2>1
<1>. HIDE DEF f, g
<1>5. /\ h \in Seq(S) /\ Len(h) = k /\ h[k] = e
      /\ \A i \in 1..(k - 1) : h[i] = l[i]
  <2>1. h = Append(f, e)
    BY <1>2, AppendIsConcat
  <2>2. /\ Append(f, e) \in Seq(S) /\ Len(Append(f, e)) = k - 1 + 1
        /\ \A i \in 1..(k - 1) : Append(f, e)[i] = f[i]
        /\ Append(f, e)[k - 1 + 1] = e
    BY <1>2, AppendProperties
  <2>3. k - 1 + 1 = k
    BY <1>1
  <2>. HIDE DEF h
  <2>. QED BY <1>2, <2>1, <2>2, <2>3
<1>. HIDE DEF h
<1>6. /\ h \o g \in Seq(S) /\ Len(h \o g) = Len(l) + 1
      /\ \A i \in 1..(Len(l) + 1) : (h \o g)[i] = IF i <= k THEN h[i] ELSE g[i - k]
  <2>1. Len(h) + Len(g) = Len(l) + 1
    BY <1>1, <1>3, <1>5
  <2>. QED BY <1>3, <1>5, <2>1, ConcatProperties
<1>7. ASSUME NEW i \in 1..(Len(l) + 1)
      PROVE  (h \o g)[i] = IF i < k THEN l[i] ELSE IF i = k THEN e ELSE l[i - 1]
  <2>1. CASE i < k
    <3>1. i <= k /\ i \in 1..(k - 1)
      BY <1>1, <2>1
    <3>. QED BY <1>5, <1>6, <2>1, <3>1
  <2>2. CASE i = k
    BY <1>1, <1>5, <1>6, <2>2
  <2>3. CASE i > k
    <3>1. ~(i <= k) /\ i - k \in 1..(Len(l) - k + 1) /\ k + (i - k) - 1 = i - 1
      BY <1>1, <2>3
    <3>2. g[i - k] = l[i - 1]
      BY <1>3, <3>1
    <3>3. (h \o g)[i] = g[i - k] /\ ~(i < k) /\ i # k
      BY <1>1, <1>6, <2>3, <3>1
    <3>. QED BY <3>2, <3>3
  <2>4. i < k \/ i = k \/ i > k
    BY <1>1
  <2>. QED BY <2>1, <2>2, <2>3, <2>4
<1>. QED BY <1>4, <1>6, <1>7

\* a nonempty set of positions has a least one
LEMMA FirstPosition ==
  ASSUME NEW n \in Nat, NEW I, I \subseteq 1..n, I # {}
  PROVE  Min(I) \in I /\ \A y \in I : Min(I) <= y
<1>. DEFINE R == OpToRel(<, Nat)
<1>1. IsWellFoundedOn(R, Nat)
  BY NatLessThanWellFounded
<1>2. I \subseteq Nat
  OBVIOUS
<1>3. \A u, v \in Nat : <<u, v>> \in R <=> u < v
  BY DEF OpToRel
<1>. HIDE DEF R
<1>4. PICK x \in I : \A y \in I : ~(<<y, x>> \in R)
  BY <1>1, <1>2, WFMin
<1>5. ASSUME NEW y \in I PROVE x <= y
  <2>1. x \in Nat /\ y \in Nat /\ ~(<<y, x>> \in R)
    BY <1>2, <1>4
  <2>2. ~(y < x)
    BY <1>3, <2>1
  <2>. QED BY <2>1, <2>2
<1>. QED BY <1>5 DEF Min

\* and a last one
LEMMA LastPosition ==
  ASSUME NEW n \in Nat, NEW I, I \subseteq 1..n, I # {}
  PROVE  Max(I) \in I /\ \A y \in I : Max(I) >= y
<1>. DEFINE J == {j \in 1..n : n + 1 - j \in I}
<1>1. J # {}
  <2>1. PICK i \in I : TRUE
    OBVIOUS
  <2>2. n + 1 - i \in 1..n /\ n + 1 - (n + 1 - i) = i
    OBVIOUS
  <2>. QED BY <2>1, <2>2
<1>2. Min(J) \in J /\ \A j \in J : Min(J) <= j
  BY <1>1, FirstPosition
<1>. DEFINE x == n + 1 - Min(J)
<1>3. x \in I
  BY <1>2
<1>4. ASSUME NEW y \in I PROVE x >= y
  <2>1. n + 1 - y \in 1..n /\ n + 1 - (n + 1 - y) = y
    OBVIOUS
  <2>2. n + 1 - y \in J
    BY <2>1
  <2>3. Min(J) <= n + 1 - y /\ Min(J) \in 1..n
    BY <1>2, <2>2
  <2>. HIDE DEF J
  <2>. QED BY <2>3
<1>. HIDE DEF x
<1>. QED BY <1>3, <1>4 DEF Max

\* What list_unlink leaves: the others, none further from the head than it was.
LEMMA Unlisted ==
  ASSUME NEW S, NEW l \in Seq(S), NEW e
  PROVE  /\ RemoveFirst(l, e) \in Seq(S)
         /\ \A i \in DOMAIN RemoveFirst(l, e) :
               \E j \in DOMAIN l : i <= j /\ RemoveFirst(l, e)[i] = l[j]
         /\ \A j \in DOMAIN l :
               l[j] # e => \E i \in DOMAIN RemoveFirst(l, e) : RemoveFirst(l, e)[i] = l[j]
<1>. DEFINE n == Len(l)
            I == {i \in 1..n : l[i] = e}
            k == Min(I)
            r == RemoveAt(l, k)
<1>1. n \in Nat /\ DOMAIN l = 1..n
  BY LenProperties
<1>2. CASE I = {}
  <2>1. RemoveFirst(l, e) = l
    BY <1>2 DEF RemoveFirst
  <2>. QED BY <1>1, <2>1
<1>3. CASE I # {}
  <2>1. k \in I
    BY <1>1, <1>3, FirstPosition
  <2>2. RemoveFirst(l, e) = r
    BY <1>1, <1>3 DEF RemoveFirst, SelectInSeq
  <2>3. k \in 1..n /\ l[k] = e
    BY <2>1
  <2>. HIDE DEF k, I
  <2>4. /\ r \in Seq(S) /\ Len(r) = n - 1
        /\ \A i \in 1..(n - 1) : r[i] = IF i < k THEN l[i] ELSE l[i + 1]
    BY <2>3, RemovedAt
  <2>5. DOMAIN r = 1..(n - 1)
    BY <2>4, LenProperties
  <2>. HIDE DEF n, r
  <2>6. ASSUME NEW i \in 1..(n - 1) PROVE \E j \in 1..n : i <= j /\ r[i] = l[j]
    <3>1. i \in 1..n /\ i + 1 \in 1..n /\ i <= i + 1 /\ i <= i
      BY <1>1, <2>3
    <3>2. r[i] = l[i] \/ r[i] = l[i + 1]
      BY <2>4
    <3>. QED BY <3>1, <3>2
  <2>7. ASSUME NEW j \in 1..n, l[j] # e PROVE \E i \in 1..(n - 1) : r[i] = l[j]
    <3>1. CASE j < k
      <4>1. j \in 1..(n - 1)
        BY <1>1, <2>3, <3>1
      <4>. QED BY <2>4, <3>1, <4>1
    <3>2. CASE j > k
      <4>1. j - 1 \in 1..(n - 1) /\ ~(j - 1 < k) /\ j - 1 + 1 = j
        BY <1>1, <2>3, <3>2
      <4>. QED BY <2>4, <4>1
    <3>3. j < k \/ j > k
      <4>1. j # k
        BY <2>3, <2>7
      <4>. QED BY <1>1, <2>3, <4>1
    <3>. QED BY <3>1, <3>2, <3>3
  <2>. QED BY <1>1, <2>2, <2>4, <2>5, <2>6, <2>7
<1>. QED BY <1>2, <1>3

-----------------------------------------------------------------------------
(***************************************************************************)
(* Lemmas about calls.                                                     *)
(***************************************************************************)
\* time passes evenly
LEMMA Capped ==
  ASSUME NEW a \in Nat, NEW b \in Nat
  PROVE  /\ Min({a, b}) \in Nat
         /\ Min({a, b}) = IF a <= b THEN a ELSE b
<1>1. (IF a <= b THEN a ELSE b) \in {a, b} /\ \A y \in {a, b} : (IF a <= b THEN a ELSE b) <= y
  OBVIOUS
<1>2. ASSUME NEW x \in {a, b}, \A y \in {a, b} : x <= y
      PROVE  x = IF a <= b THEN a ELSE b
  BY <1>2
<1>. QED BY <1>1, <1>2 DEF Min

-----------------------------------------------------------------------------
(***************************************************************************)
(* What a call of the session's or of the user's does to the calls.        *)
(***************************************************************************)
\* no call is new to the list or further from its head, and none becomes an outgoing one
Shrunk ==
  /\ \A i \in DOMAIN list' : \E j \in DOMAIN list : i <= j /\ list'[i] = list[j]
  /\ \A c \in Calls : call'[c].state \in Trying => call[c].state \in Trying

UaSafe ==
  /\ UaTyped' /\ Listed'
  /\ \A c \in Calls : call[c].state # "idle" => call'[c].state # "idle"

\* no call starts to be incoming, and the timer of one that is runs on
Running(c) ==
  call'[c].state = "incoming" =>
    /\ call[c].state = "incoming"
    /\ call[c].tmr \in 0 .. LocalTimeout => call'[c].tmr \in 0 .. LocalTimeout

\* an outgoing call stays one or goes
TryingKept ==
  \A c \in Calls : call[c].state \in Trying \union {"freed"} =>
                   call'[c].state \in Trying \union {"freed"}

UaKept == UaSafe /\ TryingKept /\ \A c \in Calls : Running(c)

LEMMA ListLength ==
  ASSUME UaTyped
  PROVE  /\ Len(list) \in Nat /\ DOMAIN list = 1..Len(list)
         /\ \A i \in DOMAIN list : i \in Nat /\ list[i] \in Calls
         /\ list # <<>> => Last(list) = list[Len(list)] /\ Len(list) \in DOMAIN list
<1>1. Len(list) \in Nat /\ DOMAIN list = 1..Len(list)
  BY LenProperties DEF UaTyped
<1>2. \A i \in DOMAIN list : i \in Nat /\ list[i] \in Calls
  BY <1>1, ElementOfSeq DEF UaTyped
<1>3. list # <<>> => Len(list) > 0
  BY <1>1, EmptySeq DEF UaTyped
<1>. QED BY <1>1, <1>2, <1>3 DEF Last

LEMMA ListedSome ==
  ASSUME UaTyped, NEW c, InList(c)
  PROVE  list # <<>>
<1>1. PICK i \in DOMAIN list : list[i] = c
  BY DEF InList
<1>2. Len(list) # 0
  BY <1>1, ListLength
<1>. QED BY <1>2, EmptySeq DEF UaTyped

\* a call that stays where it is, or where it was freed
LEMMA StayedSafe ==
  ASSUME UaTyped, Listed, NEW c \in Calls, NEW r \in CallRecords,
         call' = [call EXCEPT ![c] = r], UNCHANGED list,
         r.state # call[c].state => r.state \notin {"idle", "incoming"},
         r.state \in Trying => call[c].state \in Trying,
         r.state \notin {"idle", "freed"} => InList(c)
  PROVE  /\ UaSafe /\ Shrunk /\ call'[c] = r
         /\ \A d \in Calls : d # c => call'[d] = call[d] /\ Running(d)
<1>1. UaTyped'
  BY DEF UaTyped
<1>2. call'[c] = r /\ \A d \in Calls : d # c => call'[d] = call[d]
  BY DEF UaTyped
<1>3. Listed'
  BY <1>2 DEF Listed, InList
<1>4. \A i \in DOMAIN list' : i <= i /\ list'[i] = list[i]
  BY ListLength
<1>5. \A d \in Calls : call'[d].state \in Trying => call[d].state \in Trying
  BY <1>2
<1>6. Shrunk
  BY <1>4, <1>5 DEF Shrunk
<1>7. \A d \in Calls : call[d].state # "idle" => call'[d].state # "idle"
  BY <1>2
<1>8. \A d \in Calls : d # c => Running(d)
  BY <1>2 DEF Running
<1>. QED BY <1>1, <1>2, <1>3, <1>6, <1>7, <1>8 DEF UaSafe

LEMMA UnchangedSafe ==
  ASSUME UaTyped, Listed, UNCHANGED uaVars
  PROVE  UaKept /\ Shrunk
<1>1. \A i \in DOMAIN list' : i <= i /\ list'[i] = list[i]
  BY ListLength DEF uaVars
<1>. QED BY <1>1 DEF UaSafe, UaKept, Running, TryingKept, UaTyped, Listed, InList, Shrunk, uaVars

LEMMA FreedSafe ==
  ASSUME UaTyped, Listed, NEW c \in Calls, Freed(c)
  PROVE  UaKept /\ Shrunk /\ call'[c].state = "freed"
<1>. DEFINE r == [NewCall EXCEPT !.state = "freed"]
<1>1. r \in CallRecords /\ r.state = "freed"
  BY DEF NewCall, CallRecords, CallStates, Off
<1>2. call' = [call EXCEPT ![c] = r] /\ list' = RemoveFirst(list, c)
  BY DEF Freed
<1>. HIDE DEF r
<1>3. /\ list' \in Seq(Calls)
      /\ \A i \in DOMAIN list' : \E j \in DOMAIN list : i <= j /\ list'[i] = list[j]
      /\ \A j \in DOMAIN list : list[j] # c => \E i \in DOMAIN list' : list'[i] = list[j]
  BY <1>2, Unlisted DEF UaTyped
<1>4. call'[c] = r /\ \A d \in Calls : d # c => call'[d] = call[d]
  BY <1>2 DEF UaTyped
<1>5. UaTyped'
  BY <1>1, <1>2, <1>3 DEF UaTyped
<1>6. ASSUME NEW d \in Calls, call'[d].state \notin {"idle", "freed"}
      PROVE  InList(d)'
  <2>1. d # c /\ call'[d] = call[d]
    BY <1>1, <1>4, <1>6
  <2>2. PICK j \in DOMAIN list : list[j] = d
    BY <1>6, <2>1 DEF Listed, InList
  <2>3. \E i \in DOMAIN list' : list'[i] = d
    BY <1>3, <2>1, <2>2
  <2>. QED BY <2>3 DEF InList
<1>7. \A d \in Calls : call'[d].state \in Trying => call[d].state \in Trying
  BY <1>1, <1>4 DEF Trying
<1>8. UaSafe
  BY <1>1, <1>4, <1>5, <1>6 DEF UaSafe, Listed
<1>9. TryingKept /\ \A d \in Calls : Running(d)
  BY <1>1, <1>4 DEF TryingKept, Running
<1>. QED BY <1>1, <1>3, <1>4, <1>7, <1>8, <1>9 DEF UaKept, Shrunk

\* a call that joins the list
LEMMA JoinedSafe ==
  ASSUME UaTyped, Listed, NEW c \in Calls, NEW r \in CallRecords,
         call' = [call EXCEPT ![c] = r], list' = Append(list, c), r.state # "idle"
  PROVE  /\ UaSafe /\ list' # <<>> /\ call'[c] = r
         /\ Len(list') = Len(list) + 1 /\ list'[Len(list')] = c
         /\ \A d \in Calls : d # c => call'[d] = call[d] /\ Running(d)
<1>1. /\ list' \in Seq(Calls) /\ Len(list') = Len(list) + 1
      /\ \A i \in 1..Len(list) : list'[i] = list[i]
      /\ list'[Len(list) + 1] = c
  BY AppendProperties DEF UaTyped
<1>2. Len(list) \in Nat /\ DOMAIN list = 1..Len(list) /\ DOMAIN list' = 1..Len(list) + 1
  BY <1>1, ListLength, LenProperties
<1>3. UaTyped'
  BY <1>1 DEF UaTyped
<1>4. call'[c] = r /\ \A d \in Calls : d # c => call'[d] = call[d]
  BY DEF UaTyped
<1>5. ASSUME NEW d \in Calls, call'[d].state \notin {"idle", "freed"}
      PROVE  InList(d)'
  <2>1. CASE d = c
    <3>1. Len(list) + 1 \in DOMAIN list'
      BY <1>2
    <3>. QED BY <1>1, <2>1, <3>1 DEF InList
  <2>2. CASE d # c
    <3>1. PICK j \in DOMAIN list : list[j] = d
      BY <1>4, <1>5, <2>2 DEF Listed, InList
    <3>2. j \in DOMAIN list' /\ list'[j] = d
      BY <1>1, <1>2, <3>1
    <3>. QED BY <3>2 DEF InList
  <2>. QED BY <2>1, <2>2
<1>6. list' # <<>>
  BY <1>1, <1>2, EmptySeq
<1>7. UaSafe
  BY <1>3, <1>4, <1>5 DEF UaSafe, Listed
<1>8. \A d \in Calls : d # c => Running(d)
  BY <1>4 DEF Running
<1>. QED BY <1>1, <1>4, <1>6, <1>7, <1>8

LEMMA AnswerSafe ==
  ASSUME UaTyped, Listed, NEW ok \in BOOLEAN, UaAnswer(ok)
  PROVE  UaKept /\ Shrunk
<1>1. CASE list # <<>> /\ call[Last(list)].state = "incoming"
  <2>. DEFINE c == Last(list)
              r == [call[c] EXCEPT !.answered = @ \/ ok]
  <2>1. c \in Calls
    BY <1>1, ListLength
  <2>2. call' = [call EXCEPT ![c] = r] /\ UNCHANGED list
    BY <1>1, <2>1 DEF UaAnswer, UaTyped
  <2>. HIDE DEF c
  <2>3. call[c] \in CallRecords
    BY <2>1 DEF UaTyped
  <2>4. r \in CallRecords /\ r.state = call[c].state /\ r.tmr = call[c].tmr
    BY <2>3 DEF CallRecords
  <2>. HIDE DEF r
  <2>5. /\ UaSafe /\ Shrunk /\ call'[c] = r
        /\ \A d \in Calls : d # c => call'[d] = call[d] /\ Running(d)
    BY <2>1, <2>2, <2>4, StayedSafe DEF Listed
  <2>6. TryingKept /\ Running(c)
    BY <2>4, <2>5 DEF TryingKept, Running
  <2>. QED BY <2>5, <2>6 DEF UaKept
<1>2. CASE ~(list # <<>> /\ call[Last(list)].state = "incoming")
  BY <1>2, UnchangedSafe DEF UaAnswer, uaVars
<1>. QED BY <1>1, <1>2

LEMMA HangupSafe ==
  ASSUME UaTyped, Listed, UaHangup
  PROVE  UaKept /\ Shrunk
<1>1. CASE list = <<>>
  BY <1>1, UnchangedSafe DEF UaHangup
<1>2. CASE list # <<>>
  <2>1. Last(list) \in Calls /\ Freed(Last(list))
    BY <1>2, ListLength DEF UaHangup
  <2>. QED BY <2>1, FreedSafe
<1>. QED BY <1>1, <1>2

LEMMA ProgressSafe ==
  ASSUME UaTyped, Listed, NEW c \in Calls, NEW scode, SipsessProgr(c, scode)
  PROVE  UaKept /\ Shrunk /\ call'[c].state \in Trying
<1>. DEFINE st == CASE scode = 180 -> "ringing"
                    [] scode = 183 -> "early"
                    [] OTHER -> call[c].state
            r  == [call[c] EXCEPT !.state = st]
<1>1. /\ InList(c) /\ call[c].state \in Trying /\ UNCHANGED list
      /\ call' = [call EXCEPT ![c] = r]
  BY DEF SipsessProgr, UaTyped
<1>2. st \in Trying
  BY <1>1 DEF Trying
<1>3. call[c] \in CallRecords
  BY DEF UaTyped
<1>. HIDE DEF st
<1>4. r \in CallRecords /\ r.state \in Trying
  BY <1>2, <1>3 DEF CallRecords, CallStates, Trying
<1>5. r.state \notin {"idle", "incoming", "freed"}
  BY <1>4 DEF Trying
<1>. HIDE DEF r
<1>6. /\ UaSafe /\ Shrunk /\ call'[c] = r
      /\ \A d \in Calls : d # c => call'[d] = call[d] /\ Running(d)
  BY <1>1, <1>4, <1>5, StayedSafe
<1>7. TryingKept /\ Running(c)
  BY <1>4, <1>5, <1>6 DEF TryingKept, Running
<1>. QED BY <1>4, <1>6, <1>7 DEF UaKept

LEMMA EstablishedSafe ==
  ASSUME UaTyped, Listed, NEW c \in Calls, SipsessEstab(c)
  PROVE  /\ UaSafe /\ Shrunk /\ call'[c].state = "established"
         /\ \A d \in Calls : Running(d)
<1>. DEFINE r == [call[c] EXCEPT !.state = "established", !.tmr = Off]
<1>1. call' = [call EXCEPT ![c] = r] /\ UNCHANGED list /\ InList(c)
  BY DEF SipsessEstab, UaTyped
<1>2. call[c] \in CallRecords
  BY DEF UaTyped
<1>3. r \in CallRecords /\ r.state = "established"
  BY <1>2 DEF CallRecords, CallStates, Off
<1>. HIDE DEF r
<1>4. /\ UaSafe /\ Shrunk /\ call'[c] = r
      /\ \A d \in Calls : d # c => call'[d] = call[d] /\ Running(d)
  BY <1>1, <1>3, StayedSafe DEF Trying
<1>5. Running(c)
  BY <1>3, <1>4 DEF Running
<1>. QED BY <1>3, <1>4, <1>5

\* a call that is over stays, without its timer
LEMMA OverSafe ==
  ASSUME UaTyped, Listed, NEW c \in Calls, InList(c), Over(c)
  PROVE  /\ UaSafe /\ Shrunk /\ TryingKept
         /\ call'[c].state = call[c].state
         /\ \A d \in Calls : d # c => call'[d] = call[d] /\ Running(d)
<1>. DEFINE r == [call[c] EXCEPT !.tmr = Off]
<1>1. call' = [call EXCEPT ![c] = r] /\ UNCHANGED list
  BY DEF Over, UaTyped
<1>2. call[c] \in CallRecords
  BY DEF UaTyped
<1>3. r \in CallRecords /\ r.state = call[c].state
  BY <1>2 DEF CallRecords, Off
<1>. HIDE DEF r
<1>4. /\ UaSafe /\ Shrunk /\ call'[c] = r
      /\ \A d \in Calls : d # c => call'[d] = call[d] /\ Running(d)
  BY <1>1, <1>3, StayedSafe
<1>5. TryingKept
  BY <1>3, <1>4 DEF TryingKept
<1>. QED BY <1>3, <1>4, <1>5

LEMMA AcceptSafe ==
  ASSUME UaTyped, Listed, NEW c \in Calls, CallAccept(c)
  PROVE  /\ UaSafe /\ list' # <<>> /\ call'[c].state = "incoming"
         /\ call'[c].tmr \in 0 .. LocalTimeout /\ InList(c)'
         /\ \A d \in Calls : d # c => Running(d)
         /\ Len(list') = Len(list) + 1 /\ list'[Len(list')] = c
<1>. DEFINE r == [call[c] EXCEPT !.state = "incoming", !.tmr = LocalTimeout]
<1>1. call' = [call EXCEPT ![c] = r] /\ list' = Append(list, c)
  BY DEF CallAccept, UaTyped
<1>2. /\ call[c] \in CallRecords
      /\ LocalTimeout \in Nat \union {Off} /\ LocalTimeout \in 0 .. LocalTimeout
  BY UserAgentAssumption DEF UaTyped
<1>3. r \in CallRecords /\ r.state = "incoming" /\ r.tmr \in 0 .. LocalTimeout
  BY <1>2 DEF CallRecords, CallStates
<1>. HIDE DEF r
<1>4. /\ UaSafe /\ list' # <<>> /\ call'[c] = r
      /\ Len(list') = Len(list) + 1 /\ list'[Len(list')] = c
      /\ \A d \in Calls : d # c => Running(d)
  BY <1>1, <1>3, JoinedSafe
<1>5. InList(c)'
  BY <1>3, <1>4 DEF UaSafe, Listed
<1>. QED BY <1>3, <1>4, <1>5

LEMMA ConnectSafe ==
  ASSUME UaTyped, Listed, NEW c \in Calls, NEW ok \in BOOLEAN, UaConnect(c, ok)
  PROVE  /\ UaKept
         /\ ok => list' # <<>>
         /\ ~ok => Shrunk /\ UNCHANGED list
<1>. DEFINE r == [call[c] EXCEPT !.state = IF ok THEN "outgoing" ELSE "freed"]
<1>1. call' = [call EXCEPT ![c] = r] /\ list' = IF ok THEN Append(list, c) ELSE list
  BY DEF UaConnect, UaTyped
<1>2. call[c] \in CallRecords
  BY DEF UaTyped
<1>3. r \in CallRecords /\ r.state = IF ok THEN "outgoing" ELSE "freed"
  BY <1>2 DEF CallRecords, CallStates
<1>. HIDE DEF r
<1>4. /\ UaSafe /\ call'[c] = r
      /\ \A d \in Calls : d # c => call'[d] = call[d] /\ Running(d)
      /\ ok => list' # <<>>
      /\ ~ok => Shrunk /\ UNCHANGED list
  <2>1. CASE ok
    BY <1>1, <1>3, <2>1, JoinedSafe
  <2>2. CASE ~ok
    BY <1>1, <1>3, <2>2, StayedSafe DEF Trying
  <2>. QED BY <2>1, <2>2
<1>5. TryingKept /\ Running(c)
  BY <1>3, <1>4 DEF TryingKept, Running, Trying
<1>. QED BY <1>4, <1>5 DEF UaKept

-----------------------------------------------------------------------------
(***************************************************************************)
(* Every step keeps the invariant.                                         *)
(***************************************************************************)
LEMMA InitInv == Init => RingInv
<1>. SUFFICES ASSUME Init PROVE RingInv
  OBVIOUS
<1>1. NewCall \in CallRecords /\ NewCall.state = "idle"
  BY DEF NewCall, CallRecords, CallStates, Off
<1>2. call = [c \in Calls |-> NewCall] /\ list = <<>>
  BY DEF Init, UaInit
<1>3. UaTyped
  BY <1>1, <1>2 DEF UaTyped
<1>4. Timed /\ Listed
  BY <1>1, <1>2 DEF Timed, Listed
<1>5. event.at = "loop" /\ event \in [at : Places, c : Calls \union {0}, s : PhoneStates]
  BY DEF Init, InLoop, Places, PhoneStates
<1>6. PhoneTyped
  BY <1>5 DEF Init, PhoneTyped, PhoneStates
<1>7. SipInv
  BY <1>5 DEF SipInv
<1>. QED BY <1>3, <1>4, <1>6, <1>7 DEF Init, RingInv, PhoneInv, OnlyCrossingLeavesBusy, Aged, LastAged

LEMMA TickSafe ==
  ASSUME PhoneInv, Tick
  PROVE  /\ UaKept /\ Shrunk /\ PhoneTyped'
         /\ ringing # Off => ringing' = Min({ringing + 1, RingingTimeout})
         /\ \A i \in DOMAIN list :
               age'[list[i]] = Min({age[list[i]] + 1, RingingTimeout})
<1>. USE PhoneAssumption
<1>1. UaTyped /\ PhoneTyped /\ Listed /\ UNCHANGED list
  BY DEF PhoneInv, Tick
<1>2. ASSUME NEW c \in Calls
      PROVE  /\ call'[c] \in CallRecords /\ call'[c].state = call[c].state
             /\ call[c].tmr # Off => call'[c].tmr = call[c].tmr - 1 /\ call[c].tmr > 0
  <2>. DEFINE t == IF call[c].tmr = Off THEN Off ELSE call[c].tmr - 1
  <2>1. call[c] \in CallRecords /\ call[c].tmr # 0
    BY <1>1 DEF UaTyped, Tick
  <2>2. call[c].tmr \in Nat \union {Off}
    BY <2>1 DEF CallRecords
  <2>3. /\ t \in Nat \union {Off}
        /\ call[c].tmr # Off => t = call[c].tmr - 1 /\ call[c].tmr > 0
    BY <2>1, <2>2 DEF Off
  <2>4. call'[c] = [call[c] EXCEPT !.tmr = t]
    BY DEF Tick
  <2>. HIDE DEF t
  <2>. QED BY <2>1, <2>3, <2>4 DEF CallRecords
<1>3. UaTyped'
  <2>1. call' = [c \in Calls |-> call'[c]]
    BY DEF Tick
  <2>. QED BY <1>1, <1>2, <2>1 DEF UaTyped
<1>4. ASSUME NEW c \in Calls
      PROVE  Running(c)
  <2>. SUFFICES ASSUME call[c].tmr \in 0 .. LocalTimeout
                PROVE  call'[c].tmr \in 0 .. LocalTimeout
    BY <1>2 DEF Running
  <2>. QED BY <1>2, UserAgentAssumption DEF Off
<1>5. \A i \in DOMAIN list' : i <= i /\ list'[i] = list[i]
  BY <1>1, ListLength
<1>6. Shrunk
  BY <1>1, <1>2, <1>5 DEF Shrunk
<1>7. ringing' \in Nat \union {Off}
  <2>1. ringing # Off => Min({ringing + 1, RingingTimeout}) \in Nat
    BY <1>1, Capped DEF PhoneTyped
  <2>. QED BY <2>1 DEF Tick
<1>8. age' \in [Calls -> Nat]
  <2>1. \A c \in Calls : Min({age[c] + 1, RingingTimeout}) \in Nat
    BY <1>1, Capped DEF PhoneTyped
  <2>. QED BY <2>1 DEF Tick
<1>9. ASSUME NEW i \in DOMAIN list
      PROVE  age'[list[i]] = Min({age[list[i]] + 1, RingingTimeout})
  <2>1. list[i] \in Calls /\ InList(list[i])
    BY <1>1, ListLength DEF InList
  <2>. QED BY <2>1 DEF Tick
<1>10. UaKept
  <2>1. Listed' /\ TryingKept
    BY <1>1, <1>2 DEF Listed, InList, TryingKept
  <2>. QED BY <1>2, <1>3, <1>4, <2>1 DEF UaKept, UaSafe
<1>11. PhoneTyped'
  BY <1>1, <1>7, <1>8 DEF PhoneTyped, Tick
<1>12. ringing # Off => ringing' = Min({ringing + 1, RingingTimeout})
  BY DEF Tick
<1>. QED BY <1>6, <1>9, <1>10, <1>11, <1>12

\* a step of the GUI thread or of time, while the SIP thread stays where it is
LEMMA AsideSafe ==
  ASSUME PhoneInv, UaKept, UNCHANGED event, phone' = phone \/ phone' = "Idle"
  PROVE  UaTyped' /\ Listed' /\ Timed' /\ SipInv'
<1>1. UaTyped' /\ Listed'
  BY DEF UaKept, UaSafe
<1>2. Timed'
  <2>. SUFFICES ASSUME NEW c \in Calls, call'[c].state = "incoming"
                PROVE  InList(c)' /\ (call'[c].tmr \in 0 .. LocalTimeout \/ Closing(c)')
    BY DEF Timed
  <2>1. InList(c)'
    BY <1>1 DEF Listed
  <2>2. call[c].tmr \in 0 .. LocalTimeout \/ Closing(c)
    BY DEF UaKept, Running, PhoneInv, Timed
  <2>. QED BY <2>1, <2>2 DEF UaKept, Running, Closing
<1>3. SipInv'
  BY DEF UaKept, UaSafe, TryingKept, PhoneInv, SipInv
<1>. QED BY <1>1, <1>2, <1>3

\* a handler of the SIP thread has changed call c and raises its event
LEMMA RaisedSafe ==
  ASSUME PhoneInv, NEW c \in Calls, NEW s \in PhoneStates, Raised(c, s), UaSafe,
         \A d \in Calls : d # c => Running(d),
         Running(c) \/ s = "Idle"
            \/ call'[c].tmr \in 0 .. LocalTimeout,
         s # "Idle" => call'[c].state # "idle",
         s = "Outgoing" => call'[c].state \in Trying,
         list' # <<>>
  PROVE  PhoneInv'
<1>1. /\ UaTyped' /\ Listed' /\ PhoneTyped /\ Timed /\ event.at = "loop"
      /\ event' = [at |-> "tests", c |-> c, s |-> s]
      /\ UNCHANGED <<phone, crossed, gui, ringing, age>>
  BY DEF UaSafe, PhoneInv, Raised, guiVars
<1>2. event'.at = "tests" /\ event'.c = c /\ event'.s = s
  BY <1>1
<1>3. PhoneTyped'
  <2>1. event' \in [at : Places, c : Calls \union {0}, s : PhoneStates]
    BY <1>1 DEF Places
  <2>. QED BY <1>1, <2>1 DEF PhoneTyped
<1>4. Timed'
  <2>. SUFFICES ASSUME NEW d \in Calls, call'[d].state = "incoming"
                PROVE  InList(d)' /\ (call'[d].tmr \in 0 .. LocalTimeout \/ Closing(d)')
    BY DEF Timed
  <2>1. InList(d)'
    BY <1>1 DEF Listed
  <2>2. Running(d) => call'[d].tmr \in 0 .. LocalTimeout
    BY <1>1 DEF Running, Timed, Closing
  <2>3. d = c /\ s = "Idle" => Closing(d)'
    BY <1>2 DEF Closing
  <2>. QED BY <2>1, <2>2, <2>3
<1>5. SipInv'
  BY <1>2 DEF SipInv
<1>6. OnlyCrossingLeavesBusy'
  BY DEF OnlyCrossingLeavesBusy
<1>. QED BY <1>1, <1>3, <1>4, <1>5, <1>6 DEF PhoneInv

\* the SIP thread goes through setState while the calls stay
LEMMA GoesOnSafe ==
  ASSUME PhoneInv, UNCHANGED uaVars, UNCHANGED guiVars, event.at # "loop",
         NEW a \in Places \ {"loop"}, event' = [event EXCEPT !.at = a],
         a \in {"tests", "writes"} => event.at \in {"tests", "writes"},
         phone' = phone \/ phone' = event.s,
         event.s = "Idle" /\ a \in {"emits", "tells"} => phone' = "Idle",
         OnlyCrossingLeavesBusy', crossed' \in BOOLEAN
  PROVE  PhoneInv'
<1>1. UaTyped /\ PhoneTyped /\ Listed /\ Timed /\ SipInv
  BY DEF PhoneInv
<1>2. /\ event' \in [at : Places, c : Calls \union {0}, s : PhoneStates]
      /\ event'.at = a /\ event'.c = event.c /\ event'.s = event.s
  BY <1>1 DEF PhoneTyped
<1>3. UaTyped' /\ Listed'
  BY <1>1 DEF UaTyped, Listed, InList, uaVars
<1>4. PhoneTyped'
  BY <1>1, <1>2 DEF PhoneTyped, guiVars
<1>5. Timed'
  BY <1>1, <1>2 DEF Timed, InList, Closing, uaVars
<1>6. SipInv'
  BY <1>1, <1>2 DEF SipInv, uaVars
<1>. QED BY <1>3, <1>4, <1>5, <1>6 DEF PhoneInv

\* and is back in its loop: nothing is left to tell of a call that is over
LEMMA BackSafe ==
  ASSUME PhoneInv, UaKept, UNCHANGED guiVars, UNCHANGED crossed, event.at # "loop", event' = InLoop,
         phone' = phone, OnlyCrossingLeavesBusy',
         event.s = "Idle" => call'[event.c].state = "freed"
  PROVE  PhoneInv'
<1>1. UaTyped' /\ Listed' /\ PhoneTyped /\ Timed /\ event.at # "loop"
  BY DEF UaKept, UaSafe, PhoneInv
<1>2. event' \in [at : Places, c : Calls \union {0}, s : PhoneStates] /\ event'.at = "loop"
  BY DEF InLoop, Places, PhoneStates
<1>3. PhoneTyped'
  BY <1>1, <1>2 DEF PhoneTyped, guiVars
<1>4. Timed'
  <2>. SUFFICES ASSUME NEW d \in Calls, call'[d].state = "incoming"
                PROVE  InList(d)' /\ call'[d].tmr \in 0 .. LocalTimeout
    BY DEF Timed
  <2>1. InList(d)'
    BY <1>1 DEF Listed
  <2>2. ~Closing(d)
    BY DEF Closing
  <2>. QED BY <1>1, <2>1, <2>2 DEF UaKept, Running, Timed
<1>5. SipInv'
  BY <1>2 DEF SipInv
<1>. QED BY <1>1, <1>3, <1>4, <1>5 DEF PhoneInv

\* the two ways setState goes on
LEMMA RestSafe ==
  ASSUME PhoneInv, UNCHANGED uaVars, UNCHANGED guiVars, UNCHANGED <<phone, crossed>>,
         event.at \in {"tests", "emits"}, event' = Rest,
         event.s = "Idle" => phone = "Idle"
  PROVE  PhoneInv'
<1>1. /\ UaTyped /\ Listed /\ PhoneTyped /\ OnlyCrossingLeavesBusy
  BY DEF PhoneInv
<1>2. OnlyCrossingLeavesBusy'
  BY <1>1 DEF OnlyCrossingLeavesBusy, HangingUp, uaVars, guiVars
<1>3. CASE event.s \in {"Incoming", "Idle"}
  <2>. DEFINE a == "tells"
  <2>1. a \in Places \ {"loop"} /\ a \notin {"tests", "writes"} /\ event' = [event EXCEPT !.at = a]
    BY <1>3 DEF Rest, Places
  <2>. HIDE DEF a
  <2>2. crossed' \in BOOLEAN
    BY <1>1 DEF PhoneTyped
  <2>. QED BY <1>2, <2>1, <2>2, GoesOnSafe
<1>4. CASE event.s \notin {"Incoming", "Idle"}
  <2>1. UaKept
    BY <1>1, UnchangedSafe
  <2>. QED BY <1>2, <1>4, <2>1, BackSafe DEF Rest
<1>. QED BY <1>3, <1>4

LEMMA SipGoesOnStep ==
  ASSUME PhoneInv, SipGoesOn
  PROVE  PhoneInv'
<1>1. UaTyped /\ Listed /\ PhoneTyped /\ SipInv /\ OnlyCrossingLeavesBusy
  BY DEF PhoneInv
<1>2. ASSUME SipTests PROVE PhoneInv'
  <2>1. CASE phone = event.s
    BY <1>2, <2>1, RestSafe DEF SipTests
  <2>2. CASE phone # event.s
    <3>. DEFINE a == "writes"
    <3>1. /\ a \in Places \ {"loop"} /\ event' = [event EXCEPT !.at = a] /\ event.at = "tests"
          /\ a \notin {"emits", "tells"}
      BY <1>2, <2>2 DEF SipTests, Places
    <3>. HIDE DEF a
    <3>2. OnlyCrossingLeavesBusy' /\ crossed' \in BOOLEAN
      BY <1>1, <1>2 DEF SipTests, OnlyCrossingLeavesBusy, HangingUp, PhoneTyped, uaVars, guiVars
    <3>. QED BY <1>2, <3>1, <3>2, GoesOnSafe DEF SipTests
  <2>. QED BY <2>1, <2>2
<1>3. ASSUME SipWrites PROVE PhoneInv'
  <2>. DEFINE a == "emits"
  <2>1. /\ a \in Places \ {"loop"} /\ event' = [event EXCEPT !.at = a] /\ event.at = "writes"
        /\ a \notin {"tests", "writes"} /\ phone' = event.s
    BY <1>3 DEF SipWrites, Places
  <2>. HIDE DEF a
  <2>2. event.s = "Idle" \/ crossed' \/ list # <<>>
    <3>. SUFFICES ASSUME event.s # "Idle", ~crossed' PROVE list # <<>>
      OBVIOUS
    <3>1. event.c \in Calls /\ call[event.c].state \notin {"idle", "freed"}
      BY <1>1, <1>3, <2>1 DEF SipWrites, SipInv
    <3>. QED BY <1>1, <3>1, ListedSome DEF Listed
  <2>3. OnlyCrossingLeavesBusy'
    BY <1>3, <2>1, <2>2 DEF SipWrites, OnlyCrossingLeavesBusy, uaVars
  <2>4. crossed' \in BOOLEAN
    BY <1>3 DEF SipWrites
  <2>. QED BY <1>3, <2>1, <2>3, <2>4, GoesOnSafe DEF SipWrites
<1>4. ASSUME SipEmits PROVE PhoneInv'
  <2>1. event.s = "Idle" => phone = "Idle"
    BY <1>1, <1>4 DEF SipEmits, SipInv
  <2>. QED BY <1>4, <2>1, RestSafe DEF SipEmits
<1>5. ASSUME SipTells PROVE PhoneInv'
  <2>1. event.c \in Calls /\ event.at = "tells" /\ event' = InLoop /\ UNCHANGED <<phone, crossed, guiVars>>
    BY <1>1, <1>5 DEF SipTells, SipInv
  <2>2. CASE event.s # "Idle"
    <3>1. UNCHANGED uaVars
      BY <1>5, <2>2 DEF SipTells
    <3>2. UaKept
      BY <1>1, <3>1, UnchangedSafe
    <3>3. OnlyCrossingLeavesBusy'
      BY <1>1, <2>1, <3>1 DEF OnlyCrossingLeavesBusy, HangingUp, uaVars, guiVars
    <3>. QED BY <2>1, <2>2, <3>2, <3>3, BackSafe
  <2>3. CASE event.s = "Idle"
    <3>1. Dropped(event.c) /\ phone = "Idle"
      BY <1>1, <1>5, <2>3 DEF SipTells, SipInv
    <3>2. UaKept /\ call'[event.c].state = "freed"
      <4>1. CASE call[event.c].state = "freed"
        BY <1>1, <3>1, <4>1, UnchangedSafe DEF Dropped, uaVars
      <4>2. CASE call[event.c].state # "freed"
        BY <1>1, <2>1, <3>1, <4>2, FreedSafe DEF Dropped
      <4>. QED BY <4>1, <4>2
    <3>3. OnlyCrossingLeavesBusy'
      BY <2>1, <3>1 DEF OnlyCrossingLeavesBusy
    <3>. QED BY <2>1, <2>3, <3>2, <3>3, BackSafe
  <2>. QED BY <2>2, <2>3
<1>. QED BY <1>2, <1>3, <1>4, <1>5 DEF SipGoesOn

LEMMA HandlerStep ==
  ASSUME PhoneInv, NEW c \in Calls
  PROVE  /\ CallIncoming(c) \/ CallEstablished(c) \/ CallClosed(c) \/ CallTimesOut(c) => PhoneInv'
         /\ \A scode, media : CallProceeds(c, scode, media) => PhoneInv'
<1>1. UaTyped /\ Listed /\ PhoneTyped /\ OnlyCrossingLeavesBusy
  BY DEF PhoneInv
<1>2. ASSUME CallIncoming(c) PROVE PhoneInv'
  <2>. DEFINE s == "Incoming"
  <2>1. /\ UaSafe /\ list' # <<>> /\ call'[c].state = "incoming"
        /\ call'[c].tmr \in 0 .. LocalTimeout
        /\ \A d \in Calls : d # c => Running(d)
    BY <1>1, <1>2, AcceptSafe DEF CallIncoming
  <2>2. s \in PhoneStates /\ s # "Outgoing" /\ Raised(c, s)
    BY <1>2 DEF CallIncoming, PhoneStates
  <2>. HIDE DEF s
  <2>. QED BY <2>1, <2>2, RaisedSafe
<1>3. ASSUME CallEstablished(c) PROVE PhoneInv'
  <2>. DEFINE s == "Established"
  <2>1. /\ UaSafe /\ call'[c].state = "established"
        /\ \A d \in Calls : Running(d)
    BY <1>1, <1>3, EstablishedSafe DEF CallEstablished
  <2>2. s \in PhoneStates /\ s # "Outgoing" /\ Raised(c, s)
    BY <1>3 DEF CallEstablished, PhoneStates
  <2>3. list' # <<>>
    BY <1>1, <1>3, ListedSome DEF CallEstablished, SipsessEstab
  <2>. HIDE DEF s
  <2>. QED BY <2>1, <2>2, <2>3, RaisedSafe
<1>4. ASSUME CallClosed(c) \/ CallTimesOut(c) PROVE PhoneInv'
  <2>. DEFINE s == "Idle"
  <2>1. InList(c) /\ Over(c) /\ Raised(c, s) /\ s = "Idle" /\ s \in PhoneStates
    BY <1>4 DEF CallClosed, SipsessClose, CallTimesOut, InviteTimeout, OnClosed, PhoneStates
  <2>. HIDE DEF s
  <2>2. UaSafe /\ call'[c].state = call[c].state /\ \A d \in Calls : d # c => Running(d)
    BY <1>1, <2>1, OverSafe
  <2>3. list' # <<>>
    BY <1>1, <2>1, ListedSome DEF Over
  <2>. QED BY <2>1, <2>2, <2>3, RaisedSafe
<1>5. ASSUME NEW scode, NEW media, CallProceeds(c, scode, media) PROVE PhoneInv'
  <2>. DEFINE s == "Outgoing"
  <2>1. UaKept /\ call'[c].state \in Trying /\ UNCHANGED list /\ list # <<>>
    BY <1>1, <1>5, ProgressSafe, ListedSome DEF CallProceeds, SipsessProgr
  <2>2. CASE Raised(c, s)
    <3>1. s \in PhoneStates
      BY DEF PhoneStates
    <3>2. call'[c].state # "idle"
      BY <2>1 DEF Trying
    <3>. HIDE DEF s
    <3>. QED BY <2>1, <2>2, <3>1, <3>2, RaisedSafe DEF UaKept
  <2>3. CASE UNCHANGED <<phone, event, crossed, guiVars>>
    <3>1. UaTyped' /\ Listed' /\ Timed' /\ SipInv'
      BY <2>1, <2>3, AsideSafe
    <3>2. PhoneTyped'
      BY <1>1, <2>3 DEF PhoneTyped, guiVars
    <3>3. OnlyCrossingLeavesBusy'
      BY <2>1 DEF OnlyCrossingLeavesBusy
    <3>. QED BY <3>1, <3>2, <3>3 DEF PhoneInv
  <2>. QED BY <1>5, <2>2, <2>3 DEF CallProceeds
<1>. QED BY <1>2, <1>3, <1>4, <1>5

LEMMA PhoneStep == PhoneInv /\ [Next]_phVars => PhoneInv'
<1>. SUFFICES ASSUME PhoneInv, [Next]_phVars PROVE PhoneInv'
  OBVIOUS
<1>1. UaTyped /\ PhoneTyped /\ Listed /\ OnlyCrossingLeavesBusy
  BY DEF PhoneInv
\* the other threads: what they change is safe, and the phone shows no other call
<1>2. ASSUME UaKept, UNCHANGED event, phone' = phone \/ phone' = "Idle",
             PhoneTyped', OnlyCrossingLeavesBusy'
      PROVE  PhoneInv'
  BY <1>2, AsideSafe DEF PhoneInv
<1>3. ASSUME NEW c \in Calls, NEW ok \in BOOLEAN, UserCalls(c, ok) PROVE PhoneInv'
  <2>1. UaKept /\ (ok => list' # <<>>) /\ (~ok => UNCHANGED list)
    BY <1>1, <1>3, ConnectSafe DEF UserCalls
  <2>2. PhoneTyped' /\ OnlyCrossingLeavesBusy'
    BY <1>1, <1>3, <2>1 DEF UserCalls, PhoneTyped, OnlyCrossingLeavesBusy, HangingUp
  <2>. QED BY <1>2, <1>3, <2>1, <2>2 DEF UserCalls
<1>4. ASSUME CallPlaced PROVE PhoneInv'
  <2>1. UaKept
    BY <1>1, <1>4, UnchangedSafe DEF CallPlaced
  <2>2. PhoneTyped' /\ OnlyCrossingLeavesBusy'
    BY <1>1, <1>4 DEF CallPlaced, PhoneTyped, OnlyCrossingLeavesBusy, HangingUp, uaVars
  <2>. QED BY <1>2, <1>4, <2>1, <2>2 DEF CallPlaced
<1>5. ASSUME Hangup PROVE PhoneInv'
  <2>1. UaKept
    BY <1>1, <1>5, HangupSafe DEF Hangup
  <2>2. PhoneTyped' /\ OnlyCrossingLeavesBusy'
    BY <1>1, <1>5 DEF Hangup, PhoneTyped, OnlyCrossingLeavesBusy, HangingUp
  <2>. QED BY <1>2, <1>5, <2>1, <2>2 DEF Hangup
<1>6. ASSUME HangupTests PROVE PhoneInv'
  <2>1. UaKept
    BY <1>1, <1>6, UnchangedSafe DEF HangupTests
  <2>2. PhoneTyped' /\ OnlyCrossingLeavesBusy'
    BY <1>1, <1>6 DEF HangupTests, PhoneTyped, OnlyCrossingLeavesBusy, HangingUp
  <2>. QED BY <1>2, <1>6, <2>1, <2>2 DEF HangupTests
<1>7. ASSUME HangupWrites PROVE PhoneInv'
  <2>1. UaKept
    BY <1>1, <1>7, UnchangedSafe DEF HangupWrites
  <2>2. PhoneTyped' /\ OnlyCrossingLeavesBusy'
    BY <1>1, <1>7 DEF HangupWrites, PhoneTyped, PhoneStates, OnlyCrossingLeavesBusy
  <2>. QED BY <1>2, <1>7, <2>1, <2>2 DEF HangupWrites
<1>8. ASSUME HangupEmits PROVE PhoneInv'
  <2>1. UaKept
    BY <1>1, <1>8, UnchangedSafe DEF HangupEmits
  <2>2. PhoneTyped' /\ OnlyCrossingLeavesBusy'
    BY <1>1, <1>8 DEF HangupEmits, PhoneTyped, OnlyCrossingLeavesBusy, HangingUp, uaVars
  <2>. QED BY <1>2, <1>8, <2>1, <2>2 DEF HangupEmits
<1>9. ASSUME RingingTimesOut PROVE PhoneInv'
  <2>1. UaKept
    BY <1>1, <1>9, UnchangedSafe DEF RingingTimesOut
  <2>2. PhoneTyped' /\ OnlyCrossingLeavesBusy'
    BY <1>1, <1>9 DEF RingingTimesOut, PhoneTyped, OnlyCrossingLeavesBusy, HangingUp, uaVars
  <2>. QED BY <1>2, <1>9, <2>1, <2>2 DEF RingingTimesOut
<1>10. ASSUME NEW ok \in BOOLEAN, UserAnswers(ok) \/ UserToggles(ok) \/ SignalHandled(ok)
       PROVE  PhoneInv'
  <2>1. /\ UaAnswer(ok) \/ UNCHANGED uaVars
        /\ ringing' \in {ringing, Off}
        /\ UNCHANGED <<phone, event, crossed, gui, age>>
    BY <1>10 DEF UserAnswers, UserToggles, SignalHandled
  <2>2. UaKept /\ UNCHANGED list
    BY <1>1, <2>1, AnswerSafe, UnchangedSafe DEF UaAnswer, uaVars
  <2>3. PhoneTyped' /\ OnlyCrossingLeavesBusy'
    BY <1>1, <2>1, <2>2 DEF PhoneTyped, OnlyCrossingLeavesBusy, HangingUp
  <2>. QED BY <1>2, <2>1, <2>2, <2>3
<1>11. ASSUME Tick PROVE PhoneInv'
  <2>1. UaKept /\ PhoneTyped'
    BY <1>11, TickSafe
  <2>2. OnlyCrossingLeavesBusy'
    BY <1>1, <1>11 DEF Tick, OnlyCrossingLeavesBusy, HangingUp
  <2>. QED BY <1>2, <1>11, <2>1, <2>2 DEF Tick
<1>12. ASSUME UNCHANGED phVars PROVE PhoneInv'
  <2>1. UaKept
    BY <1>1, <1>12, UnchangedSafe DEF phVars
  <2>2. PhoneTyped' /\ OnlyCrossingLeavesBusy'
    BY <1>1, <1>12 DEF phVars, guiVars, uaVars, PhoneTyped, OnlyCrossingLeavesBusy, HangingUp
  <2>. QED BY <1>2, <1>12, <2>1, <2>2 DEF phVars
<1>. QED BY <1>3, <1>4, <1>5, <1>6, <1>7, <1>8, <1>9, <1>10, <1>11, <1>12, HandlerStep,
            SipGoesOnStep DEF Next

\* The phone shows a call only while the user agent has one, unless PhoneThread::hangup came
\* between the event of that call and setState: the two threads take the user agent, the
\* state's test, its write and its emission in steps of their own, in every order.
THEOREM BusyOnlyByCrossing == Spec => []OnlyCrossingLeavesBusy
<1>1. Init => PhoneInv
  BY InitInv DEF RingInv
<1>2. PhoneInv => OnlyCrossingLeavesBusy
  BY DEF PhoneInv
<1>. QED BY <1>1, <1>2, PhoneStep, PTL DEF Spec

\* An incoming call that nobody has answered, or whose ACK never comes, always has its local
\* timer running and is still the user agent's, until the SIP thread is about to tell that it
\* is over: nothing the user does stops the timer (call.c, call_answer and invite_timeout).
THEOREM IncomingTimed == Spec => []Timed
<1>1. Init => PhoneInv
  BY InitInv DEF RingInv
<1>2. PhoneInv => Timed
  BY DEF PhoneInv
<1>. QED BY <1>1, <1>2, PhoneStep, PTL DEF Spec

-----------------------------------------------------------------------------
(***************************************************************************)
(* The ringing time.  The code allows one call besides those the user      *)
(* places: MAX_CALLS is 1.  With 2 a call could arrive behind one that is  *)
(* ringing and the time of the first would count for it.                   *)
(***************************************************************************)
OneCall == MaxCalls = 1

\* the list has not grown and the ringing time runs on or stops
LEMMA AgedKept ==
  ASSUME UaTyped, UaTyped', PhoneTyped, Aged, Shrunk,
         ringing' = ringing \/ ringing' = Off, UNCHANGED age
  PROVE  Aged'
<1>. SUFFICES ASSUME ringing' # Off, NEW i \in DOMAIN list',
                     i > 1 \/ call'[list'[i]].state \in Trying
              PROVE  age'[list'[i]] >= ringing'
  BY DEF Aged
<1>1. PICK j \in DOMAIN list : i <= j /\ list'[i] = list[j]
  BY DEF Shrunk
<1>2. i \in Nat /\ j \in Nat /\ list[j] \in Calls
  <2>1. Len(list') \in Nat /\ DOMAIN list' = 1..Len(list')
    BY LenProperties DEF UaTyped
  <2>. QED BY <2>1, ListLength
<1>3. j > 1 \/ call[list[j]].state \in Trying
  BY <1>1, <1>2 DEF Shrunk
<1>. QED BY <1>1, <1>2, <1>3 DEF Aged

\* the last call of the list has been there for the ringing time, if it is outgoing
LEMMA LastIsAged ==
  ASSUME UaTyped, Aged, ringing # Off, list # <<>>,
         Len(list) > 1 \/ call[Last(list)].state \in Trying
  PROVE  age[Last(list)] >= ringing
BY ListLength DEF Aged

LEMMA RingStep ==
  ASSUME OneCall
  PROVE  RingInv /\ [Next]_phVars => RingInv'
<1>. SUFFICES ASSUME RingInv, [Next]_phVars PROVE RingInv'
  OBVIOUS
<1>. DEFINE Placing == gui = "placing" => ringing = Off
<1>1. PhoneInv' /\ UaTyped' /\ PhoneTyped'
  BY PhoneStep DEF RingInv, PhoneInv
<1>2. /\ UaTyped /\ PhoneTyped /\ Listed /\ SipInv /\ OnlyCrossingLeavesBusy
      /\ Aged /\ LastAged /\ Placing
  BY DEF RingInv, PhoneInv
<1>. SUFFICES Aged' /\ LastAged' /\ Placing'
  BY <1>1 DEF RingInv
\* a call leaves the list, and the phone shows none or one that is being hung up
<1>3. ASSUME Shrunk, ringing' = ringing \/ ringing' = Off, UNCHANGED age,
             phone' # "Outgoing" \/ HangingUp', gui' = gui \/ gui' # "placing"
      PROVE  Aged' /\ LastAged' /\ Placing'
  BY <1>1, <1>2, <1>3, AgedKept DEF LastAged
\* the list stays, and the phone shows no other call
<1>4. ASSUME Shrunk, ringing' = ringing \/ ringing' = Off, UNCHANGED age, UNCHANGED list,
             UNCHANGED <<phone, crossed>>, HangingUp' = HangingUp,
             gui' = gui \/ gui' # "placing"
      PROVE  Aged' /\ LastAged' /\ Placing'
  BY <1>1, <1>2, <1>4, AgedKept DEF LastAged
<1>5. ASSUME NEW c \in Calls, CallIncoming(c) PROVE Aged' /\ LastAged' /\ Placing'
  <2>1. /\ call'[c].state = "incoming"
        /\ Len(list') = Len(list) + 1 /\ list'[Len(list')] = c
    BY <1>2, <1>5, AcceptSafe DEF CallIncoming
  <2>2. Len(list) = 0
    BY <1>2, <1>5, ListLength DEF CallIncoming, CallAccept, OneCall
  <2>3. DOMAIN list' = {1} /\ list'[1] = c
    <3>1. Len(list') = 1 /\ DOMAIN list' = 1..Len(list')
      BY <1>1, <2>1, <2>2, LenProperties DEF UaTyped
    <3>. QED BY <2>1, <3>1
  <2>4. Aged'
    BY <2>1, <2>3 DEF Aged, Trying
  \* there was no call to show
  <2>5. phone = "Outgoing" => HangingUp \/ crossed
    <3>1. list = <<>>
      BY <1>2, <2>2, EmptySeq DEF UaTyped
    <3>. QED BY <1>2, <3>1 DEF OnlyCrossingLeavesBusy
  <2>6. UNCHANGED <<phone, crossed, gui, ringing>>
    BY <1>5 DEF CallIncoming, Raised, guiVars
  <2>. QED BY <1>2, <2>4, <2>5, <2>6 DEF LastAged, HangingUp
<1>6. ASSUME NEW c \in Calls, CallEstablished(c) \/ CallClosed(c) \/ CallTimesOut(c)
      PROVE  Aged' /\ LastAged' /\ Placing'
  <2>1. Shrunk /\ UNCHANGED list
    <3>1. CASE CallEstablished(c)
      BY <1>2, <3>1, EstablishedSafe DEF CallEstablished, SipsessEstab
    <3>2. CASE CallClosed(c) \/ CallTimesOut(c)
      <4>1. InList(c) /\ Over(c)
        BY <3>2 DEF CallClosed, SipsessClose, CallTimesOut, InviteTimeout
      <4>. QED BY <1>2, <4>1, OverSafe DEF Over
    <3>. QED BY <1>6, <3>1, <3>2
  <2>2. UNCHANGED <<phone, crossed, gui, ringing, age>>
    BY <1>6 DEF CallEstablished, CallClosed, CallTimesOut, OnClosed, Raised, guiVars
  <2>. QED BY <1>4, <2>1, <2>2 DEF HangingUp
<1>7. ASSUME NEW c \in Calls, NEW scode, NEW media \in BOOLEAN, CallProceeds(c, scode, media)
      PROVE  Aged' /\ LastAged' /\ Placing'
  <2>1. Shrunk /\ UNCHANGED list
    BY <1>2, <1>7, ProgressSafe DEF CallProceeds, SipsessProgr
  <2>2. UNCHANGED <<phone, crossed, gui, ringing, age>>
    BY <1>7 DEF CallProceeds, Raised, guiVars
  <2>. QED BY <1>4, <2>1, <2>2 DEF HangingUp
<1>8. ASSUME SipTests \/ SipEmits PROVE Aged' /\ LastAged' /\ Placing'
  <2>1. Shrunk
    BY <1>2, <1>8, UnchangedSafe DEF SipTests, SipEmits
  <2>2. UNCHANGED <<phone, crossed, gui, ringing, age, list>>
    BY <1>8 DEF SipTests, SipEmits, guiVars, uaVars
  <2>. QED BY <1>4, <2>1, <2>2 DEF HangingUp
\* the phone comes to show an outgoing call: it is the last one, or the first of more
<1>9. ASSUME SipWrites PROVE Aged' /\ LastAged' /\ Placing'
  <2>1. Shrunk /\ UNCHANGED uaVars /\ UNCHANGED <<gui, ringing, age>>
    BY <1>2, <1>9, UnchangedSafe DEF SipWrites, guiVars
  <2>2. Aged' /\ Placing'
    BY <1>1, <1>2, <2>1, AgedKept
  <2>3. ASSUME phone' = "Outgoing", ~crossed', ringing # Off
        PROVE  age[Last(list)] >= ringing
    <3>1. event.c \in Calls /\ call[event.c].state \in Trying
      BY <1>2, <1>9, <2>3 DEF SipWrites, SipInv
    <3>2. InList(event.c)
      BY <1>2, <3>1 DEF Listed, Trying
    <3>3. list # <<>>
      BY <1>2, <3>2, ListedSome
    <3>4. Len(list) > 1 \/ call[Last(list)].state \in Trying
      <4>1. CASE Len(list) = 1
        <5>1. DOMAIN list = {1} /\ Last(list) = list[1]
          BY <1>2, <3>3, <4>1, ListLength
        <5>. QED BY <3>1, <3>2, <5>1 DEF InList
      <4>. QED BY <1>2, <3>3, <4>1, ListLength
    <3>. QED BY <1>2, <2>3, <3>3, <3>4, LastIsAged
  <2>4. LastAged'
    BY <2>1, <2>3 DEF LastAged, uaVars
  <2>. QED BY <2>2, <2>4
<1>10. ASSUME SipTells PROVE Aged' /\ LastAged' /\ Placing'
  <2>1. UNCHANGED <<phone, crossed, gui, ringing, age>>
    BY <1>10 DEF SipTells, guiVars
  <2>2. CASE event.s # "Idle"
    <3>1. UNCHANGED uaVars
      BY <1>10, <2>2 DEF SipTells
    <3>2. Shrunk /\ UNCHANGED list
      BY <1>2, <3>1, UnchangedSafe DEF uaVars
    <3>. QED BY <1>4, <2>1, <3>2 DEF HangingUp
  <2>3. CASE event.s = "Idle"
    <3>1. Dropped(event.c) /\ phone = "Idle" /\ event.c \in Calls
      BY <1>2, <1>10, <2>3 DEF SipTells, SipInv
    <3>2. Shrunk
      <4>1. CASE call[event.c].state = "freed"
        BY <1>2, <3>1, <4>1, UnchangedSafe DEF Dropped
      <4>2. CASE call[event.c].state # "freed"
        BY <1>2, <3>1, <4>2, FreedSafe DEF Dropped
      <4>. QED BY <4>1, <4>2
    <3>. QED BY <1>3, <2>1, <3>1, <3>2
  <2>. QED BY <2>2, <2>3
<1>11. ASSUME NEW c \in Calls, NEW ok \in BOOLEAN, UserCalls(c, ok)
       PROVE  Aged' /\ LastAged' /\ Placing'
  BY <1>11 DEF UserCalls, Aged, LastAged
<1>12. ASSUME CallPlaced PROVE Aged' /\ LastAged' /\ Placing'
  <2>1. /\ UNCHANGED <<call, list, age, phone, crossed>> /\ ringing' = 0
        /\ gui = "placing" /\ gui' = "waiting"
    BY <1>12 DEF CallPlaced, uaVars
  <2>2. \A i \in DOMAIN list : age[list[i]] >= 0
    <3>1. \A c \in Calls : age[c] \in Nat
      BY <1>2 DEF PhoneTyped
    <3>. QED BY <1>2, <3>1, ListLength
  <2>3. Aged'
    BY <2>1, <2>2 DEF Aged
  <2>4. phone = "Outgoing" /\ ~crossed => age[Last(list)] >= 0
    BY <1>2, <2>1, <2>2, ListLength DEF OnlyCrossingLeavesBusy, HangingUp
  <2>. QED BY <2>1, <2>3, <2>4 DEF LastAged
<1>13. ASSUME Hangup PROVE Aged' /\ LastAged' /\ Placing'
  <2>1. Shrunk
    BY <1>2, <1>13, HangupSafe DEF Hangup
  <2>. QED BY <1>3, <1>13, <2>1 DEF Hangup, HangingUp
<1>14. ASSUME HangupTests \/ HangupWrites PROVE Aged' /\ LastAged' /\ Placing'
  <2>1. Shrunk
    BY <1>2, <1>14, UnchangedSafe DEF HangupTests, HangupWrites
  <2>2. phone' # "Outgoing" \/ HangingUp'
    BY <1>14 DEF HangupTests, HangupWrites, HangingUp
  <2>. QED BY <1>3, <1>14, <2>1, <2>2 DEF HangupTests, HangupWrites
<1>15. ASSUME HangupEmits \/ RingingTimesOut PROVE Aged' /\ LastAged' /\ Placing'
  <2>1. Shrunk
    BY <1>2, <1>15, UnchangedSafe DEF HangupEmits, RingingTimesOut
  <2>2. /\ UNCHANGED <<phone, crossed, age, list>> /\ HangingUp' = HangingUp
        /\ ringing' = ringing \/ ringing' = Off
        /\ gui' # "placing"
    BY <1>15 DEF HangupEmits, RingingTimesOut, HangingUp, uaVars
  <2>. QED BY <1>4, <2>1, <2>2
<1>16. ASSUME NEW ok \in BOOLEAN, UserAnswers(ok) \/ UserToggles(ok) \/ SignalHandled(ok)
       PROVE  Aged' /\ LastAged' /\ Placing'
  <2>1. /\ UaAnswer(ok) \/ UNCHANGED uaVars
        /\ ringing' = ringing \/ ringing' = Off
        /\ UNCHANGED <<phone, crossed, gui, age>>
    BY <1>16 DEF UserAnswers, UserToggles, SignalHandled
  <2>2. Shrunk /\ UNCHANGED list
    BY <1>2, <2>1, AnswerSafe, UnchangedSafe DEF UaAnswer, uaVars
  <2>. QED BY <1>4, <2>1, <2>2 DEF HangingUp
<1>17. ASSUME Tick PROVE Aged' /\ LastAged' /\ Placing'
  <2>1. /\ Shrunk /\ UNCHANGED <<list, phone, crossed, gui>>
        /\ ringing = Off => ringing' = Off
        /\ ringing # Off => ringing' = Min({ringing + 1, RingingTimeout})
        /\ \A i \in DOMAIN list : age'[list[i]] = Min({age[list[i]] + 1, RingingTimeout})
    BY <1>17, TickSafe DEF RingInv, Tick
  <2>2. ASSUME NEW i \in DOMAIN list, ringing # Off, age[list[i]] >= ringing
        PROVE  age'[list[i]] >= ringing'
    <3>1. ringing \in Nat /\ age[list[i]] \in Nat /\ RingingTimeout \in Nat
      BY <1>2, <2>2, ListLength, PhoneAssumption DEF PhoneTyped
    <3>2. /\ ringing' = IF ringing + 1 <= RingingTimeout THEN ringing + 1 ELSE RingingTimeout
          /\ age'[list[i]] = IF age[list[i]] + 1 <= RingingTimeout
                             THEN age[list[i]] + 1 ELSE RingingTimeout
      <4>1. ringing + 1 \in Nat /\ age[list[i]] + 1 \in Nat
        BY <3>1
      <4>. QED BY <2>1, <2>2, <3>1, <4>1, Capped
    <3>. QED BY <2>2, <3>1, <3>2
  <2>3. Aged'
    <3>. SUFFICES ASSUME ringing' # Off, NEW i \in DOMAIN list,
                         i > 1 \/ call'[list[i]].state \in Trying
                  PROVE  age'[list[i]] >= ringing'
      BY <2>1 DEF Aged
    <3>1. i > 1 \/ call[list[i]].state \in Trying
      BY <1>2, <2>1, ListLength DEF Shrunk
    <3>. QED BY <1>2, <2>1, <2>2, <3>1 DEF Aged
  <2>4. LastAged'
    <3>. SUFFICES ASSUME phone = "Outgoing", ~HangingUp, ~crossed, ringing # Off
                  PROVE  age'[Last(list)] >= ringing'
      BY <2>1 DEF LastAged, HangingUp
    <3>1. list # <<>> /\ Last(list) = list[Len(list)] /\ Len(list) \in DOMAIN list
      BY <1>2, ListLength DEF OnlyCrossingLeavesBusy
    <3>. QED BY <1>2, <2>2, <3>1 DEF LastAged
  <2>. QED BY <1>2, <2>1, <2>3, <2>4
<1>18. ASSUME UNCHANGED phVars PROVE Aged' /\ LastAged' /\ Placing'
  <2>1. Shrunk
    BY <1>2, <1>18, UnchangedSafe DEF phVars
  <2>. QED BY <1>4, <1>18, <2>1 DEF phVars, guiVars, uaVars, HangingUp
<1>. QED BY <1>5, <1>6, <1>7, <1>8, <1>9, <1>10, <1>11, <1>12, <1>13, <1>14, <1>15, <1>16,
            <1>17, <1>18 DEF Next, SipGoesOn

\* timerEvent gives a call up only when it is the newest and rang long enough, unless the phone
\* was left busy by a hangup that came between a call's event and setState: signals that are
\* still queued, the other steps of a hangup or a call that came or went in between do not let
\* the ringing time of one call end another.
THEOREM RingingCorrect ==
  ASSUME OneCall
  PROVE  Spec => OnlyCrossingEndsOther
<1>1. Init => RingInv
  BY InitInv
<1>2. RingInv /\ [Next]_phVars => RingInv'
  BY RingStep
<1>3. RingInv /\ [Next]_phVars =>
        [gui' = "timedOut" /\ gui # "timedOut" /\ ~crossed =>
            list # <<>> /\ RingsLongEnough(Last(list))]_phVars
  <2>. SUFFICES ASSUME RingInv, Next, gui' = "timedOut", gui # "timedOut", ~crossed
                PROVE  list # <<>> /\ RingsLongEnough(Last(list))
    OBVIOUS
  <2>1. RingingTimesOut
    BY DEF Next, CallIncoming, CallEstablished, CallClosed, CallTimesOut, CallProceeds, OnClosed,
           Raised, SipGoesOn, SipTests, SipWrites, SipEmits, SipTells, UserCalls, UserAnswers,
           UserToggles, SignalHandled, CallPlaced, Hangup, HangupTests, HangupWrites,
           HangupEmits, Tick, guiVars
  <2>2. /\ phone = "Outgoing" /\ ~HangingUp /\ ringing >= RingingTimeout
        /\ RingingTimeout \in Nat
    BY <2>1, PhoneAssumption DEF RingingTimesOut, HangingUp
  <2>3. /\ UaTyped /\ PhoneTyped /\ list # <<>>
        /\ ringing # Off /\ age[Last(list)] >= ringing
    BY <2>2 DEF RingInv, PhoneInv, OnlyCrossingLeavesBusy, LastAged, Off
  <2>4. ringing \in Nat /\ age[Last(list)] \in Nat
    BY <2>3, ListLength DEF PhoneTyped
  <2>. QED BY <2>2, <2>3, <2>4 DEF RingsLongEnough
<1>. QED BY <1>1, <1>2, <1>3, PTL DEF Spec, OnlyCrossingEndsOther

-----------------------------------------------------------------------------
(***************************************************************************)
(* The event loop.                                                         *)
(***************************************************************************)
Entry == [tmr : Timers \union {NetTimer}, left : Int]

\* in the order they expire in, and none of them earlier than low
Sorted(l, low) ==
  /\ l \in Seq(Entry)
  /\ \A i, j \in 1..Len(l) : i < j => l[i].left <= l[j].left
  /\ \A i \in 1..Len(l) : low <= l[i].left

Holds(l, t) == \E i \in 1..Len(l) : l[i].tmr = t

LoopInv ==
  /\ Sorted(tmrl, -PollMax)
  /\ Holds(tmrl, NetTimer)
  /\ sip = "poll" => sleep \in 0..PollMax /\ Sorted(tmrl, sleep - PollMax)

LEMMA SortedLefts ==
  ASSUME NEW low, NEW l, Sorted(l, low)
  PROVE  /\ Len(l) \in Nat /\ l \in Seq(Entry)
         /\ \A i \in 1..Len(l) : l[i] \in Entry /\ l[i].left \in Int
<1>1. l \in Seq(Entry)
  BY DEF Sorted
<1>2. \A i \in 1..Len(l) : l[i] \in Entry
  BY <1>1, ElementOfSeq
<1>. QED BY <1>1, <1>2, LenProperties DEF Entry

LEMMA UnlinkedSorted ==
  ASSUME NEW low \in Int, NEW l, Sorted(l, low), NEW t
  PROVE  /\ Sorted(Unlinked(l, t), low)
         /\ \A u : u # t /\ Holds(l, u) => Holds(Unlinked(l, t), u)
<1>. DEFINE n == Len(l)
            I == {i \in 1..n : l[i].tmr = t}
            k == Min(I)
            r == RemoveAt(l, k)
<1>1. n \in Nat /\ l \in Seq(Entry)
  BY LenProperties DEF Sorted
<1>2. CASE I = {}
  <2>1. Unlinked(l, t) = l
    BY <1>2 DEF Unlinked, RemoveFirstMatch
  <2>. QED BY <2>1
<1>3. CASE I # {}
  <2>1. k \in I
    BY <1>1, <1>3, FirstPosition
  <2>2. Unlinked(l, t) = r
    BY <1>3 DEF Unlinked, RemoveFirstMatch, SelectInSeq
  <2>3. k \in 1..n /\ l[k].tmr = t
    BY <2>1
  <2>. HIDE DEF k, I
  <2>4. /\ r \in Seq(Entry) /\ Len(r) = n - 1
        /\ \A i \in 1..(n - 1) : r[i] = IF i < k THEN l[i] ELSE l[i + 1]
    BY <1>1, <2>3, RemovedAt
  <2>. HIDE DEF r, n
  <2>5. ASSUME NEW i \in 1..(n - 1)
        PROVE  /\ i \in 1..n /\ i + 1 \in 1..n
               /\ (i < k /\ r[i] = l[i]) \/ (i >= k /\ r[i] = l[i + 1])
    BY <1>1, <2>3, <2>4
  <2>6. ASSUME NEW i \in 1..(n - 1), NEW j \in 1..(n - 1), i < j
        PROVE  r[i].left <= r[j].left
    <3>1. \A a, b \in 1..n : a < b => l[a].left <= l[b].left
      BY DEF Sorted, n
    <3>2. CASE r[i] = l[i] /\ r[j] = l[j]
      BY <2>5, <2>6, <3>1, <3>2
    <3>3. CASE r[i] = l[i] /\ r[j] = l[j + 1]
      <4>1. i < j + 1
        BY <1>1, <2>6
      <4>. QED BY <2>5, <3>1, <3>3, <4>1
    <3>4. CASE i >= k /\ r[i] = l[i + 1]
      <4>1. ~(j < k) /\ r[j] = l[j + 1] /\ i + 1 < j + 1
        BY <1>1, <2>3, <2>5, <2>6, <3>4
      <4>. QED BY <2>5, <3>1, <3>4, <4>1
    <3>. QED BY <2>5, <3>2, <3>3, <3>4
  <2>7. ASSUME NEW i \in 1..(n - 1) PROVE low <= r[i].left
    BY <1>1, <2>3, <2>5 DEF Sorted, n
  <2>8. ASSUME NEW u, u # t, NEW j \in 1..n, l[j].tmr = u PROVE Holds(r, u)
    <3>1. CASE j < k
      <4>1. j \in 1..(n - 1)
        BY <1>1, <2>3, <3>1
      <4>2. r[j] = l[j]
        BY <2>4, <3>1, <4>1
      <4>. QED BY <2>4, <2>8, <4>1, <4>2 DEF Holds
    <3>2. CASE j > k
      <4>1. j - 1 \in 1..(n - 1) /\ ~(j - 1 < k) /\ j - 1 + 1 = j
        BY <1>1, <2>3, <3>2
      <4>2. r[j - 1] = l[j]
        BY <2>4, <4>1
      <4>. QED BY <2>4, <2>8, <4>1, <4>2 DEF Holds
    <3>3. j < k \/ j > k
      <4>1. j # k
        BY <2>3, <2>8
      <4>. QED BY <1>1, <2>3, <4>1
    <3>. QED BY <3>1, <3>2, <3>3
  <2>. QED BY <2>2, <2>4, <2>6, <2>7, <2>8 DEF Sorted, Holds, n
<1>. QED BY <1>2, <1>3

\* an entry that is put where it belongs
LEMMA InsertedSorted ==
  ASSUME NEW low \in Int, NEW l, Sorted(l, low), NEW e \in Entry, low <= e.left,
         NEW k \in 1..(Len(l) + 1),
         \A i \in 1..Len(l) : i < k => l[i].left <= e.left,
         \A i \in 1..Len(l) : i >= k => e.left <= l[i].left
  PROVE  /\ Sorted(InsertAt(l, k, e), low)
         /\ Holds(InsertAt(l, k, e), e.tmr)
         /\ \A u : Holds(l, u) => Holds(InsertAt(l, k, e), u)
<1>. DEFINE n == Len(l)
            r == InsertAt(l, k, e)
<1>1. n \in Nat /\ l \in Seq(Entry)
  BY LenProperties DEF Sorted
<1>2. /\ r \in Seq(Entry) /\ Len(r) = n + 1
      /\ \A i \in 1..(n + 1) : r[i] = IF i < k THEN l[i] ELSE IF i = k THEN e ELSE l[i - 1]
  BY <1>1, InsertedAt
<1>3. /\ \A i \in 1..n : i < k => l[i].left <= e.left
      /\ \A i \in 1..n : i >= k => e.left <= l[i].left
      /\ \A i, j \in 1..n : i < j => l[i].left <= l[j].left
      /\ \A i \in 1..n : low <= l[i].left /\ l[i].left \in Int
      /\ e.left \in Int /\ k \in 1..(n + 1)
  <2>1. e.left \in Int
    BY DEF Entry
  <2>2. /\ \A i, j \in 1..n : i < j => l[i].left <= l[j].left
        /\ \A i \in 1..n : low <= l[i].left
    BY DEF Sorted
  <2>. QED BY <2>1, <2>2, SortedLefts
<1>. HIDE DEF r, n
<1>4. ASSUME NEW i \in 1..(n + 1)
      PROVE  \/ i < k /\ i \in 1..n /\ r[i] = l[i]
             \/ i = k /\ r[i] = e
             \/ i > k /\ i - 1 \in 1..n /\ i - 1 >= k /\ r[i] = l[i - 1]
  <2>1. CASE i < k
    BY <1>1, <1>2, <1>3, <2>1
  <2>2. CASE i = k
    BY <1>1, <1>2, <1>3, <2>2
  <2>3. CASE i > k
    <3>1. i - 1 \in 1..n /\ i - 1 >= k /\ ~(i < k) /\ i # k
      BY <1>1, <1>3, <2>3
    <3>. QED BY <1>2, <2>3, <3>1
  <2>4. i < k \/ i = k \/ i > k
    BY <1>3
  <2>. QED BY <2>1, <2>2, <2>3, <2>4
<1>5. ASSUME NEW i \in 1..(n + 1), NEW j \in 1..(n + 1), i < j
      PROVE  r[i].left <= r[j].left
  <2>1. CASE i < k /\ i \in 1..n /\ r[i] = l[i]
    BY <1>1, <1>3, <1>4, <1>5, <2>1
  <2>2. CASE i = k /\ r[i] = e
    BY <1>1, <1>3, <1>4, <1>5, <2>2
  <2>3. CASE i > k /\ i - 1 \in 1..n /\ i - 1 >= k /\ r[i] = l[i - 1]
    <3>1. j > k /\ j - 1 \in 1..n /\ r[j] = l[j - 1] /\ i - 1 < j - 1
      BY <1>1, <1>3, <1>4, <1>5, <2>3
    <3>. QED BY <1>3, <2>3, <3>1
  <2>. QED BY <1>4, <2>1, <2>2, <2>3
<1>6. ASSUME NEW i \in 1..(n + 1) PROVE low <= r[i].left
  BY <1>3, <1>4
<1>7. ASSUME NEW u, NEW j \in 1..n, l[j].tmr = u PROVE Holds(r, u)
  <2>1. CASE j < k
    <3>1. j \in 1..(n + 1)
      BY <1>1
    <3>2. r[j] = l[j]
      BY <1>2, <2>1, <3>1
    <3>. QED BY <1>2, <1>7, <3>1, <3>2 DEF Holds
  <2>2. CASE j >= k
    <3>1. j + 1 \in 1..(n + 1) /\ ~(j + 1 < k) /\ j + 1 # k /\ j + 1 - 1 = j
      BY <1>1, <1>3, <2>2
    <3>2. r[j + 1] = l[j]
      BY <1>2, <3>1
    <3>. QED BY <1>2, <1>7, <3>1, <3>2 DEF Holds
  <2>. QED BY <1>3, <2>1, <2>2
<1>8. Holds(r, e.tmr)
  <2>1. k \in 1..(n + 1) /\ ~(k < k)
    BY <1>3
  <2>2. r[k] = e
    BY <1>2, <2>1
  <2>. QED BY <1>2, <2>1, <2>2 DEF Holds
<1>. QED BY <1>2, <1>5, <1>6, <1>7, <1>8 DEF Sorted, Holds, n, r

\* tmr_start: both searches find that place
LEMMA LinkedSorted ==
  ASSUME NEW low \in Int, NEW l, Sorted(l, low), NEW e \in Entry, low <= e.left, NEW delay
  PROVE  /\ Sorted(Linked(l, e, delay), low)
         /\ Holds(Linked(l, e, delay), e.tmr)
         /\ \A u : Holds(l, u) => Holds(Linked(l, e, delay), u)
<1>. DEFINE n == Len(l)
            I == {i \in 1..n : l[i].left > e.left}
            J == {i \in 1..n : l[i].left <= e.left}
            k == IF delay = 0 THEN IF I = {} THEN n + 1 ELSE Min(I)
                              ELSE IF J = {} THEN 1 ELSE Max(J) + 1
<1>1. /\ n \in Nat /\ l \in Seq(Entry) /\ e.left \in Int
      /\ \A i \in 1..n : l[i].left \in Int
      /\ \A i, j \in 1..n : i < j => l[i].left <= l[j].left
  <2>1. e.left \in Int
    BY DEF Entry
  <2>2. \A i, j \in 1..n : i < j => l[i].left <= l[j].left
    BY DEF Sorted
  <2>. QED BY <2>1, <2>2, SortedLefts
<1>2. I # {} => Min(I) \in I /\ \A i \in I : Min(I) <= i
  BY <1>1, FirstPosition
<1>3. J # {} => Max(J) \in J /\ \A i \in J : Max(J) >= i
  BY <1>1, LastPosition
<1>4. Append(l, e) = InsertAt(l, n + 1, e)
  <2>1. n + 1 \in 1..(Len(l) + 1)
    BY <1>1
  <2>2. /\ InsertAt(l, n + 1, e) \in Seq(Entry) /\ Len(InsertAt(l, n + 1, e)) = n + 1
        /\ \A i \in 1..(n + 1) : InsertAt(l, n + 1, e)[i] =
              IF i < n + 1 THEN l[i] ELSE IF i = n + 1 THEN e ELSE l[i - 1]
    BY <1>1, <2>1, InsertedAt
  <2>3. /\ Append(l, e) \in Seq(Entry) /\ Len(Append(l, e)) = n + 1
        /\ \A i \in 1..n : Append(l, e)[i] = l[i]
        /\ Append(l, e)[n + 1] = e
    BY <1>1, AppendProperties
  <2>4. ASSUME NEW i \in 1..(n + 1) PROVE Append(l, e)[i] = InsertAt(l, n + 1, e)[i]
    <3>1. CASE i = n + 1
      BY <1>1, <2>2, <2>3, <3>1
    <3>2. CASE i # n + 1
      <4>1. i \in 1..n /\ i < n + 1
        BY <1>1, <3>2
      <4>. QED BY <2>2, <2>3, <4>1
    <3>. QED BY <3>1, <3>2
  <2>. QED BY <2>2, <2>3, <2>4, SeqEqual
<1>5. Linked(l, e, delay) = InsertAt(l, k, e)
  <2>1. CASE delay = 0 /\ I = {}
    BY <1>4, <2>1 DEF Linked, SelectInSeq
  <2>2. CASE delay = 0 /\ I # {}
    <3>1. Min(I) # 0
      BY <1>2, <2>2
    <3>. QED BY <2>2, <3>1 DEF Linked, SelectInSeq
  <2>3. CASE delay # 0
    BY <2>3 DEF Linked, SelectLastInSeq
  <2>. QED BY <2>1, <2>2, <2>3
<1>6. /\ k \in 1..(n + 1)
      /\ \A i \in 1..n : i < k => l[i].left <= e.left
      /\ \A i \in 1..n : i >= k => e.left <= l[i].left
  <2>1. CASE delay = 0 /\ I = {}
    <3>1. k = n + 1
      BY <2>1
    <3>2. \A i \in 1..n : ~(l[i].left > e.left) /\ i < n + 1
      BY <1>1, <2>1
    <3>. HIDE DEF k, n, I, J
    <3>. QED BY <1>1, <3>1, <3>2
  <2>2. CASE delay = 0 /\ I # {}
    <3>1. k = Min(I)
      BY <2>2
    <3>2. k \in 1..n /\ l[k].left > e.left /\ \A i \in 1..n : l[i].left > e.left => k <= i
      BY <1>2, <2>2, <3>1
    <3>. HIDE DEF k, n, I, J
    <3>3. ASSUME NEW i \in 1..n, i < k PROVE l[i].left <= e.left
      <4>1. ~(l[i].left > e.left)
        BY <3>2, <3>3
      <4>. QED BY <1>1, <4>1
    <3>4. ASSUME NEW i \in 1..n, i >= k PROVE e.left <= l[i].left
      <4>1. l[k].left <= l[i].left
        BY <1>1, <3>2, <3>4
      <4>. QED BY <1>1, <3>2, <4>1
    <3>. QED BY <1>1, <3>2, <3>3, <3>4
  <2>3. CASE delay # 0 /\ J = {}
    <3>1. k = 1
      BY <2>3
    <3>2. \A i \in 1..n : ~(l[i].left <= e.left) /\ ~(i < 1)
      BY <2>3
    <3>. HIDE DEF k, n, I, J
    <3>. QED BY <1>1, <3>1, <3>2
  <2>4. CASE delay # 0 /\ J # {}
    <3>1. k = Max(J) + 1
      BY <2>4
    <3>2. /\ Max(J) \in 1..n /\ l[Max(J)].left <= e.left
          /\ \A i \in 1..n : l[i].left <= e.left => Max(J) >= i
      BY <1>3, <2>4
    <3>. HIDE DEF k, n, I, J
    <3>3. ASSUME NEW i \in 1..n, i < k PROVE l[i].left <= e.left
      <4>1. i = Max(J) \/ i < Max(J)
        BY <3>1, <3>2, <3>3
      <4>2. i < Max(J) => l[i].left <= l[Max(J)].left
        BY <1>1, <3>2
      <4>. QED BY <1>1, <3>2, <4>1, <4>2
    <3>4. ASSUME NEW i \in 1..n, i >= k PROVE e.left <= l[i].left
      <4>1. ~(Max(J) >= i)
        BY <3>1, <3>2, <3>4
      <4>2. ~(l[i].left <= e.left)
        BY <3>2, <4>1
      <4>. QED BY <1>1, <4>2
    <3>5. k \in 1..(n + 1)
      BY <1>1, <3>1, <3>2
    <3>. QED BY <3>3, <3>4, <3>5
  <2>. QED BY <2>1, <2>2, <2>3, <2>4
<1>. HIDE DEF k
<1>. QED BY <1>5, <1>6, InsertedSorted

LEMMA StartedSorted ==
  ASSUME NEW low \in Int, NEW l, Sorted(l, low), NEW t \in Timers \union {NetTimer},
         NEW delay \in Nat, low <= delay
  PROVE  /\ Sorted(Started(l, t, delay), low)
         /\ Holds(Started(l, t, delay), t)
         /\ \A u : u # t /\ Holds(l, u) => Holds(Started(l, t, delay), u)
<1>. DEFINE e == [tmr |-> t, left |-> delay]
<1>1. e \in Entry /\ e.left = delay /\ e.tmr = t
  BY DEF Entry
<1>2. Started(l, t, delay) = Linked(Unlinked(l, t), e, delay)
  BY DEF Started
<1>. HIDE DEF e
<1>. QED BY <1>1, <1>2, UnlinkedSorted, LinkedSorted

\* whatever a handler or another thread does to the list
LEMMA TouchedSorted ==
  ASSUME NEW low \in Int, low <= 0, NEW l, Sorted(l, low), Holds(l, NetTimer),
         NEW D \in SUBSET Nat, NEW m \in Touched(l, D)
  PROVE  Sorted(m, low) /\ Holds(m, NetTimer)
<1>1. CASE m = l
  BY <1>1
<1>2. ASSUME NEW t \in Timers, m = Unlinked(l, t) PROVE Sorted(m, low) /\ Holds(m, NetTimer)
  BY <1>2, LoopAssumption, UnlinkedSorted
<1>3. ASSUME NEW t \in Timers, NEW d \in D, m = Started(l, t, d)
      PROVE  Sorted(m, low) /\ Holds(m, NetTimer)
  <2>1. d \in Nat /\ low <= d /\ t # NetTimer
    BY LoopAssumption
  <2>. QED BY <1>3, <2>1, StartedSorted
<1>. QED BY <1>1, <1>2, <1>3 DEF Touched

\* a list without its first entry
LEMMA TailSorted ==
  ASSUME NEW low \in Int, NEW l, Sorted(l, low), l # <<>>
  PROVE  /\ Sorted(Tail(l), low)
         /\ \A u : u # Head(l).tmr /\ Holds(l, u) => Holds(Tail(l), u)
<1>1. l \in Seq(Entry) /\ Len(l) \in Nat /\ Len(l) # 0 /\ Head(l) = l[1]
  BY LenProperties, EmptySeq DEF Sorted
<1>2. /\ Tail(l) \in Seq(Entry) /\ Len(Tail(l)) = Len(l) - 1
      /\ \A i \in 1..(Len(l) - 1) : Tail(l)[i] = l[i + 1]
  BY <1>1, HeadTailProperties
<1>3. ASSUME NEW i \in 1..(Len(l) - 1) PROVE i + 1 \in 1..Len(l)
  BY <1>1
<1>4. Sorted(Tail(l), low)
  BY <1>1, <1>2, <1>3 DEF Sorted
<1>5. ASSUME NEW u, u # Head(l).tmr, NEW j \in 1..Len(l), l[j].tmr = u
      PROVE  Holds(Tail(l), u)
  <2>1. j # 1
    BY <1>1, <1>5
  <2>2. j - 1 \in 1..(Len(l) - 1) /\ j - 1 + 1 = j
    BY <1>1, <2>1
  <2>. QED BY <1>2, <1>5, <2>2 DEF Holds
<1>. QED BY <1>4, <1>5 DEF Holds

-----------------------------------------------------------------------------
(***************************************************************************)
(* The loop's steps.                                                       *)
(***************************************************************************)
LEMMA LoopConstants ==
  /\ PollMax \in Nat \ {0} /\ NetInterval \in Nat \ {0} /\ NetTimer \notin Timers
  /\ Delays \in SUBSET Nat /\ Delays \ {0} \in SUBSET Nat /\ -PollMax \in Int
  BY LoopAssumption

LEMMA LoopStarts == LoopInit => LoopInv
<1>. SUFFICES ASSUME LoopInit PROVE LoopInv
  OBVIOUS
<1>. DEFINE e == [tmr |-> NetTimer, left |-> NetInterval]
<1>1. e \in Entry /\ e.left = NetInterval /\ e.tmr = NetTimer
  BY LoopConstants DEF Entry
<1>2. tmrl = <<e>> /\ sip = "run"
  BY DEF LoopInit
<1>. HIDE DEF e
<1>3. tmrl \in Seq(Entry) /\ Len(tmrl) = 1 /\ tmrl[1] = e
  BY <1>1, <1>2
<1>4. \A i \in 1..Len(tmrl) : i = 1
  BY <1>3
<1>5. Sorted(tmrl, -PollMax)
  BY <1>1, <1>3, <1>4, LoopConstants DEF Sorted
<1>6. Holds(tmrl, NetTimer)
  BY <1>1, <1>3 DEF Holds
<1>. QED BY <1>2, <1>5, <1>6 DEF LoopInv

\* a smaller bound is a bound
LEMMA Lower ==
  ASSUME NEW low \in Int, NEW l, Sorted(l, low), NEW m \in Int, m <= low
  PROVE  Sorted(l, m)
<1>1. \A i \in 1..Len(l) : l[i].left \in Int /\ low <= l[i].left
  BY SortedLefts DEF Sorted
<1>2. \A i \in 1..Len(l) : m <= l[i].left
  BY <1>1
<1>. QED BY <1>2 DEF Sorted

\* a list without a due timer is bounded by its head
LEMMA HeadFirst ==
  ASSUME NEW low, NEW l, Sorted(l, low), l # <<>>
  PROVE  Head(l).left \in Int /\ Sorted(l, Head(l).left)
<1>1. Len(l) \in Nat /\ Len(l) # 0 /\ l \in Seq(Entry) /\ Head(l) = l[1]
  BY SortedLefts, EmptySeq
<1>2. \A i \in 1..Len(l) : l[1].left <= l[i].left
  <2>. SUFFICES ASSUME NEW i \in 1..Len(l) PROVE l[1].left <= l[i].left
    OBVIOUS
  <2>1. CASE i = 1
    BY <1>1, <2>1, SortedLefts
  <2>2. CASE i # 1
    <3>1. 1 \in 1..Len(l) /\ 1 < i
      BY <1>1, <2>2
    <3>. QED BY <3>1 DEF Sorted
  <2>. QED BY <2>1, <2>2
<1>3. l[1].left \in Int
  BY <1>1, SortedLefts
<1>. QED BY <1>1, <1>2, <1>3 DEF Sorted

LEMMA NotEmpty ==
  ASSUME NEW l, NEW t, Holds(l, t)
  PROVE  l # <<>>
  BY DEF Holds

LEMMA RoundStep == LoopInv /\ NextRound => LoopInv'
<1>. SUFFICES ASSUME LoopInv, NextRound PROVE LoopInv'
  OBVIOUS
<1>1. /\ Sorted(tmrl, -PollMax) /\ Holds(tmrl, NetTimer) /\ tmrl # <<>>
      /\ tmrl' = tmrl
  BY NotEmpty DEF LoopInv, NextRound
<1>2. Head(tmrl).left \in Int /\ Sorted(tmrl, Head(tmrl).left)
  BY <1>1, HeadFirst
<1>3. CASE ~polling
  <2>1. sip' = "ended"
    BY <1>3 DEF NextRound
  <2>. QED BY <1>1, <2>1 DEF LoopInv, Sorted, Holds
<1>4. CASE polling
  <2>. DEFINE h == Head(tmrl).left
  <2>1. sleep' = IF h <= 0 THEN 0 ELSE Min({h, PollMax})
    BY <1>1, <1>4 DEF NextRound, Due
  <2>2. h > 0 => Min({h, PollMax}) \in {h, PollMax} /\ Min({h, PollMax}) <= h
                 /\ Min({h, PollMax}) <= PollMax
    BY <1>2, LoopConstants DEF Min
  <2>3. sleep' \in 0..PollMax /\ Sorted(tmrl, sleep' - PollMax)
    <3>1. CASE h <= 0
      BY <1>1, <2>1, <3>1, LoopConstants
    <3>2. CASE h > 0
      <4>1. sleep' \in 0..PollMax /\ sleep' - PollMax <= h
        BY <1>2, <2>1, <2>2, <3>2, LoopConstants
      <4>2. sleep' - PollMax \in Int
        BY <4>1, LoopConstants
      <4>. HIDE DEF h
      <4>3. h \in Int /\ Sorted(tmrl, h)
        BY <1>2 DEF h
      <4>. QED BY <4>1, <4>2, <4>3, Lower
    <3>. QED BY <1>2, <3>1, <3>2
  <2>. QED BY <1>1, <2>3 DEF LoopInv, Sorted, Holds
<1>. QED BY <1>3, <1>4

LEMMA TickStep == LoopInv /\ LoopTick => LoopInv'
<1>. SUFFICES ASSUME LoopInv, LoopTick PROVE LoopInv'
  OBVIOUS
<1>1. /\ sip = "poll" /\ sip' = "poll" /\ sleep # 0
      /\ sleep \in 0..PollMax /\ Sorted(tmrl, sleep - PollMax) /\ Holds(tmrl, NetTimer)
  BY DEF LoopInv, LoopTick
<1>2. sleep' = sleep - 1 /\ sleep' \in 0..PollMax
  BY <1>1, LoopConstants DEF LoopTick
<1>. DEFINE n == Len(tmrl)
<1>3. n \in Nat /\ DOMAIN tmrl = 1..n /\ \A i \in 1..n : tmrl[i] \in Entry
  BY <1>1, SortedLefts, LenProperties
<1>4. tmrl' = [i \in 1..n |-> [tmrl[i] EXCEPT !.left = @ - 1]]
  BY <1>3 DEF LoopTick
<1>5. ASSUME NEW i \in 1..n
      PROVE  /\ tmrl'[i] \in Entry /\ tmrl'[i].left = tmrl[i].left - 1
             /\ tmrl'[i].tmr = tmrl[i].tmr /\ tmrl[i].left \in Int
  <2>1. tmrl[i] \in Entry
    BY <1>3
  <2>2. tmrl'[i] = [tmrl[i] EXCEPT !.left = @ - 1]
    BY <1>4
  <2>. QED BY <2>1, <2>2 DEF Entry
<1>6. tmrl' \in Seq(Entry) /\ Len(tmrl') = n
  <2>1. tmrl' \in [1..n -> Entry]
    BY <1>4, <1>5
  <2>. QED BY <1>3, <2>1, SeqDef, LenProperties
<1>7. \A i, j \in 1..n : i < j => tmrl[i].left <= tmrl[j].left
  BY <1>1 DEF Sorted
<1>8. \A i \in 1..n : sleep - PollMax <= tmrl[i].left
  BY <1>1 DEF Sorted
<1>. HIDE DEF n
<1>9. \A i, j \in 1..n : i < j => tmrl'[i].left <= tmrl'[j].left
  BY <1>5, <1>7
<1>10. \A i \in 1..n : sleep' - PollMax <= tmrl'[i].left
  BY <1>1, <1>2, <1>5, <1>8, LoopConstants
<1>11. Sorted(tmrl', sleep' - PollMax)
  BY <1>6, <1>9, <1>10 DEF Sorted
<1>12. sleep' - PollMax \in Int /\ -PollMax <= sleep' - PollMax
  BY <1>2, LoopConstants
<1>13. Sorted(tmrl', -PollMax)
  BY <1>11, <1>12, Lower, LoopConstants
<1>14. Holds(tmrl', NetTimer)
  BY <1>1, <1>5, <1>6 DEF Holds, n
<1>. QED BY <1>1, <1>2, <1>11, <1>13, <1>14 DEF LoopInv, Sorted, Holds

LEMMA PollStep == LoopInv /\ TmrPoll => LoopInv'
<1>. SUFFICES ASSUME LoopInv, TmrPoll PROVE LoopInv'
  OBVIOUS
<1>1. /\ Sorted(tmrl, -PollMax) /\ Holds(tmrl, NetTimer) /\ tmrl # <<>>
      /\ sip = "timers"
  BY NotEmpty DEF LoopInv, TmrPoll
<1>2. CASE Due(tmrl)
  <2>. DEFINE t == Head(tmrl).tmr
              rest == IF t = NetTimer THEN Started(Tail(tmrl), t, NetInterval) ELSE Tail(tmrl)
  <2>1. tmrl' \in Touched(rest, Delays \ {0}) /\ sip' = "timers"
    BY <1>1, <1>2 DEF TmrPoll
  <2>2. /\ Sorted(Tail(tmrl), -PollMax)
        /\ \A u : u # t /\ Holds(tmrl, u) => Holds(Tail(tmrl), u)
    BY <1>1, LoopConstants, TailSorted
  <2>3. Sorted(rest, -PollMax) /\ Holds(rest, NetTimer)
    <3>1. CASE t = NetTimer
      <4>1. /\ NetTimer \in Timers \union {NetTimer} /\ NetInterval \in Nat
            /\ -PollMax <= NetInterval
        BY LoopConstants
      <4>2. /\ Sorted(Started(Tail(tmrl), NetTimer, NetInterval), -PollMax)
            /\ Holds(Started(Tail(tmrl), NetTimer, NetInterval), NetTimer)
        BY <2>2, <4>1, LoopConstants, StartedSorted
      <4>. QED BY <3>1, <4>2
    <3>2. CASE t # NetTimer
      BY <1>1, <2>2, <3>2
    <3>. QED BY <3>1, <3>2
  <2>. HIDE DEF rest, t
  <2>4. Sorted(tmrl', -PollMax) /\ Holds(tmrl', NetTimer)
    BY <2>1, <2>3, LoopConstants, TouchedSorted
  <2>. QED BY <2>1, <2>4 DEF LoopInv, Sorted, Holds
<1>3. CASE ~Due(tmrl)
  <2>1. tmrl' = tmrl /\ sip' = "loop"
    BY <1>3 DEF TmrPoll
  <2>. QED BY <1>1, <2>1 DEF LoopInv, Sorted, Holds
<1>. QED BY <1>2, <1>3

\* a handler, or a call of the GUI thread, which may come while the loop sleeps
LEMMA TouchStep ==
  ASSUME LoopInv, tmrl' \in Touched(tmrl, Delays),
         sip' # "poll" \/ (sip = "poll" /\ sleep' = sleep)
  PROVE  LoopInv'
<1>1. Sorted(tmrl', -PollMax) /\ Holds(tmrl', NetTimer)
  BY LoopConstants, TouchedSorted DEF LoopInv
<1>2. sip' = "poll" => sleep' \in 0..PollMax /\ Sorted(tmrl', sleep' - PollMax)
  <2>. SUFFICES ASSUME sip' = "poll" PROVE sleep' \in 0..PollMax /\ Sorted(tmrl', sleep' - PollMax)
    OBVIOUS
  <2>1. /\ sleep' = sleep /\ sleep \in 0..PollMax /\ Sorted(tmrl, sleep - PollMax)
        /\ Holds(tmrl, NetTimer)
    BY DEF LoopInv
  <2>2. sleep - PollMax \in Int /\ sleep - PollMax <= 0
    BY <2>1, LoopConstants
  <2>3. Sorted(tmrl', sleep - PollMax)
    BY <2>1, <2>2, LoopConstants, TouchedSorted
  <2>. QED BY <2>1, <2>3
<1>. QED BY <1>1, <1>2 DEF LoopInv, Sorted, Holds

LEMMA LoopStep == LoopInv /\ [LoopNext]_loopVars => LoopInv'
<1>. SUFFICES ASSUME LoopInv, [LoopNext]_loopVars PROVE LoopInv'
  OBVIOUS
<1>1. ASSUME tmrl' = tmrl, sip' # "poll" \/ (sip = "poll" /\ sleep' = sleep) PROVE LoopInv'
  BY <1>1 DEF LoopInv, Sorted, Holds
<1>2. CASE CheckInterruption
  BY <1>1, <1>2 DEF CheckInterruption
<1>3. CASE EnterMain
  BY <1>1, <1>3 DEF EnterMain
<1>4. CASE NextRound
  BY <1>4, RoundStep
<1>5. CASE PollReturns
  BY <1>1, <1>5 DEF PollReturns
<1>6. CASE PollInterrupted
  BY <1>1, <1>6 DEF PollInterrupted
<1>7. CASE FdHandler
  BY <1>7, TouchStep DEF FdHandler
<1>8. CASE TmrPoll
  BY <1>8, PollStep
<1>9. CASE GuiCall
  BY <1>9, TouchStep DEF GuiCall
<1>10. CASE CloseInterrupt
  BY <1>1, <1>10 DEF CloseInterrupt
<1>11. CASE ReCancel
  BY <1>1, <1>11 DEF ReCancel
<1>12. CASE ThreadEnded
  BY <1>1, <1>12 DEF ThreadEnded
<1>13. CASE LoopTick
  BY <1>13, TickStep
<1>14. CASE UNCHANGED loopVars
  BY <1>1, <1>14 DEF loopVars
<1>. QED BY <1>2, <1>3, <1>4, <1>5, <1>6, <1>7, <1>8, <1>9, <1>10, <1>11, <1>12, <1>13, <1>14
         DEF LoopNext, SipThread, GuiThread

\* No timer of the stack is called more than PollMax late (re_main and tmr_poll): the list
\* stays sorted whatever is started in it, the network's timer never leaves it, so that poll
\* always has a timeout, and this is at most PollMax.
THEOREM TimersAreInTime == LoopSpec => []TimersPrompt
<1>1. LoopInv => TimersPrompt
  <2>. SUFFICES ASSUME LoopInv, NEW i \in DOMAIN tmrl PROVE tmrl[i].left >= -PollMax
    BY DEF TimersPrompt
  <2>1. Sorted(tmrl, -PollMax) /\ DOMAIN tmrl = 1..Len(tmrl)
    BY SortedLefts, LenProperties DEF LoopInv
  <2>2. -PollMax <= tmrl[i].left /\ tmrl[i].left \in Int
    BY <2>1, SortedLefts DEF Sorted
  <2>. QED BY <2>2, LoopConstants
<1>. QED BY <1>1, LoopStarts, LoopStep, PTL DEF LoopSpec
=============================================================================
