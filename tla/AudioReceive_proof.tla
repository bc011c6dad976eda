------------------------- MODULE AudioReceive_proof -------------------------
(***************************************************************************)
(* Proofs about the way of the peer's voice, for buffers, numbers of       *)
(* sequence numbers, packets and reads of every size: the jitter buffer    *)
(* (JbSpec), the audio buffer, and both between the network and the ear    *)
(* (Spec).                                                                 *)
(***************************************************************************)
EXTENDS AudioReceive, Integers, TLAPS, SequenceTheorems, FiniteSetTheorems,
        WellFoundedInduction

-----------------------------------------------------------------------------
(***************************************************************************)
(* Lemmas about sequences and positions in them.                           *)
(***************************************************************************)
\* what SubSeq cuts out of a sequence
LEMMA Sliced ==
  ASSUME NEW S, NEW l \in Seq(S), NEW a \in Nat \ {0}, NEW b \in Nat,
         a <= b + 1, b <= Len(l)
  PROVE  /\ SubSeq(l, a, b) \in Seq(S)
         /\ Len(SubSeq(l, a, b)) = b - a + 1
         /\ \A i \in 1..(b - a + 1) : SubSeq(l, a, b)[i] = l[a + i - 1]
<1>1. \A i \in a..b : l[i] \in S
  BY ElementOfSeq
<1>2. b - a + 1 = IF a <= b THEN b - a + 1 ELSE 0
  OBVIOUS
<1>. QED BY <1>1, <1>2, SubSeqProperties

\* what InsertAt makes: the elements from position k on move down
LEMMA InsertedAt ==
  ASSUME NEW S, NEW l \in Seq(S), NEW k \in 1..(Len(l) + 1), NEW e \in S
  PROVE  /\ InsertAt(l, k, e) \in Seq(S)
         /\ Len(InsertAt(l, k, e)) = Len(l) + 1
         /\ \A i \in 1..(Len(l) + 1) :
              InsertAt(l, k, e)[i] = IF i < k THEN l[i] ELSE IF i = k THEN e ELSE l[i - 1]
<1>. DEFINE f == SubSeq(l, 1, k - 1)
            g == SubSeq(l, k, Len(l))
            h == f \o <<e>>
<1>1. Len(l) \in Nat
  BY LenProperties
<1>2. f \in Seq(S) /\ Len(f) = k - 1 /\ \A i \in 1..(k - 1) : f[i] = l[i]
  <2>1. 1 \in Nat \ {0} /\ k - 1 \in Nat /\ 1 <= k - 1 + 1 /\ k - 1 <= Len(l)
    BY <1>1
  <2>2. f \in Seq(S) /\ Len(f) = k - 1 - 1 + 1 /\ \A i \in 1..(k - 1 - 1 + 1) : f[i] = l[1 + i - 1]
    BY <2>1, Sliced
  <2>. HIDE DEF f
  <2>. QED BY <1>1, <2>2
<1>3. /\ g \in Seq(S) /\ Len(g) = Len(l) - k + 1
      /\ \A i \in 1..(Len(l) - k + 1) : g[i] = l[k + i - 1]
  <2>1. k \in Nat \ {0} /\ k <= Len(l) + 1
    BY <1>1
  <2>. QED BY <1>1, <2>1, Sliced
<1>4. InsertAt(l, k, e) = h \o g
  <2>1. InsertAt(l, k, e) = f \o <<e>> \o g
    BY DEF InsertAt
  <2>. QED BY <2>1
<1>. HIDE DEF f, g
<1>5. /\ h \in Seq(S) /\ Len(h) = k /\ h[k] = e
      /\ \A i \in 1..(k - 1) : h[i] = l[i]
  <2>1. h = Append(f, e)
    BY <1>2, AppendIsConcat
  <2>2. /\ Append(f, e) \in Seq(S) /\ Len(Append(f, e)) = k - 1 + 1
        /\ \A i \in 1..(k - 1) : Append(f, e)[i] = f[i]
        /\ Append(f, e)[k - 1 + 1] = e
    BY <1>2, AppendProperties
  <2>3. k - 1 + 1 = k
    BY <1>1
  <2>. HIDE DEF h
  <2>. QED BY <1>2, <2>1, <2>2, <2>3
<1>. HIDE DEF h
<1>6. /\ h \o g \in Seq(S) /\ Len(h \o g) = Len(l) + 1
      /\ \A i \in 1..(Len(l) + 1) : (h \o g)[i] = IF i <= k THEN h[i] ELSE g[i - k]
  <2>1. Len(h) + Len(g) = Len(l) + 1
    BY <1>1, <1>3, <1>5
  <2>. QED BY <1>3, <1>5, <2>1, ConcatProperties
<1>7. ASSUME NEW i \in 1..(Len(l) + 1)
      PROVE  (h \o g)[i] = IF i < k THEN l[i] ELSE IF i = k THEN e ELSE l[i - 1]
  <2>1. CASE i < k
    <3>1. i <= k /\ i \in 1..(k - 1)
      BY <1>1, <2>1
    <3>. QED BY <1>5, <1>6, <2>1, <3>1
  <2>2. CASE i = k
    BY <1>1, <1>5, <1>6, <2>2
  <2>3. CASE i > k
    <3>1. ~(i <= k) /\ i - k \in 1..(Len(l) - k + 1) /\ k + (i - k) - 1 = i - 1
      BY <1>1, <2>3
    <3>2. g[i - k] = l[i - 1]
      BY <1>3, <3>1
    <3>3. (h \o g)[i] = g[i - k] /\ ~(i < k) /\ i # k
      BY <1>1, <1>6, <2>3, <3>1
    <3>. QED BY <3>2, <3>3
  <2>4. i < k \/ i = k \/ i > k
    BY <1>1
  <2>. QED BY <2>1, <2>2, <2>3, <2>4
<1>. QED BY <1>4, <1>6, <1>7

\* a nonempty set of positions has a least one
LEMMA FirstPosition ==
  ASSUME NEW n \in Nat, NEW I, I \subseteq 0..n, I # {}
  PROVE  Min(I) \in I /\ \A y \in I : Min(I) <= y
<1>. DEFINE R == OpToRel(<, Nat)
<1>1. IsWellFoundedOn(R, Nat)
  BY NatLessThanWellFounded
<1>2. I \subseteq Nat
  OBVIOUS
<1>3. \A u, v \in Nat : <<u, v>> \in R <=> u < v
  BY DEF OpToRel
<1>. HIDE DEF R
<1>4. PICK x \in I : \A y \in I : ~(<<y, x>> \in R)
  BY <1>1, <1>2, WFMin
<1>5. ASSUME NEW y \in I PROVE x <= y
  <2>1. x \in Nat /\ y \in Nat /\ ~(<<y, x>> \in R)
    BY <1>2, <1>4
  <2>2. ~(y < x)
    BY <1>3, <2>1
  <2>. QED BY <2>1, <2>2
<1>. QED BY <1>5 DEF Min

\* and a last one
LEMMA LastPosition ==
  ASSUME NEW n \in Nat, NEW I, I \subseteq 0..n, I # {}
  PROVE  Max(I) \in I /\ \A y \in I : Max(I) >= y
<1>. DEFINE J == {j \in 0..n : n - j \in I}
<1>1. J # {}
  <2>1. PICK i \in I : TRUE
    OBVIOUS
  <2>2. n - i \in 0..n /\ n - (n - i) = i
    OBVIOUS
  <2>. QED BY <2>1, <2>2
<1>2. Min(J) \in J /\ \A j \in J : Min(J) <= j
  BY <1>1, FirstPosition
<1>. DEFINE x == n - Min(J)
<1>3. x \in I
  BY <1>2
<1>4. ASSUME NEW y \in I PROVE x >= y
  <2>1. n - y \in 0..n /\ n - (n - y) = y
    OBVIOUS
  <2>2. n - y \in J
    BY <2>1
  <2>3. Min(J) <= n - y /\ Min(J) \in 0..n
    BY <1>2, <2>2
  <2>. HIDE DEF J
  <2>. QED BY <2>3
<1>. HIDE DEF x
<1>. QED BY <1>3, <1>4 DEF Max

-----------------------------------------------------------------------------
(***************************************************************************)
(* Lemmas about sequence numbers.                                          *)
(***************************************************************************)
\* division with remainder
LEMMA DivMod ==
  ASSUME NEW n \in Nat \ {0}, NEW a \in Nat
  PROVE  /\ a % n \in 0..(n - 1) /\ a \div n \in Nat
         /\ a = n * (a \div n) + (a % n)
  OBVIOUS

\* a multiple of n is 0 or at least n away from it
LEMMA Multiple ==
  ASSUME NEW n \in Nat \ {0}, NEW k \in Int, k # 0
  PROVE  n * k >= n \/ n * k <= -n
<1>1. CASE k >= 1
  BY <1>1
<1>2. CASE k <= -1
  BY <1>2
<1>. QED BY <1>1, <1>2

\* there is only one such remainder
LEMMA ModUnique ==
  ASSUME NEW n \in Nat \ {0}, NEW a \in Nat, NEW k \in Int, NEW r \in 0..(n - 1),
         a = n * k + r
  PROVE  a % n = r
<1>. DEFINE q == a \div n
            m == a % n
<1>1. q \in Nat /\ m \in 0..(n - 1) /\ a = n * q + m
  BY DivMod
<1>. HIDE DEF q, m
<1>2. n * (q - k) = r - m
  BY <1>1
<1>3. q - k = 0
  <2>1. q - k \in Int /\ ~(r - m >= n) /\ ~(r - m <= -n)
    BY <1>1
  <2>. QED BY <1>2, <2>1, Multiple
<1>. QED BY <1>1, <1>2, <1>3 DEF m

LEMMA JbufConstants ==
  /\ SeqSpace \in Nat \ {0} /\ SeqSpace \div 2 \in Nat /\ SeqSpace = 2 * (SeqSpace \div 2)
  /\ JbMin \in Nat /\ JbMax \in Nat \ {0} /\ JbMin <= JbMax
  /\ FirstNum \in Nat \ {0} /\ FirstNum - 1 \in Nat /\ LastNum \in Nat /\ Copies \in Nat
  /\ Displaced \in Nat /\ Displaced < JbMin
  /\ Packets \subseteq Nat /\ \A p \in Packets : p >= FirstNum
<1>1. SeqSpace = 2 * (SeqSpace \div 2) + (SeqSpace % 2) /\ SeqSpace \div 2 \in Nat
  BY JbufAssumption, DivMod
<1>. QED BY <1>1, JbufAssumption, NetworkAssumption DEF Packets

LEMMA SeqNoIs ==
  ASSUME NEW p \in Nat
  PROVE  /\ SeqNo(p) \in 0..(SeqSpace - 1)
         /\ \E k \in Nat : p = SeqSpace * k + SeqNo(p)
  BY JbufConstants, DivMod DEF SeqNo

\* a number that is a few higher
LEMMA SeqNoPlus ==
  ASSUME NEW p \in Nat, NEW n \in Nat
  PROVE  (SeqNo(p) + n) % SeqSpace = SeqNo(p + n)
<1>. DEFINE m == SeqNo(p) + n
            r == m % SeqSpace
            j == m \div SeqSpace
<1>1. PICK k \in Nat : p = SeqSpace * k + SeqNo(p)
  BY SeqNoIs
<1>2. SeqNo(p) \in Nat /\ m \in Nat /\ SeqSpace \in Nat \ {0} /\ p + n \in Nat
  BY JbufConstants, SeqNoIs
<1>. HIDE DEF m
<1>3. r \in 0..(SeqSpace - 1) /\ j \in Nat /\ m = SeqSpace * j + r
  BY <1>2, DivMod
<1>. HIDE DEF r, j
<1>4. p + n = SeqSpace * (k + j) + r /\ k + j \in Int
  <2>1. SeqSpace * (k + j) = SeqSpace * k + SeqSpace * j
    BY <1>2, <1>3
  <2>. QED BY <1>1, <1>2, <1>3, <2>1 DEF m
<1>5. (p + n) % SeqSpace = r
  BY <1>2, <1>3, <1>4, ModUnique
<1>. QED BY <1>5 DEF SeqNo, r, m

\* Within half the circle sequence numbers tell which of two packets is the older one.
LEMMA SeqOrder ==
  ASSUME NEW x \in Nat, NEW y \in Nat
  PROVE  /\ x < y /\ y - x <= SeqSpace \div 2 => SeqLess(SeqNo(x), SeqNo(y))
         /\ x >= y /\ x - y < SeqSpace \div 2 => ~SeqLess(SeqNo(x), SeqNo(y))
         /\ x - y < SeqSpace /\ y - x < SeqSpace /\ SeqNo(x) = SeqNo(y) => x = y
<1>. DEFINE h == SeqSpace \div 2
            a == SeqNo(x)
            b == SeqNo(y)
            d == a + SeqSpace - b
<1>1. h \in Nat /\ SeqSpace = 2 * h /\ SeqSpace \in Nat \ {0}
  BY JbufConstants
<1>2. PICK k \in Nat : x = SeqSpace * k + a
  BY SeqNoIs
<1>3. PICK j \in Nat : y = SeqSpace * j + b
  BY SeqNoIs
<1>4. a \in 0..(SeqSpace - 1) /\ b \in 0..(SeqSpace - 1)
  BY SeqNoIs
<1>. HIDE DEF h, a, b
<1>5. d \in Nat
  BY <1>1, <1>4
<1>6. SeqSpace * (k - j) = SeqSpace * k - SeqSpace * j /\ k - j \in Int
  BY <1>1
<1>7. d = (x - y) + SeqSpace - SeqSpace * (k - j)
  BY <1>1, <1>2, <1>3, <1>4, <1>6
<1>8. ASSUME x < y, y - x <= h PROVE d % SeqSpace >= h
  <2>1. /\ x - y + SeqSpace \in 0..(SeqSpace - 1) /\ x - y + SeqSpace >= h
    BY <1>1, <1>8
  <2>2. d = SeqSpace * (j - k) + (x - y + SeqSpace) /\ j - k \in Int
    BY <1>1, <1>6, <1>7
  <2>. HIDE DEF d
  <2>3. d % SeqSpace = x - y + SeqSpace
    BY <1>1, <1>5, <2>1, <2>2, ModUnique
  <2>. QED BY <2>1, <2>3
<1>9. ASSUME x >= y, x - y < h PROVE ~(d % SeqSpace >= h)
  <2>1. x - y \in 0..(SeqSpace - 1)
    BY <1>1, <1>9
  <2>2. d = SeqSpace * (1 + j - k) + (x - y) /\ 1 + j - k \in Int
    BY <1>1, <1>6, <1>7
  <2>. HIDE DEF d
  <2>3. d % SeqSpace = x - y
    BY <1>1, <1>5, <2>1, <2>2, ModUnique
  <2>. QED BY <1>1, <1>9, <2>1, <2>3
<1>10. ASSUME x - y < SeqSpace, y - x < SeqSpace, a = b PROVE x = y
  <2>1. x - y = SeqSpace * (k - j)
    BY <1>1, <1>2, <1>3, <1>4, <1>6, <1>10
  <2>2. k - j # 0 => SeqSpace * (k - j) >= SeqSpace \/ SeqSpace * (k - j) <= -SeqSpace
    BY <1>1, <1>6, Multiple
  <2>3. k - j = 0
    BY <1>1, <1>10, <2>1, <2>2
  <2>4. SeqSpace * 0 = 0
    BY <1>1
  <2>. QED BY <2>1, <2>3, <2>4
<1>. QED BY <1>8, <1>9, <1>10 DEF SeqLess, h, a, b, d

-----------------------------------------------------------------------------
(***************************************************************************)
(* The jitter buffer.  The inductive invariant is stated of the values of  *)
(* its variables, since one step of the stream puts, takes and flushes.    *)
(***************************************************************************)
Buffer == [framel : Seq(Packets), pool : Nat, n : Nat, running : BOOLEAN,
           seqPut : 0 .. SeqSpace - 1]

Accounted(b) == b.n = Len(b.framel) /\ b.n + b.pool = JbMax

Ascending(l) == \A i, j \in 1..Len(l) : i < j => l[i] < l[j]

\* what was put last has not been left behind by the network
LastPut(b, new) ==
  b.running => \E q \in Packets : b.seqPut = SeqNo(q) /\ q <= new /\ new <= q + Displaced

\* what is buffered has arrived, and comes after what was played; and what was played has
\* been left behind by the network
Buffered(b, new, cps, pl) ==
  /\ b \in Buffer /\ Accounted(b) /\ Ascending(b.framel)
  /\ new \in Nat /\ pl \in Nat
  /\ \A i \in 1..Len(b.framel) : pl < b.framel[i] /\ b.framel[i] <= new
                                 /\ cps[b.framel[i]] > 0
  /\ pl = FirstNum - 1 \/ pl + JbMin <= new
  /\ LastPut(b, new)

\* p arrives when new was the highest number so far
InWindow(b, new, p) ==
  /\ p \in Packets /\ p + Displaced >= new
  /\ p + JbMax + Displaced < new + SeqSpace \div 2
  /\ \A i \in 1..Len(b.framel) : p + JbMax + Displaced < b.framel[i] + SeqSpace \div 2

LEMMA BufferFields ==
  ASSUME NEW b \in Buffer
  PROVE  /\ b.framel \in Seq(Packets) /\ Len(b.framel) \in Nat /\ b.pool \in Nat /\ b.n \in Nat
         /\ b.seqPut \in 0 .. SeqSpace - 1
         /\ \A i \in 1..Len(b.framel) : b.framel[i] \in Packets /\ b.framel[i] \in Nat
<1>1. b.framel \in Seq(Packets)
  BY DEF Buffer
<1>2. \A i \in 1..Len(b.framel) : b.framel[i] \in Packets
  BY <1>1, ElementOfSeq
<1>. QED BY <1>1, <1>2, LenProperties, JbufConstants DEF Buffer

\* jbuf's frames are compared in the order they were sent in
LEMMA PlaceFound ==
  ASSUME NEW l \in Seq(Packets), Ascending(l), NEW p \in Packets,
         \A i \in 1..Len(l) : p - l[i] <= SeqSpace \div 2 /\ l[i] - p < SeqSpace \div 2
  PROVE  /\ Place(l, p) \in 0..Len(l)
         /\ \A i \in 1..Len(l) : i <= Place(l, p) => l[i] <= p
         /\ \A i \in 1..Len(l) : i > Place(l, p) => l[i] > p
         /\ Duplicate(l, p) <=> Contains(l, p)
<1>. DEFINE n == Len(l)
            I == {i \in 1..n : NotYounger(l[i], p)}
            k == Place(l, p)
<1>1. /\ n \in Nat /\ DOMAIN l = 1..n /\ p \in Nat
      /\ \A i \in 1..n : l[i] \in Nat
  BY LenProperties, ElementOfSeq, JbufConstants
<1>2. ASSUME NEW i \in 1..n
      PROVE  /\ NotYounger(l[i], p) <=> l[i] <= p
             /\ SeqNo(l[i]) = SeqNo(p) <=> l[i] = p
  <2>1. /\ p - l[i] <= SeqSpace \div 2 /\ l[i] - p < SeqSpace \div 2
        /\ p - l[i] < SeqSpace /\ l[i] - p < SeqSpace /\ l[i] \in Nat
    BY <1>1, JbufConstants
  <2>2. CASE l[i] < p
    <3>1. SeqLess(SeqNo(l[i]), SeqNo(p)) /\ SeqNo(l[i]) # SeqNo(p)
      BY <1>1, <2>1, <2>2, SeqOrder
    <3>. QED BY <1>1, <2>1, <2>2, <3>1 DEF NotYounger
  <2>3. CASE l[i] = p
    BY <1>1, <2>3 DEF NotYounger
  <2>4. CASE l[i] > p
    <3>1. ~SeqLess(SeqNo(l[i]), SeqNo(p)) /\ SeqNo(l[i]) # SeqNo(p)
      BY <1>1, <2>1, <2>4, SeqOrder
    <3>. QED BY <1>1, <2>1, <2>4, <3>1 DEF NotYounger
  <2>. QED BY <1>1, <2>1, <2>2, <2>3, <2>4
<1>3. k = Max({0} \union I)
  BY <1>1 DEF Place
<1>4. k \in {0} \union I /\ \A i \in {0} \union I : k >= i
  <2>1. {0} \union I \subseteq 0..n /\ {0} \union I # {}
    BY <1>1
  <2>. HIDE DEF I, k
  <2>. QED BY <1>1, <1>3, <2>1, LastPosition
<1>5. k \in 0..n /\ (k > 0 => k \in 1..n /\ l[k] <= p)
  BY <1>1, <1>2, <1>4
<1>6. \A i \in 1..n : i > k => l[i] > p
  <2>. SUFFICES ASSUME NEW i \in 1..n, i > k PROVE l[i] > p
    OBVIOUS
  <2>1. i \notin I
    BY <1>4, <1>5
  <2>2. ~(l[i] <= p)
    BY <1>2, <2>1
  <2>. QED BY <1>1, <2>2
<1>. HIDE DEF k, I
<1>7. ASSUME NEW i \in 1..n, i <= k PROVE l[i] <= p /\ (i < k => l[i] < p)
  <2>1. CASE i = k
    BY <1>1, <1>5, <2>1
  <2>2. CASE i < k
    <3>1. k \in 1..n /\ l[i] < l[k] /\ l[k] <= p
      BY <1>1, <1>5, <2>2 DEF Ascending
    <3>. QED BY <1>1, <3>1
  <2>. QED BY <1>5, <1>7, <2>1, <2>2
<1>8. Duplicate(l, p) <=> k > 0 /\ l[k] = p
  BY <1>2, <1>5 DEF Duplicate, k
<1>9. k > 0 /\ l[k] = p <=> Contains(l, p)
  <2>1. ASSUME NEW i \in 1..n, l[i] = p PROVE k > 0 /\ l[k] = p
    <3>1. ~(i > k)
      BY <1>1, <1>6, <2>1
    <3>2. ~(i < k)
      BY <1>1, <1>5, <1>7, <2>1
    <3>. QED BY <1>1, <1>5, <2>1, <3>1, <3>2
  <2>. QED BY <1>5, <2>1 DEF Contains
<1>. QED BY <1>5, <1>6, <1>7, <1>8, <1>9 DEF k

LEMMA Allocated ==
  ASSUME NEW b \in Buffer, Accounted(b), Ascending(b.framel), NEW a, a = FrameAlloc(b)
  PROVE  /\ a \in Buffer /\ a.running = b.running /\ a.seqPut = b.seqPut
         /\ a.n = Len(a.framel) + 1 /\ a.n + a.pool = JbMax
         /\ Ascending(a.framel)
         /\ \A i \in 1..Len(a.framel) : Contains(b.framel, a.framel[i])
<1>1. CASE b.pool > 0
  <2>1. a = [b EXCEPT !.pool = @ - 1, !.n = @ + 1]
    BY <1>1 DEF FrameAlloc
  <2>2. b.pool - 1 \in Nat /\ b.n + 1 \in Nat
    BY <1>1, BufferFields
  <2>3. a \in Buffer /\ a.framel = b.framel /\ a.pool = b.pool - 1 /\ a.n = b.n + 1
        /\ a.running = b.running /\ a.seqPut = b.seqPut
    BY <2>1, <2>2 DEF Buffer
  <2>4. a.n = Len(a.framel) + 1 /\ a.n + a.pool = JbMax
    <3>1. b.n \in Nat /\ b.pool \in Nat
      BY BufferFields
    <3>2. b.n = Len(b.framel) /\ b.n + b.pool = JbMax
      BY DEF Accounted
    <3>3. Len(a.framel) = b.n /\ a.n = b.n + 1 /\ a.pool = b.pool - 1
      BY <2>3, <3>2
    <3>. QED BY <3>1, <3>2, <3>3
  <2>5. \A i \in 1..Len(a.framel) : Contains(b.framel, a.framel[i])
    BY <2>3 DEF Contains
  <2>. QED BY <2>3, <2>4, <2>5
<1>2. CASE ~(b.pool > 0)
  <2>1. a = [b EXCEPT !.framel = Tail(@)] /\ b.pool = 0
    BY <1>2, BufferFields DEF FrameAlloc
  <2>. DEFINE l == b.framel
  <2>2. l \in Seq(Packets) /\ Len(l) = JbMax /\ Len(l) \in Nat \ {0} /\ l # <<>>
    <3>1. l \in Seq(Packets) /\ Len(l) \in Nat
      BY BufferFields
    <3>2. Len(l) = b.n /\ b.n + b.pool = JbMax
      BY DEF Accounted
    <3>. HIDE DEF l
    <3>3. Len(l) = JbMax /\ JbMax # 0
      BY <2>1, <3>1, <3>2, JbufConstants
    <3>. QED BY <3>1, <3>3, EmptySeq
  <2>3. /\ Tail(l) \in Seq(Packets) /\ Len(Tail(l)) = Len(l) - 1
        /\ \A i \in 1..Len(Tail(l)) : Tail(l)[i] = l[i + 1]
    BY <2>2, HeadTailProperties
  <2>4. a \in Buffer /\ a.framel = Tail(l) /\ a.pool = 0 /\ a.n = b.n
        /\ a.running = b.running /\ a.seqPut = b.seqPut
    BY <2>1, <2>3 DEF Buffer
  <2>5. \A i \in 1..Len(Tail(l)) : i + 1 \in 1..Len(l)
    BY <2>2, <2>3
  <2>6. \A i, j \in 1..Len(l) : i < j => l[i] < l[j]
    BY DEF Ascending
  <2>. HIDE DEF l
  <2>7. Ascending(Tail(l))
    BY <2>2, <2>3, <2>5, <2>6 DEF Ascending
  <2>8. \A i \in 1..Len(Tail(l)) : Contains(l, Tail(l)[i])
    BY <2>3, <2>5 DEF Contains
  <2>. QED BY <2>2, <2>3, <2>4, <2>7, <2>8, JbufConstants DEF Accounted, l
<1>. QED BY <1>1, <1>2

\* what may become of a buffer into which p is put
LEMMA PutCases ==
  ASSUME NEW b \in Buffer, Accounted(b), Ascending(b.framel), NEW p \in Packets,
         \A i \in 1..Len(b.framel) : /\ p - b.framel[i] <= SeqSpace \div 2
                                     /\ b.framel[i] - p < SeqSpace \div 2
  PROVE  /\ Put(b, p) \in Buffer /\ Accounted(Put(b, p)) /\ Ascending(Put(b, p).framel)
         /\ \A i \in 1..Len(Put(b, p).framel) :
               Put(b, p).framel[i] = p \/ Contains(b.framel, Put(b, p).framel[i])
         /\ \/ TooLate(b, p) /\ Put(b, p) = b
            \/ /\ ~TooLate(b, p) /\ Contains(b.framel, p)
               /\ Put(b, p).running = b.running /\ Put(b, p).seqPut = b.seqPut
            \/ /\ ~TooLate(b, p) /\ Contains(Put(b, p).framel, p)
               /\ Put(b, p).running = TRUE /\ Put(b, p).seqPut = SeqNo(p)
<1>. DEFINE r == Put(b, p)
            a == FrameAlloc(b)
            l == a.framel
            k == Place(l, p)
<1>1. CASE TooLate(b, p)
  <2>1. r = b
    BY <1>1 DEF Put
  <2>. QED BY <1>1, <2>1 DEF Contains
<1>2. /\ a \in Buffer /\ a.running = b.running /\ a.seqPut = b.seqPut
      /\ a.n = Len(l) + 1 /\ a.n + a.pool = JbMax
      /\ Ascending(l)
      /\ \A i \in 1..Len(l) : Contains(b.framel, l[i])
  BY Allocated
<1>3. l \in Seq(Packets) /\ Len(l) \in Nat /\ a.pool \in Nat /\ a.n = Len(l) + 1
  BY <1>2, BufferFields
<1>4. ASSUME NEW i \in 1..Len(l)
      PROVE  p - l[i] <= SeqSpace \div 2 /\ l[i] - p < SeqSpace \div 2
  BY <1>2 DEF Contains
<1>. HIDE DEF a
<1>5. /\ k \in 0..Len(l)
      /\ \A i \in 1..Len(l) : i <= k => l[i] <= p
      /\ \A i \in 1..Len(l) : i > k => l[i] > p
      /\ Duplicate(l, p) <=> Contains(l, p)
  BY <1>2, <1>3, <1>4, PlaceFound
<1>6. CASE ~TooLate(b, p) /\ Duplicate(l, p)
  <2>1. r = [a EXCEPT !.pool = @ + 1, !.n = @ - 1]
    BY <1>6 DEF Put, a
  <2>2. a.pool + 1 \in Nat /\ a.n - 1 \in Nat /\ a.n - 1 = Len(l)
        /\ (a.n - 1) + (a.pool + 1) = JbMax
    <3>1. a.n + a.pool = JbMax
      BY <1>2
    <3>. QED BY <1>3, <3>1
  <2>3. r \in Buffer /\ r.framel = l /\ r.pool = a.pool + 1 /\ r.n = a.n - 1
        /\ r.running = a.running /\ r.seqPut = a.seqPut
    BY <1>2, <2>1, <2>2 DEF Buffer
  <2>4. Contains(b.framel, p)
    <3>1. PICK i \in 1..Len(l) : l[i] = p
      BY <1>5, <1>6 DEF Contains
    <3>. QED BY <1>2, <3>1
  <2>. QED BY <1>2, <1>6, <2>2, <2>3, <2>4 DEF Accounted
<1>7. CASE ~TooLate(b, p) /\ ~Duplicate(l, p)
  <2>. DEFINE f == InsertAt(l, k + 1, p)
  <2>1. r = [a EXCEPT !.framel = f, !.running = TRUE, !.seqPut = SeqNo(p)]
    BY <1>7 DEF Put, a
  <2>2. k + 1 \in 1..(Len(l) + 1) /\ k \in Nat /\ Len(l) \in Nat
    BY <1>3, <1>5
  <2>. HIDE DEF k, l
  <2>3. /\ f \in Seq(Packets) /\ Len(f) = Len(l) + 1
        /\ \A i \in 1..(Len(l) + 1) :
             f[i] = IF i < k + 1 THEN l[i] ELSE IF i = k + 1 THEN p ELSE l[i - 1]
    <3>1. l \in Seq(Packets) /\ k + 1 \in 1..(Len(l) + 1) /\ p \in Packets
      BY <1>3, <2>2
    <3>2. ASSUME NEW m \in 1..(Len(l) + 1)
          PROVE  /\ InsertAt(l, m, p) \in Seq(Packets) /\ Len(InsertAt(l, m, p)) = Len(l) + 1
                 /\ \A i \in 1..(Len(l) + 1) :
                      InsertAt(l, m, p)[i] = IF i < m THEN l[i] ELSE IF i = m THEN p ELSE l[i - 1]
      BY <3>1, InsertedAt
    <3>. QED BY <3>1, <3>2
  <2>. HIDE DEF f
  <2>4. SeqNo(p) \in 0 .. SeqSpace - 1
    BY SeqNoIs, JbufConstants
  <2>5. r \in Buffer /\ r.framel = f /\ r.pool = a.pool /\ r.n = a.n
        /\ r.running = TRUE /\ r.seqPut = SeqNo(p)
    BY <1>2, <2>1, <2>3, <2>4 DEF Buffer
  <2>6. Accounted(r)
    BY <1>2, <2>3, <2>5 DEF Accounted, l
  <2>7. ASSUME NEW i \in 1..(Len(l) + 1)
        PROVE  \/ i <= k /\ i \in 1..Len(l) /\ f[i] = l[i]
               \/ i = k + 1 /\ f[i] = p
               \/ i > k + 1 /\ i - 1 \in 1..Len(l) /\ i - 1 > k /\ f[i] = l[i - 1]
    <3>1. CASE i <= k
      <4>1. i < k + 1 /\ i \in 1..Len(l)
        BY <1>3, <1>5, <3>1 DEF k, l
      <4>. QED BY <2>3, <3>1, <4>1
    <3>2. CASE i = k + 1
      <4>1. ~(i < k + 1)
        BY <2>2, <3>2
      <4>. QED BY <2>3, <3>2, <4>1
    <3>3. CASE i > k + 1
      <4>1. ~(i < k + 1) /\ i # k + 1 /\ i - 1 \in 1..Len(l) /\ i - 1 > k
        BY <1>3, <1>5, <3>3 DEF k, l
      <4>. QED BY <2>3, <3>3, <4>1
    <3>4. i <= k \/ i = k + 1 \/ i > k + 1
      BY <1>3, <1>5 DEF k, l
    <3>. QED BY <3>1, <3>2, <3>3, <3>4
  <2>8. ASSUME NEW i \in 1..Len(l)
        PROVE  /\ l[i] \in Nat /\ p \in Nat
               /\ i <= k => l[i] < p
               /\ i > k => l[i] > p
    <3>1. l[i] # p
      BY <1>5, <1>7 DEF Contains, l
    <3>2. l[i] \in Nat /\ p \in Nat
      BY <1>3, ElementOfSeq, JbufConstants DEF l
    <3>. QED BY <1>5, <3>1, <3>2 DEF k, l
  <2>9. ASSUME NEW i \in 1..(Len(l) + 1), NEW j \in 1..(Len(l) + 1), i < j
        PROVE  f[i] < f[j]
    <3>0. \A x, y \in 1..Len(l) : x < y => l[x] < l[y]
      BY <1>2 DEF Ascending, l
    <3>1. CASE i <= k /\ i \in 1..Len(l) /\ f[i] = l[i]
      <4>1. CASE j <= k /\ j \in 1..Len(l) /\ f[j] = l[j]
        BY <2>9, <3>0, <3>1, <4>1
      <4>2. CASE j = k + 1 /\ f[j] = p
        BY <2>8, <3>1, <4>2
      <4>3. CASE j > k + 1 /\ j - 1 \in 1..Len(l) /\ j - 1 > k /\ f[j] = l[j - 1]
        <5>1. l[i] < p /\ p < l[j - 1] /\ l[i] \in Nat /\ l[j - 1] \in Nat /\ p \in Nat
          BY <2>8, <3>1, <4>3
        <5>. QED BY <3>1, <4>3, <5>1
      <4>. QED BY <2>7, <4>1, <4>2, <4>3
    <3>2. CASE i = k + 1 /\ f[i] = p
      <4>1. j > k + 1
        BY <2>9, <3>2
      <4>2. j - 1 \in 1..Len(l) /\ j - 1 > k /\ f[j] = l[j - 1]
        BY <2>2, <2>7, <4>1
      <4>3. p < l[j - 1]
        BY <2>8, <4>2
      <4>. QED BY <3>2, <4>2, <4>3
    <3>3. CASE i > k + 1 /\ i - 1 \in 1..Len(l) /\ i - 1 > k /\ f[i] = l[i - 1]
      <4>1. j > k + 1
        BY <2>2, <2>9, <3>3
      <4>2. j - 1 \in 1..Len(l) /\ f[j] = l[j - 1] /\ i - 1 < j - 1
        BY <2>2, <2>7, <2>9, <4>1
      <4>. QED BY <3>0, <3>3, <4>2
    <3>. QED BY <2>7, <3>1, <3>2, <3>3
  <2>10. ASSUME NEW i \in 1..(Len(l) + 1) PROVE f[i] = p \/ Contains(b.framel, f[i])
    BY <1>2, <2>7 DEF l
  <2>11. Contains(f, p)
    <3>1. f[k + 1] = p
      BY <2>2, <2>7
    <3>. QED BY <2>2, <2>3, <3>1 DEF Contains
  <2>12. Ascending(f)
    BY <2>3, <2>9 DEF Ascending
  <2>. QED BY <1>7, <2>3, <2>5, <2>6, <2>10, <2>11, <2>12
<1>. QED BY <1>1, <1>6, <1>7

\* What the network delivers in time is not refused.
LEMMA Accepts ==
  ASSUME NEW b, NEW new, NEW cps, NEW pl, NEW p,
         Buffered(b, new, cps, pl), InWindow(b, new, p),
         p > new \/ (cps[p] = 0 /\ b.n >= JbMin)
  PROVE  ~TooLate(b, p) /\ ~Contains(b.framel, p)
<1>. DEFINE h == SeqSpace \div 2
<1>1. /\ b \in Buffer /\ new \in Nat /\ p \in Packets /\ p \in Nat /\ b.n \in Nat
      /\ b.n <= JbMax /\ b.pool \in Nat
  <2>1. b \in Buffer /\ new \in Nat /\ p \in Packets /\ p \in Nat
    BY JbufConstants DEF Buffered, InWindow
  <2>2. b.n \in Nat /\ b.pool \in Nat
    BY <2>1, BufferFields
  <2>3. b.n + b.pool = JbMax
    BY DEF Buffered, Accounted
  <2>. QED BY <2>1, <2>2, <2>3
<1>2. /\ p + Displaced >= new /\ p + JbMax + Displaced < new + h
      /\ Displaced \in Nat /\ JbMin \in Nat /\ JbMax \in Nat /\ Displaced < JbMin /\ h \in Nat
  BY JbufConstants DEF InWindow
<1>3. ~Contains(b.framel, p)
  <2>1. SUFFICES ASSUME NEW i \in 1..Len(b.framel), b.framel[i] = p PROVE FALSE
    BY DEF Contains
  <2>2. p <= new /\ cps[p] > 0
    BY <2>1 DEF Buffered
  <2>. QED BY <1>1, <2>2
<1>. HIDE DEF h
<1>4. ASSUME b.running PROVE ~TooLate(b, p)
  <2>1. PICK q \in Packets : b.seqPut = SeqNo(q) /\ q <= new /\ new <= q + Displaced
    BY <1>4 DEF Buffered, LastPut
  <2>2. (SeqNo(p) + b.n) % SeqSpace = SeqNo(p + b.n)
    BY <1>1, SeqNoPlus
  <2>. q \in Nat
    BY JbufConstants
  <2>3. p + b.n \in Nat /\ p + b.n >= q /\ (p + b.n) - q < h
    BY <1>1, <1>2, <2>1
  <2>4. ~SeqLess(SeqNo(p + b.n), SeqNo(q))
    BY <2>1, <2>3, SeqOrder DEF h
  <2>. QED BY <2>1, <2>2, <2>4 DEF TooLate
<1>5. ASSUME ~b.running PROVE ~TooLate(b, p)
  BY <1>5 DEF TooLate
<1>. QED BY <1>3, <1>4, <1>5

\* The network is within the half of the circle in which numbers can be compared.
LEMMA Comparable ==
  ASSUME NEW b, NEW new, NEW cps, NEW pl, NEW p,
         Buffered(b, new, cps, pl), InWindow(b, new, p)
  PROVE  \A i \in 1..Len(b.framel) : /\ p - b.framel[i] <= SeqSpace \div 2
                                     /\ b.framel[i] - p < SeqSpace \div 2
<1>. SUFFICES ASSUME NEW i \in 1..Len(b.framel)
              PROVE  /\ p - b.framel[i] <= SeqSpace \div 2
                     /\ b.framel[i] - p < SeqSpace \div 2
  OBVIOUS
<1>. DEFINE h == SeqSpace \div 2
            x == b.framel[i]
<1>1. b \in Buffer /\ x \in Nat /\ p \in Nat /\ new \in Nat /\ x <= new
  <2>1. b \in Buffer /\ new \in Nat /\ x <= new /\ p \in Nat
    BY JbufConstants DEF Buffered, InWindow
  <2>. QED BY <2>1, BufferFields
<1>2. /\ p + Displaced >= new /\ p + JbMax + Displaced < new + h
      /\ p + JbMax + Displaced < x + h
  BY DEF InWindow
<1>3. Displaced \in Nat /\ JbMin \in Nat /\ JbMax \in Nat /\ Displaced < JbMin /\ JbMin <= JbMax
      /\ h \in Nat
  BY JbufConstants
<1>. HIDE DEF h, x
<1>4. p - x <= h
  BY <1>1, <1>2, <1>3
<1>5. x - p < h
  BY <1>1, <1>2, <1>3
<1>. QED BY <1>4, <1>5 DEF h, x

\* what has arrived when p does
Counted(new, cps, p, new2, cps2) ==
  /\ cps[p] \in Nat /\ cps[p] < Copies
  /\ new2 = Max({new, p})
  /\ cps2 = [q \in Packets |-> IF q + Displaced < new2 THEN Copies
                               ELSE IF q = p THEN cps[q] + 1 ELSE cps[q]]

LEMMA Highest ==
  ASSUME NEW x \in Nat, NEW y \in Nat
  PROVE  Max({x, y}) = IF x >= y THEN x ELSE y
<1>. DEFINE I == {x, y}
            m == IF x >= y THEN x ELSE y
<1>1. m \in I /\ \A z \in I : m >= z
  OBVIOUS
<1>2. \A w \in I : (\A z \in I : w >= z) => w = m
  OBVIOUS
<1>3. I \subseteq 0..m /\ m \in Nat
  OBVIOUS
<1>. HIDE DEF I, m
<1>4. Max(I) \in I /\ \A z \in I : Max(I) >= z
  BY <1>1, <1>3, LastPosition
<1>. QED BY <1>2, <1>4 DEF I, m

\* jbuf_put
LEMMA PutOk ==
  ASSUME NEW b, NEW new, NEW cps, NEW pl, NEW p, NEW new2, NEW cps2,
         Buffered(b, new, cps, pl), InWindow(b, new, p), Counted(new, cps, p, new2, cps2)
  PROVE  Buffered(Put(b, p), new2, cps2, pl)
<1>. DEFINE r == Put(b, p)
<1>1. /\ b \in Buffer /\ Accounted(b) /\ Ascending(b.framel) /\ p \in Packets /\ p \in Nat
      /\ new \in Nat /\ pl \in Nat
      /\ p + Displaced >= new /\ Displaced \in Nat /\ JbMin \in Nat /\ Displaced < JbMin
      /\ p >= FirstNum /\ FirstNum \in Nat /\ Copies \in Nat
  BY JbufConstants DEF Buffered, InWindow
<1>2. \A i \in 1..Len(b.framel) : /\ p - b.framel[i] <= SeqSpace \div 2
                                  /\ b.framel[i] - p < SeqSpace \div 2
  BY Comparable
<1>3. /\ r \in Buffer /\ Accounted(r) /\ Ascending(r.framel)
      /\ \A i \in 1..Len(r.framel) : r.framel[i] = p \/ Contains(b.framel, r.framel[i])
      /\ \/ TooLate(b, p) /\ r = b
         \/ /\ ~TooLate(b, p) /\ Contains(b.framel, p)
            /\ r.running = b.running /\ r.seqPut = b.seqPut
         \/ /\ ~TooLate(b, p) /\ Contains(r.framel, p)
            /\ r.running = TRUE /\ r.seqPut = SeqNo(p)
  BY <1>1, <1>2, PutCases
<1>. HIDE DEF r
<1>4. new2 = IF new >= p THEN new ELSE p
  BY <1>1, Highest DEF Counted
<1>5. new2 \in Nat /\ new2 >= new /\ new2 >= p /\ (new2 = new \/ p > new) /\ new2 <= p + Displaced
  BY <1>1, <1>4
<1>6. p > pl
  <2>1. pl = FirstNum - 1 \/ pl + JbMin <= new
    BY DEF Buffered
  <2>. QED BY <1>1, <2>1
<1>7. cps2[p] > 0
  <2>1. cps2[p] = IF p + Displaced < new2 THEN Copies ELSE cps[p] + 1
    BY <1>1 DEF Counted
  <2>. QED BY <1>1, <2>1 DEF Counted
<1>8. ASSUME NEW x \in Packets, cps[x] > 0 PROVE cps2[x] > 0
  <2>1. CASE x = p
    BY <1>7, <2>1
  <2>2. CASE x # p
    <3>1. cps2[x] = IF x + Displaced < new2 THEN Copies ELSE cps[x]
      BY <2>2 DEF Counted
    <3>2. Copies > 0
      BY <1>1 DEF Counted
    <3>. QED BY <1>8, <3>1, <3>2
  <2>. QED BY <2>1, <2>2
<1>9. ASSUME NEW i \in 1..Len(r.framel)
      PROVE  pl < r.framel[i] /\ r.framel[i] <= new2 /\ cps2[r.framel[i]] > 0
  <2>1. CASE r.framel[i] = p
    BY <1>5, <1>6, <1>7, <2>1
  <2>2. CASE Contains(b.framel, r.framel[i])
    <3>1. PICK j \in 1..Len(b.framel) : b.framel[j] = r.framel[i]
      BY <2>2 DEF Contains
    <3>2. pl < b.framel[j] /\ b.framel[j] <= new /\ cps[b.framel[j]] > 0
      BY DEF Buffered
    <3>3. b.framel[j] \in Packets /\ b.framel[j] \in Nat
      BY <1>1, BufferFields
    <3>4. b.framel[j] <= new2
      BY <1>1, <1>5, <3>2, <3>3
    <3>. QED BY <1>8, <3>1, <3>2, <3>3, <3>4
  <2>. QED BY <1>3, <2>1, <2>2
<1>10. pl = FirstNum - 1 \/ pl + JbMin <= new2
  <2>1. pl = FirstNum - 1 \/ pl + JbMin <= new
    BY DEF Buffered
  <2>. QED BY <1>1, <1>5, <2>1
<1>11. LastPut(r, new2)
  <2>1. CASE r.running = TRUE /\ r.seqPut = SeqNo(p)
    BY <1>1, <1>5, <2>1 DEF LastPut
  <2>2. CASE ~(r.running = TRUE /\ r.seqPut = SeqNo(p))
    <3>1. TooLate(b, p) \/ Contains(b.framel, p)
      BY <1>3, <2>2
    <3>2. ~(p > new)
      BY <3>1, Accepts
    <3>3. new2 = new
      BY <1>5, <3>2
    <3>4. r.running = b.running /\ r.seqPut = b.seqPut
      BY <1>3, <2>2
    <3>. QED BY <3>3, <3>4 DEF Buffered, LastPut
  <2>. QED BY <2>1, <2>2
<1>12. pl \in Nat /\ new2 \in Nat
  BY <1>1, <1>5
<1>. QED BY <1>3, <1>9, <1>10, <1>11, <1>12 DEF Buffered, r

\* jbuf_flush
LEMMA FlushedOk ==
  ASSUME NEW b, NEW new, NEW cps, NEW pl, Buffered(b, new, cps, pl)
  PROVE  Buffered(Flushed(b), new, cps, pl) /\ Flushed(b).framel = <<>>
<1>. DEFINE r == Flushed(b)
<1>1. b \in Buffer /\ Accounted(b) /\ new \in Nat /\ pl \in Nat
      /\ (pl = FirstNum - 1 \/ pl + JbMin <= new)
  BY DEF Buffered
<1>2. Len(b.framel) \in Nat /\ b.pool \in Nat /\ b.n \in Nat
  BY <1>1, BufferFields
<1>3. b.n = Len(b.framel) /\ b.n + b.pool = JbMax
  BY <1>1 DEF Accounted
<1>4. b.pool + Len(b.framel) \in Nat /\ 0 + (b.pool + Len(b.framel)) = JbMax
  BY <1>2, <1>3
<1>5. <<>> \in Seq(Packets) /\ Len(<<>>) = 0
  BY EmptySeq
<1>6. r \in Buffer /\ r.framel = <<>> /\ r.n = 0 /\ r.pool = b.pool + Len(b.framel) /\ ~r.running
  BY <1>1, <1>4, <1>5 DEF Flushed, Buffer
<1>. HIDE DEF r
<1>7. Len(r.framel) = 0
  BY <1>5, <1>6
<1>8. 1..Len(r.framel) = {}
  BY <1>7
<1>9. Accounted(r) /\ Ascending(r.framel) /\ LastPut(r, new)
  BY <1>4, <1>6, <1>7, <1>8 DEF Accounted, Ascending, LastPut
<1>10. \A i \in 1..Len(r.framel) : pl < r.framel[i] /\ r.framel[i] <= new
                                   /\ cps[r.framel[i]] > 0
  BY <1>8
<1>. QED BY <1>1, <1>6, <1>9, <1>10 DEF Buffered, r

\* strictly ascending numbers are as far apart as their positions at least
LEMMA FarApart ==
  ASSUME NEW l \in Seq(Nat), Ascending(l), NEW j \in 1..Len(l)
  PROVE  l[j] >= l[1] + (j - 1)
<1>. DEFINE n == Len(l)
            I == {i \in 1..n : ~(l[i] >= l[1] + (i - 1))}
<1>1. n \in Nat /\ \A i \in 1..n : l[i] \in Nat
  BY LenProperties, ElementOfSeq
<1>2. \A x, y \in 1..n : x < y => l[x] < l[y]
  BY DEF Ascending
<1>. HIDE DEF n
<1>3. I = {}
  <2>1. SUFFICES ASSUME I # {} PROVE FALSE
    OBVIOUS
  <2>2. I \subseteq 0..n
    OBVIOUS
  <2>. DEFINE m == Min(I)
  <2>3. m \in I /\ \A y \in I : m <= y
    BY <1>1, <2>1, <2>2, FirstPosition
  <2>. HIDE DEF m
  <2>4. m \in 1..n /\ ~(l[m] >= l[1] + (m - 1))
    BY <2>3
  <2>. HIDE DEF I
  <2>5. 1 \in 1..n /\ l[1] \in Nat /\ m # 1
    <3>1. 1 \in 1..n
      BY <1>1, <2>4
    <3>2. l[1] \in Nat
      BY <1>1, <3>1
    <3>3. l[1] >= l[1] + (1 - 1)
      BY <3>2
    <3>. QED BY <2>4, <3>1, <3>2, <3>3
  <2>6. m - 1 \in 1..n /\ m - 1 < m
    BY <1>1, <2>4, <2>5
  <2>7. m - 1 \notin I
    BY <2>3, <2>4, <2>6
  <2>8. l[m - 1] >= l[1] + (m - 1 - 1)
    BY <2>6, <2>7 DEF I
  <2>9. l[m - 1] < l[m] /\ l[m - 1] \in Nat /\ l[m] \in Nat
    BY <1>1, <1>2, <2>4, <2>6
  <2>10. m \in Nat
    BY <1>1, <2>4
  <2>11. \A u, v, w \in Nat : v >= u + (m - 1 - 1) /\ v < w => w >= u + (m - 1)
    BY <2>10
  <2>12. l[m] >= l[1] + (m - 1)
    BY <2>5, <2>8, <2>9, <2>11
  <2>. QED BY <2>4, <2>12
<1>4. j \in 1..n
  BY DEF n
<1>. QED BY <1>3, <1>4

\* jbuf_get
LEMMA TakenOk ==
  ASSUME NEW b, NEW new, NEW cps, NEW pl, Buffered(b, new, cps, pl), Ready(b)
  PROVE  /\ Buffered(Taken(b), new, cps, Head(b.framel))
         /\ Head(b.framel) \in Packets /\ Head(b.framel) > pl
         /\ Taken(b).framel = Tail(b.framel)
<1>. DEFINE r == Taken(b)
            l == b.framel
            n == Len(b.framel)
<1>1. b \in Buffer /\ Accounted(b) /\ Ascending(l) /\ new \in Nat /\ pl \in Nat
  BY DEF Buffered
<1>2. /\ l \in Seq(Packets) /\ n \in Nat /\ b.pool \in Nat /\ b.n \in Nat
      /\ \A i \in 1..n : l[i] \in Packets /\ l[i] \in Nat
  BY <1>1, BufferFields
<1>3. b.n = n /\ b.n + b.pool = JbMax /\ JbMin \in Nat /\ n > JbMin
  BY <1>1, JbufConstants DEF Accounted, Ready
<1>4. n \in Nat \ {0} /\ l # <<>>
  BY <1>2, <1>3 DEF Ready
<1>5. /\ Head(l) = l[1] /\ Tail(l) \in Seq(Packets) /\ Len(Tail(l)) = n - 1
      /\ \A i \in 1..(n - 1) : Tail(l)[i] = l[i + 1]
  BY <1>2, <1>4, HeadTailProperties
<1>6. \A i, j \in 1..n : i < j => l[i] < l[j]
  BY <1>1 DEF Ascending
<1>7. \A i \in 1..n : pl < l[i] /\ l[i] <= new /\ cps[l[i]] > 0
  BY DEF Buffered
<1>8. l[n] >= l[1] + (n - 1)
  <2>1. Packets \subseteq Nat
    BY JbufConstants
  <2>2. l \in Seq(Nat)
    BY <1>2, <2>1, SeqMonotonic
  <2>. HIDE DEF l
  <2>. QED BY <1>1, <1>4, <2>2, FarApart DEF l
<1>9. b.pool + 1 \in Nat /\ b.n - 1 \in Nat /\ b.n - 1 = n - 1 /\ (b.n - 1) + (b.pool + 1) = JbMax
  <2>. HIDE DEF n
  <2>. QED BY <1>2, <1>3, <1>4
<1>10. r \in Buffer /\ r.framel = Tail(l) /\ r.pool = b.pool + 1 /\ r.n = b.n - 1
       /\ r.running = b.running /\ r.seqPut = b.seqPut
  BY <1>1, <1>5, <1>9 DEF Taken, Buffer
<1>. HIDE DEF r
<1>11. Accounted(r)
  BY <1>5, <1>9, <1>10 DEF Accounted
<1>12. \A i \in 1..(n - 1) : i + 1 \in 1..n
  <2>. HIDE DEF n
  <2>. QED BY <1>2
<1>. HIDE DEF l, n
<1>13. Ascending(r.framel)
  <2>. SUFFICES ASSUME NEW i \in 1..(n - 1), NEW j \in 1..(n - 1), i < j
                PROVE  Tail(l)[i] < Tail(l)[j]
    BY <1>5, <1>10 DEF Ascending
  <2>1. i + 1 \in 1..n /\ j + 1 \in 1..n /\ i + 1 < j + 1
    BY <1>12
  <2>. QED BY <1>5, <1>6, <2>1
<1>14. 1 \in 1..n /\ n \in 1..n
  BY <1>2, <1>4
<1>15. Head(l) \in Packets /\ Head(l) \in Nat /\ pl < Head(l)
  BY <1>2, <1>5, <1>7, <1>14
<1>16. \A i \in 1..Len(r.framel) : Head(l) < r.framel[i] /\ r.framel[i] <= new
                                   /\ cps[r.framel[i]] > 0
  <2>. SUFFICES ASSUME NEW i \in 1..(n - 1)
                PROVE Head(l) < Tail(l)[i] /\ Tail(l)[i] <= new /\ cps[Tail(l)[i]] > 0
    BY <1>5, <1>10
  <2>1. i + 1 \in 1..n /\ 1 < i + 1
    BY <1>12
  <2>. QED BY <1>5, <1>6, <1>7, <1>14, <2>1
<1>17. Head(l) + JbMin <= new
  <2>1. l[1] \in Nat /\ l[n] \in Nat /\ l[n] <= new
    BY <1>2, <1>7, <1>14
  <2>. QED BY <1>1, <1>2, <1>3, <1>5, <1>8, <2>1
<1>18. LastPut(r, new)
  BY <1>10 DEF Buffered, LastPut
<1>19. Buffered(r, new, cps, Head(l))
  BY <1>1, <1>10, <1>11, <1>13, <1>15, <1>16, <1>17, <1>18 DEF Buffered
<1>. QED BY <1>10, <1>15, <1>19 DEF r, l

-----------------------------------------------------------------------------
(***************************************************************************)
(* The buffer between the network and its user.                            *)
(***************************************************************************)
JbInv ==
  /\ Buffered(jb, newest, copies, played)
  /\ copies \in [Packets -> Nat]

LEMMA EmptyBuffered == Buffered(AllocatedJbuf, FirstNum - 1, [p \in Packets |-> 0], FirstNum - 1)
<1>. DEFINE r == AllocatedJbuf
<1>1. FirstNum - 1 \in Nat /\ JbMax \in Nat /\ 0 \in 0 .. SeqSpace - 1
  BY JbufConstants
<1>2. <<>> \in Seq(Packets) /\ Len(<<>>) = 0
  BY EmptySeq
<1>3. r \in Buffer /\ r.framel = <<>> /\ r.n = 0 /\ r.pool = JbMax /\ r.running = FALSE
  BY <1>1, <1>2 DEF AllocatedJbuf, Buffer
<1>. HIDE DEF r
<1>4. Len(r.framel) = 0
  BY <1>2, <1>3
<1>5. 1..Len(r.framel) = {}
  BY <1>4
<1>6. Accounted(r) /\ Ascending(r.framel) /\ LastPut(r, FirstNum - 1)
  BY <1>1, <1>3, <1>4, <1>5 DEF Accounted, Ascending, LastPut
<1>. QED BY <1>1, <1>3, <1>5, <1>6 DEF Buffered, r

\* A packet that arrives does so within the window, for the buffer as it is and for
\* an emptied one.
LEMMA ArrivesOk ==
  ASSUME JbInv, NEW p \in Packets, Arrives(p)
  PROVE  /\ InWindow(jb, newest, p) /\ InWindow(Flushed(jb), newest, p)
         /\ Counted(newest, copies, p, newest', copies')
         /\ copies' \in [Packets -> Nat]
<1>. DEFINE l == jb.framel
            n == Len(jb.framel)
            w == p + JbMax + Displaced
            h == SeqSpace \div 2
<1>1. /\ p \in Nat /\ w \in Nat /\ h \in Nat /\ newest \in Nat /\ Copies \in Nat
      /\ l \in Seq(Packets) /\ n \in Nat
      /\ \A i \in 1..n : l[i] \in Nat /\ l[i] <= newest
  <2>1. p \in Nat /\ JbMax \in Nat /\ Displaced \in Nat /\ h \in Nat /\ Copies \in Nat
    BY JbufConstants
  <2>2. jb \in Buffer /\ newest \in Nat /\ \A i \in 1..n : l[i] <= newest
    BY DEF JbInv, Buffered
  <2>. QED BY <2>1, <2>2, BufferFields
<1>2. p + Displaced >= newest /\ w < Oldest + h /\ copies[p] < Copies
  BY DEF Arrives
<1>3. \A i, j \in 1..n : i < j => l[i] < l[j]
  BY DEF JbInv, Buffered, Ascending
<1>4. Oldest <= newest /\ Oldest \in Nat /\ \A i \in 1..n : Oldest <= l[i]
  <2>1. CASE l = <<>>
    <3>1. n = 0 /\ Oldest = newest
      BY <2>1, EmptySeq DEF Oldest
    <3>. QED BY <1>1, <3>1
  <2>2. CASE l # <<>>
    <3>1. Oldest = l[1] /\ n # 0
      BY <1>1, <2>2, HeadTailProperties, EmptySeq DEF Oldest
    <3>. HIDE DEF l, n
    <3>2. 1 \in 1..n
      BY <1>1, <3>1
    <3>3. \A i \in 1..n : i = 1 \/ 1 < i
      BY <1>1
    <3>4. \A i \in 1..n : l[1] <= l[i]
      BY <1>1, <1>3, <3>2, <3>3
    <3>. QED BY <1>1, <3>1, <3>2, <3>4
  <2>. QED BY <2>1, <2>2
<1>5. w < newest + h /\ \A i \in 1..n : w < l[i] + h
  <2>. HIDE DEF w, h, l, n
  <2>. QED BY <1>1, <1>2, <1>4
<1>6. InWindow(jb, newest, p)
  BY <1>2, <1>5 DEF InWindow
<1>7. InWindow(Flushed(jb), newest, p)
  <2>1. Flushed(jb).framel = <<>>
    BY FlushedOk DEF JbInv
  <2>2. Len(Flushed(jb).framel) = 0
    BY <2>1, EmptySeq
  <2>3. 1..Len(Flushed(jb).framel) = {}
    BY <2>2
  <2>. QED BY <1>2, <1>5, <2>3 DEF InWindow
<1>8. \A q \in Packets : copies[q] \in Nat
  BY DEF JbInv
<1>9. Counted(newest, copies, p, newest', copies')
  BY <1>2, <1>8 DEF Arrives, Counted
<1>10. copies' \in [Packets -> Nat]
  <2>1. copies' = [q \in Packets |-> IF q + Displaced < newest' THEN Copies
                                  ELSE IF q = p THEN copies[q] + 1 ELSE copies[q]]
    BY DEF Arrives
  <2>2. \A q \in Packets : copies[q] + 1 \in Nat
    BY <1>8
  <2>. QED BY <1>1, <1>8, <2>1, <2>2
<1>. QED BY <1>6, <1>7, <1>9, <1>10

LEMMA JbStep == JbInv /\ [JbNext]_jbVars => JbInv'
<1>. SUFFICES ASSUME JbInv, [JbNext]_jbVars PROVE JbInv'
  OBVIOUS
<1>1. ASSUME NEW p \in Packets, JbufPut(p) PROVE JbInv'
  <2>1. /\ InWindow(jb, newest, p) /\ Counted(newest, copies, p, newest', copies')
        /\ copies' \in [Packets -> Nat]
    BY <1>1, ArrivesOk DEF JbufPut
  <2>2. Buffered(Put(jb, p), newest', copies', played)
    BY <2>1, PutOk DEF JbInv
  <2>. QED BY <1>1, <2>1, <2>2 DEF JbInv, JbufPut
<1>2. CASE JbufGet
  BY <1>2, TakenOk DEF JbInv, JbufGet
<1>3. CASE JbufFlush
  BY <1>3, FlushedOk DEF JbInv, JbufFlush
<1>4. CASE UNCHANGED jbVars
  BY <1>4 DEF JbInv, jbVars
<1>. QED BY <1>1, <1>2, <1>3, <1>4 DEF JbNext

LEMMA JbAlways == JbSpec => []JbInv
<1>1. JbInit => JbInv
  <2>. SUFFICES ASSUME JbInit PROVE JbInv
    OBVIOUS
  <2>1. copies = [p \in Packets |-> 0] /\ 0 \in Nat
    BY DEF JbInit
  <2>. QED BY <2>1, EmptyBuffered DEF JbInit, JbInv
<1>. QED BY <1>1, JbStep, PTL DEF JbSpec

LEMMA InvFrames == JbInv => FramesAccounted
BY DEF JbInv, Buffered, Accounted, FramesAccounted

LEMMA InvOrder == JbInv => PlayedInOrder
<1>. SUFFICES ASSUME JbInv PROVE PlayedInOrder
  OBVIOUS
<1>. DEFINE l == jb.framel
            n == Len(jb.framel)
<1>1. l \in Seq(Packets) /\ n \in Nat
  BY BufferFields DEF JbInv, Buffered
<1>2. \A i, j \in 1..n : i < j => l[i] < l[j]
  BY DEF JbInv, Buffered, Ascending
<1>3. \A i \in 1..n : played < l[i]
  BY DEF JbInv, Buffered
<1>4. \A i \in 2..n : i - 1 \in 1..n /\ i \in 1..n /\ i - 1 < i
  <2>. HIDE DEF n
  <2>. QED BY <1>1
<1>5. ASSUME l # <<>> PROVE played < Head(l)
  <2>1. Head(l) = l[1] /\ n # 0
    BY <1>1, <1>5, HeadTailProperties, EmptySeq
  <2>. HIDE DEF l, n
  <2>2. 1 \in 1..n
    BY <1>1, <2>1
  <2>. QED BY <1>3, <2>1, <2>2
<1>6. \A i \in 2..n : l[i - 1] < l[i]
  <2>. HIDE DEF l, n
  <2>. QED BY <1>2, <1>4
<1>. QED BY <1>5, <1>6 DEF PlayedInOrder

\* Every frame of the pool is free or buffered and n counts the buffered ones, whatever is
\* put, stolen, refused as a duplicate, got and flushed, for pools of every size
\* (jbuf_put, frame_alloc, jbuf_get, jbuf_flush).
THEOREM FramesAreAccounted == JbSpec => []FramesAccounted
BY JbAlways, InvFrames, PTL

\* The user of the jitter buffer gets packets in the order they were sent in and each once,
\* wherever the sequence numbers wrap around, as long as packets are displaced by
\* less than the buffer holds back (jbuf_put's search for the place, jbuf_get).
THEOREM PacketsInOrder == JbSpec => []PlayedInOrder
BY JbAlways, InvOrder, PTL

\* jbuf_put does not refuse as too late, nor as a duplicate, a packet that comes for the first
\* time when the buffer holds JbMin frames.
THEOREM InTimeIsAccepted == JbSpec => InTimeAccepted
<1>. DEFINE Accepted == \A p \in Packets : JbufPut(p) /\ copies[p] = 0 /\ jb.n >= JbMin
                                           => Contains(jb'.framel, p)
<1>1. JbInv /\ [JbNext]_jbVars => [Accepted]_jbVars
  <2>. SUFFICES ASSUME JbInv, NEW p \in Packets, JbufPut(p), copies[p] = 0, jb.n >= JbMin
                PROVE  Contains(jb'.framel, p)
    OBVIOUS
  <2>1. InWindow(jb, newest, p)
    BY ArrivesOk DEF JbufPut
  <2>2. ~TooLate(jb, p) /\ ~Contains(jb.framel, p)
    BY <2>1, Accepts DEF JbInv
  <2>3. jb \in Buffer /\ Accounted(jb) /\ Ascending(jb.framel)
    BY DEF JbInv, Buffered
  <2>4. \A i \in 1..Len(jb.framel) : /\ p - jb.framel[i] <= SeqSpace \div 2
                                     /\ jb.framel[i] - p < SeqSpace \div 2
    BY <2>1, Comparable DEF JbInv
  <2>5. Contains(Put(jb, p).framel, p)
    BY <2>2, <2>3, <2>4, PutCases
  <2>. QED BY <2>5 DEF JbufPut
<1>. QED BY <1>1, JbAlways, PTL DEF JbSpec, InTimeAccepted

-----------------------------------------------------------------------------
(***************************************************************************)
(* The sums of what the frames of an audio buffer have left.               *)
(***************************************************************************)
Frames == [num : Nat, left : Nat]

LEMMA SumExists ==
  ASSUME NEW s \in Seq(Frames)
  PROVE  \A k \in 0..Len(s) :
           \E f : f = [i \in 0..k |-> IF i = 0 THEN 0 ELSE f[i - 1] + s[i].left]
<1>. DEFINE n == Len(s)
            Good(f, k) == f = [i \in 0..k |-> IF i = 0 THEN 0 ELSE f[i - 1] + s[i].left]
            I == {k \in 0..n : ~\E f : Good(f, k)}
<1>1. n \in Nat
  BY LenProperties
<1>2. SUFFICES ASSUME I # {} PROVE FALSE
  OBVIOUS
<1>. HIDE DEF n
<1>. DEFINE m == Min(I)
<1>3. m \in I /\ \A y \in I : m <= y
  <2>1. I \subseteq 0..n
    OBVIOUS
  <2>. HIDE DEF I
  <2>. QED BY <1>1, <1>2, <2>1, FirstPosition
<1>. HIDE DEF m
<1>4. m \in 0..n /\ m \in Nat /\ ~\E f : Good(f, m)
  BY <1>1, <1>3
<1>5. m # 0
  <2>1. Good([i \in 0..0 |-> 0], 0)
    OBVIOUS
  <2>. HIDE DEF Good
  <2>. QED BY <1>4, <2>1
<1>6. m - 1 \in 0..n /\ ~(m <= m - 1)
  BY <1>1, <1>4, <1>5
<1>7. PICK f : Good(f, m - 1)
  BY <1>3, <1>6
<1>. DEFINE g == [i \in 0..m |-> IF i < m THEN f[i] ELSE f[m - 1] + s[m].left]
<1>8. ASSUME NEW i \in 0..m
      PROVE  g[i] = IF i = 0 THEN 0 ELSE g[i - 1] + s[i].left
  <2>1. CASE i = 0
    <3>1. 0 < m /\ 0 \in 0..(m - 1) /\ 0 \in 0..m
      BY <1>4, <1>5
    <3>2. f[0] = 0
      BY <1>7, <3>1
    <3>3. g[0] = f[0]
      BY <3>1
    <3>. QED BY <2>1, <3>2, <3>3
  <2>2. CASE i \in 1..(m - 1)
    <3>1. i < m /\ i - 1 < m /\ i - 1 \in 0..m /\ i # 0 /\ i \in 0..(m - 1)
      BY <1>4, <2>2
    <3>2. f[i] = f[i - 1] + s[i].left
      BY <1>7, <3>1
    <3>3. g[i] = f[i] /\ g[i - 1] = f[i - 1]
      BY <3>1
    <3>. HIDE DEF g
    <3>. QED BY <3>1, <3>2, <3>3
  <2>3. CASE i = m
    <3>1. m - 1 < m /\ m - 1 \in 0..m /\ ~(m < m) /\ m \in 0..m
      BY <1>4, <1>5
    <3>2. g[m] = f[m - 1] + s[m].left /\ g[m - 1] = f[m - 1]
      BY <3>1
    <3>. HIDE DEF g
    <3>. QED BY <1>5, <2>3, <3>2
  <2>4. i = 0 \/ i \in 1..(m - 1) \/ i = m
    BY <1>4
  <2>. HIDE DEF g
  <2>. QED BY <2>1, <2>2, <2>3, <2>4
<1>9. g = [i \in 0..m |-> IF i = 0 THEN 0 ELSE g[i - 1] + s[i].left]
  <2>. DEFINE r == [i \in 0..m |-> IF i = 0 THEN 0 ELSE g[i - 1] + s[i].left]
  <2>1. DOMAIN g = 0..m /\ g = [i \in 0..m |-> g[i]]
    OBVIOUS
  <2>. HIDE DEF g
  <2>. QED BY <1>8, <2>1
<1>10. Good(g, m)
  <2>. HIDE DEF g
  <2>. QED BY <1>9
<1>. HIDE DEF Good
<1>. QED BY <1>4, <1>10

\* Upto adds up
LEMMA Adds ==
  ASSUME NEW s \in Seq(Frames)
  PROVE  /\ Upto(s)[0] = 0
         /\ \A i \in 1..Len(s) : Upto(s)[i] = Upto(s)[i - 1] + s[i].left
<1>. DEFINE n == Len(s)
            Good(f) == f = [i \in 0..n |-> IF i = 0 THEN 0 ELSE f[i - 1] + s[i].left]
<1>1. n \in Nat
  BY LenProperties
<1>2. \E f : Good(f)
  <2>1. n \in 0..n
    BY <1>1
  <2>. QED BY <2>1, SumExists
<1>3. Upto(s) = CHOOSE f : Good(f)
  BY DEF Upto
<1>4. Good(Upto(s))
  <2>. HIDE DEF Good
  <2>. QED BY <1>2, <1>3
<1>. DEFINE u == Upto(s)
<1>5. u = [i \in 0..n |-> IF i = 0 THEN 0 ELSE u[i - 1] + s[i].left]
  BY <1>4
<1>. HIDE DEF u, n
<1>6. u[0] = 0
  <2>1. 0 \in 0..n
    BY <1>1
  <2>. QED BY <1>5, <2>1
<1>7. ASSUME NEW i \in 1..n PROVE u[i] = u[i - 1] + s[i].left
  <2>1. i \in 0..n /\ i # 0
    BY <1>1
  <2>. QED BY <1>5, <2>1
<1>. QED BY <1>6, <1>7 DEF u, n

\* and nothing else does
LEMMA SumUnique ==
  ASSUME NEW s \in Seq(Frames), NEW g, g[0] = 0,
         \A i \in 1..Len(s) : g[i] = g[i - 1] + s[i].left
  PROVE  \A i \in 0..Len(s) : Upto(s)[i] = g[i]
<1>. DEFINE n == Len(s)
            I == {k \in 0..n : Upto(s)[k] # g[k]}
<1>1. n \in Nat
  BY LenProperties
<1>2. SUFFICES ASSUME I # {} PROVE FALSE
  OBVIOUS
<1>. DEFINE m == Min(I)
<1>. HIDE DEF n
<1>3. m \in I /\ \A y \in I : m <= y
  <2>1. I \subseteq 0..n
    OBVIOUS
  <2>. HIDE DEF I
  <2>. QED BY <1>1, <1>2, <2>1, FirstPosition
<1>. HIDE DEF m
<1>4. m \in 0..n /\ m # 0 /\ Upto(s)[m] # g[m]
  BY <1>3, Adds
<1>5. m \in 1..n /\ m - 1 \in 0..n /\ ~(m <= m - 1)
  BY <1>1, <1>4
<1>6. Upto(s)[m - 1] = g[m - 1]
  BY <1>3, <1>5
<1>. QED BY <1>4, <1>5, <1>6, Adds DEF n

LEMMA Lefts ==
  ASSUME NEW s \in Seq(Frames)
  PROVE  /\ Len(s) \in Nat
         /\ \A i \in 1..Len(s) : s[i] \in Frames /\ s[i].left \in Nat /\ s[i].num \in Nat
<1>1. \A i \in 1..Len(s) : s[i] \in Frames
  BY ElementOfSeq
<1>. QED BY <1>1, LenProperties DEF Frames

\* the sums grow
LEMMA Grows ==
  ASSUME NEW s \in Seq(Frames)
  PROVE  /\ \A i \in 0..Len(s) : Upto(s)[i] \in Nat
         /\ \A i, j \in 0..Len(s) : i <= j => Upto(s)[i] <= Upto(s)[j]
<1>. DEFINE n == Len(s)
            u == Upto(s)
            I == {k \in 0..n : ~(u[k] \in Nat)}
            J(i) == {k \in 0..n : i <= k /\ ~(u[i] <= u[k])}
<1>1. n \in Nat /\ \A i \in 1..n : s[i].left \in Nat
  BY Lefts
<1>2. u[0] = 0 /\ \A i \in 1..n : u[i] = u[i - 1] + s[i].left
  BY Adds
<1>. HIDE DEF n, u
<1>3. I = {}
  <2>1. SUFFICES ASSUME I # {} PROVE FALSE
    OBVIOUS
  <2>. DEFINE m == Min(I)
  <2>2. m \in I /\ \A y \in I : m <= y
    <3>1. I \subseteq 0..n
      OBVIOUS
    <3>. HIDE DEF I
    <3>. QED BY <1>1, <2>1, <3>1, FirstPosition
  <2>. HIDE DEF m
  <2>3. m \in 1..n /\ m - 1 \in 0..n /\ ~(m <= m - 1)
    BY <1>1, <1>2, <2>2
  <2>4. u[m - 1] \in Nat
    BY <2>2, <2>3
  <2>5. u[m] = u[m - 1] + s[m].left /\ s[m].left \in Nat
    BY <1>1, <1>2, <2>3
  <2>6. u[m] \in Nat
    BY <2>4, <2>5
  <2>. QED BY <2>2, <2>6
<1>4. \A i \in 0..n : u[i] \in Nat
  BY <1>3
<1>5. ASSUME NEW i \in 0..n PROVE J(i) = {}
  <2>1. SUFFICES ASSUME J(i) # {} PROVE FALSE
    OBVIOUS
  <2>. DEFINE m == Min(J(i))
  <2>2. m \in J(i) /\ \A y \in J(i) : m <= y
    <3>1. J(i) \subseteq 0..n
      OBVIOUS
    <3>. HIDE DEF J
    <3>. QED BY <1>1, <2>1, <3>1, FirstPosition
  <2>. HIDE DEF m
  <2>3. m \in 0..n /\ i <= m /\ ~(u[i] <= u[m])
    BY <2>2
  <2>4. i # m
    BY <1>4, <2>3
  <2>5. m \in 1..n /\ m - 1 \in 0..n /\ ~(m <= m - 1) /\ i <= m - 1
    BY <1>1, <2>3, <2>4
  <2>6. u[i] <= u[m - 1]
    BY <2>2, <2>5
  <2>7. u[m] = u[m - 1] + s[m].left /\ s[m].left \in Nat /\ u[m - 1] \in Nat /\ u[i] \in Nat
    BY <1>1, <1>2, <1>4, <2>5
  <2>. QED BY <2>3, <2>6, <2>7
<1>6. \A i, j \in 0..n : i <= j => u[i] <= u[j]
  BY <1>5
<1>. QED BY <1>4, <1>6 DEF n, u

-----------------------------------------------------------------------------
(***************************************************************************)
(* The audio buffer.  m is what remains of l when its first k elements go. *)
(***************************************************************************)
Dropped(l, m, k) ==
  /\ k \in 0..Len(l) /\ Len(m) = Len(l) - k
  /\ \A i \in 1..Len(m) : m[i] = l[i + k]

\* the packets the frames were decoded from
Nums(s) == [i \in DOMAIN s |-> s[i].num]

LEMMA NumsOk ==
  ASSUME NEW s \in Seq(Frames)
  PROVE  Nums(s) \in Seq(Nat) /\ Len(Nums(s)) = Len(s)
         /\ \A i \in 1..Len(s) : Nums(s)[i] = s[i].num
<1>1. Len(s) \in Nat /\ DOMAIN s = 1..Len(s) /\ \A i \in 1..Len(s) : s[i].num \in Nat
  BY Lefts, LenProperties
<1>2. Nums(s) = [i \in 1..Len(s) |-> s[i].num]
  BY <1>1 DEF Nums
<1>3. Nums(s) \in [1..Len(s) -> Nat]
  BY <1>1, <1>2
<1>4. Nums(s) \in Seq(Nat)
  BY <1>1, <1>3, IsASeq
<1>5. Len(Nums(s)) = Len(s)
  BY <1>1, <1>2, <1>4, LenProperties
<1>. QED BY <1>2, <1>4, <1>5

\* a frame is appended
LEMMA AppendBytes ==
  ASSUME NEW s \in Seq(Frames), NEW f \in Frames
  PROVE  /\ Append(s, f) \in Seq(Frames) /\ Len(Append(s, f)) = Len(s) + 1
         /\ Bytes(Append(s, f)) = Bytes(s) + f.left
<1>. DEFINE n == Len(s)
            u == Upto(s)
            a == Append(s, f)
            g == [i \in 0..(n + 1) |-> IF i <= n THEN u[i] ELSE u[n] + f.left]
<1>1. n \in Nat
  BY LenProperties
<1>2. a \in Seq(Frames) /\ Len(a) = n + 1 /\ a[n + 1] = f /\ \A i \in 1..n : a[i] = s[i]
  BY AppendProperties
<1>3. u[0] = 0 /\ \A i \in 1..n : u[i] = u[i - 1] + s[i].left
  BY Adds
<1>. HIDE DEF n, u, a
<1>4. g[0] = 0
  BY <1>1, <1>3
<1>5. ASSUME NEW i \in 1..(n + 1) PROVE g[i] = g[i - 1] + a[i].left
  <2>1. CASE i \in 1..n
    <3>1. i <= n /\ i - 1 <= n /\ i \in 0..(n + 1) /\ i - 1 \in 0..(n + 1)
      BY <1>1, <2>1
    <3>2. g[i] = u[i] /\ g[i - 1] = u[i - 1]
      BY <3>1
    <3>. HIDE DEF g
    <3>. QED BY <1>2, <1>3, <2>1, <3>2
  <2>2. CASE i = n + 1
    <3>1. ~(n + 1 <= n) /\ n + 1 \in 0..(n + 1) /\ n <= n /\ n \in 0..(n + 1) /\ n + 1 - 1 = n
      BY <1>1
    <3>2. g[n + 1] = u[n] + f.left /\ g[n] = u[n]
      BY <3>1
    <3>. HIDE DEF g
    <3>. QED BY <1>2, <2>2, <3>1, <3>2
  <2>3. i \in 1..n \/ i = n + 1
    BY <1>1
  <2>. HIDE DEF g
  <2>. QED BY <2>1, <2>2, <2>3
<1>6. g[n + 1] = u[n] + f.left
  BY <1>1
<1>. HIDE DEF g
<1>7. \A i \in 0..(n + 1) : Upto(a)[i] = g[i]
  BY <1>2, <1>4, <1>5, SumUnique
<1>8. n + 1 \in 0..(n + 1)
  BY <1>1
<1>. QED BY <1>2, <1>6, <1>7, <1>8 DEF Bytes, n, u, a

\* the oldest frame is dropped
LEMMA TailBytes ==
  ASSUME NEW s \in Seq(Frames), s # <<>>
  PROVE  /\ Tail(s) \in Seq(Frames) /\ Dropped(s, Tail(s), 1)
         /\ Head(s).left \in Nat /\ Bytes(s) >= Head(s).left
         /\ Bytes(Tail(s)) = Bytes(s) - Head(s).left
<1>. DEFINE n == Len(s)
            u == Upto(s)
            a == Tail(s)
            x == Head(s).left
            g == [i \in 0..(n - 1) |-> u[i + 1] - u[1]]
<1>1. n \in Nat \ {0}
  BY LenProperties, EmptySeq
<1>2. a \in Seq(Frames) /\ Len(a) = n - 1 /\ Head(s) = s[1] /\ \A i \in 1..(n - 1) : a[i] = s[i + 1]
  BY HeadTailProperties
<1>3. u[0] = 0 /\ \A i \in 1..n : u[i] = u[i - 1] + s[i].left
  BY Adds
<1>4. \A i \in 0..n : u[i] \in Nat
  BY Grows
<1>5. \A i, j \in 0..n : i <= j => u[i] <= u[j]
  BY Grows
<1>6. s[1].left \in Nat
  BY <1>1, Lefts
<1>. HIDE DEF n, u, a
<1>7. x \in Nat /\ u[1] = x /\ u[n] \in Nat /\ u[n] >= x
  <2>1. 1 \in 1..n /\ 1 \in 0..n /\ n \in 0..n /\ 1 <= n
    BY <1>1
  <2>2. u[1] = s[1].left
    <3>1. u[1] = u[1 - 1] + s[1].left
      BY <1>3, <2>1
    <3>. QED BY <1>3, <1>6, <3>1
  <2>. QED BY <1>2, <1>4, <1>5, <1>6, <2>1, <2>2
<1>8. g[0] = 0
  <2>1. 0 \in 0..(n - 1) /\ 0 + 1 = 1
    BY <1>1
  <2>2. u[1] - u[1] = 0
    BY <1>7
  <2>. QED BY <2>1, <2>2
<1>9. ASSUME NEW i \in 1..(n - 1) PROVE g[i] = g[i - 1] + a[i].left
  <2>1. i \in 0..(n - 1) /\ i - 1 \in 0..(n - 1) /\ i - 1 + 1 = i /\ i + 1 \in 1..n
        /\ i \in 0..n /\ i + 1 - 1 = i /\ i + 1 \in 0..n
    BY <1>1
  <2>2. g[i] = u[i + 1] - u[1] /\ g[i - 1] = u[i] - u[1]
    BY <2>1
  <2>3. u[i + 1] = u[i] + s[i + 1].left
    BY <1>3, <2>1
  <2>4. u[i] \in Nat /\ u[1] \in Nat /\ u[i + 1] \in Nat /\ s[i + 1].left \in Nat
    <3>1. s[i + 1].left \in Nat
      BY <2>1, Lefts DEF n
    <3>. QED BY <1>4, <1>7, <2>1, <3>1
  <2>5. g[i] = g[i - 1] + s[i + 1].left
    <3>. HIDE DEF g
    <3>. QED BY <2>2, <2>3, <2>4
  <2>. HIDE DEF g
  <2>. QED BY <1>2, <2>5
<1>10. g[n - 1] = u[n] - u[1]
  <2>1. n - 1 \in 0..(n - 1) /\ n - 1 + 1 = n
    BY <1>1
  <2>. QED BY <2>1
<1>. HIDE DEF g
<1>11. \A i \in 0..(n - 1) : Upto(a)[i] = g[i]
  BY <1>2, <1>8, <1>9, SumUnique
<1>12. n - 1 \in 0..(n - 1) /\ 1 \in 0..n
  BY <1>1
<1>13. Dropped(s, a, 1)
  BY <1>2, <1>12 DEF Dropped, n
<1>14. Bytes(a) = u[n] - x /\ Bytes(s) = u[n]
  BY <1>2, <1>7, <1>10, <1>11, <1>12 DEF Bytes, n, u
<1>. QED BY <1>2, <1>7, <1>13, <1>14 DEF a

\* what a read takes, in sums
LEMMA Taking ==
  ASSUME NEW s \in Seq(Frames), NEW z \in Nat, NEW i \in 1..Len(s)
  PROVE  LET a == Upto(s)[i - 1]
             b == Upto(s)[i]
         IN /\ a \in Nat /\ b \in Nat /\ a <= b /\ b = a + s[i].left
            /\ TakenFrom(s, i, z) = LeastOf(z, b) - LeastOf(z, a)
            /\ TakenFrom(s, i, z) \in 0..s[i].left
            /\ UsedUp(s, i, z) <=> a < z /\ b <= z
            /\ TakenFrom(s, i, z) > 0 => a < z
<1>. DEFINE a == Upto(s)[i - 1]
            b == Upto(s)[i]
            x == s[i].left
            t == TakenFrom(s, i, z)
<1>1. Len(s) \in Nat /\ x \in Nat
  BY Lefts
<1>2. b = a + x
  BY Adds
<1>3. a \in Nat
  <2>1. i - 1 \in 0..Len(s)
    BY <1>1
  <2>. QED BY <2>1, Grows
<1>4. t = IF a >= z THEN 0 ELSE LeastOf(x, z - a)
  BY DEF TakenFrom, Before
<1>5. UsedUp(s, i, z) <=> a < z /\ t = x
  BY DEF UsedUp, Before
<1>. HIDE DEF a, b, x, t
<1>6. b \in Nat /\ a <= b
  BY <1>1, <1>2, <1>3
<1>7. CASE a >= z
  <2>1. t = 0 /\ LeastOf(z, b) = z /\ LeastOf(z, a) = z
    BY <1>2, <1>3, <1>4, <1>6, <1>7 DEF LeastOf
  <2>. QED BY <1>1, <1>2, <1>3, <1>5, <1>6, <1>7, <2>1 DEF a, b, x, t
<1>8. CASE a < z /\ b <= z
  <2>1. t = x /\ LeastOf(z, b) = b /\ LeastOf(z, a) = a
    BY <1>1, <1>2, <1>3, <1>4, <1>6, <1>8 DEF LeastOf
  <2>2. x = b - a /\ x \in 0..x
    BY <1>1, <1>2, <1>3
  <2>. QED BY <1>2, <1>3, <1>5, <1>6, <1>8, <2>1, <2>2 DEF a, b, x, t
<1>9. CASE a < z /\ b > z
  <2>1. t = z - a /\ LeastOf(z, b) = z /\ LeastOf(z, a) = a
    BY <1>1, <1>2, <1>3, <1>4, <1>6, <1>9 DEF LeastOf
  <2>2. z - a \in 0..x /\ z - a # x /\ ~(b <= z)
    BY <1>1, <1>2, <1>3, <1>6, <1>9
  <2>. QED BY <1>2, <1>3, <1>5, <1>6, <1>9, <2>1, <2>2 DEF a, b, x, t
<1>10. a >= z \/ (a < z /\ b <= z) \/ (a < z /\ b > z)
  BY <1>3, <1>6
<1>. QED BY <1>7, <1>8, <1>9, <1>10

\* The frames that are used up come first.
LEMMA UsedFirst ==
  ASSUME NEW s \in Seq(Frames), NEW z \in Nat,
         NEW k, k = Cardinality({i \in DOMAIN s : UsedUp(s, i, z)})
  PROVE  /\ k \in 0..Len(s) /\ Upto(s)[k] <= z
         /\ \A i \in 1..Len(s) : UsedUp(s, i, z) <=> i <= k
<1>. DEFINE n == Len(s)
            u == Upto(s)
            I == {i \in 1..n : UsedUp(s, i, z)}
<1>1. n \in Nat /\ DOMAIN s = 1..n
  BY LenProperties
<1>2. \A i \in 1..n : UsedUp(s, i, z) <=> u[i - 1] < z /\ u[i] <= z
  BY Taking
<1>3. \A i, j \in 0..n : i <= j => u[i] <= u[j]
  BY Grows
<1>4. \A i \in 0..n : u[i] \in Nat
  BY Grows
<1>5. u[0] = 0
  BY Adds
<1>6. k = Cardinality(I)
  BY <1>1
<1>. HIDE DEF n, u
<1>7. \E m \in 0..n : I = 1..m
  <2>1. CASE I = {}
    <3>1. 0 \in 0..n /\ 1..0 = {}
      BY <1>1
    <3>. QED BY <2>1, <3>1
  <2>2. CASE I # {}
    <3>. DEFINE m == Max(I)
    <3>1. m \in I /\ \A y \in I : m >= y
      <4>1. I \subseteq 0..n
        OBVIOUS
      <4>. HIDE DEF I
      <4>. QED BY <1>1, <2>2, <4>1, LastPosition
    <3>. HIDE DEF m
    <3>2. m \in 1..n /\ m \in 0..n /\ UsedUp(s, m, z)
      BY <3>1
    <3>3. u[m - 1] < z /\ u[m] <= z
      BY <1>2, <3>2
    <3>4. ASSUME NEW j \in 1..m PROVE j \in I
      <4>1. j \in 1..n /\ j - 1 \in 0..n /\ j \in 0..n /\ m - 1 \in 0..n /\ j - 1 <= m - 1 /\ j <= m
        BY <1>1, <3>2
      <4>2. u[j - 1] <= u[m - 1] /\ u[j] <= u[m]
        BY <1>3, <3>2, <4>1
      <4>3. u[j - 1] \in Nat /\ u[j] \in Nat /\ u[m - 1] \in Nat /\ u[m] \in Nat
        BY <1>4, <3>2, <4>1
      <4>4. u[j - 1] < z /\ u[j] <= z
        BY <3>3, <4>2, <4>3
      <4>. QED BY <1>2, <4>1, <4>4
    <3>5. ASSUME NEW j \in I PROVE j \in 1..m
      <4>1. j \in 1..n /\ m >= j
        BY <3>1
      <4>. QED BY <1>1, <3>2, <4>1
    <3>. HIDE DEF I
    <3>6. I = 1..m
      BY <3>4, <3>5
    <3>. QED BY <3>2, <3>6
  <2>. QED BY <2>1, <2>2
<1>8. PICK m \in 0..n : I = 1..m
  BY <1>7
<1>9. k = m
  <2>1. Cardinality(1..m) = IF 1 > m THEN 0 ELSE m - 1 + 1
    BY <1>1, FS_Interval
  <2>2. m \in Nat /\ (1 > m => m = 0)
    BY <1>1
  <2>3. k = Cardinality(1..m)
    BY <1>6, <1>8
  <2>. HIDE DEF I
  <2>. QED BY <2>1, <2>2, <2>3
<1>10. \A i \in 1..n : UsedUp(s, i, z) <=> i <= m
  <2>. SUFFICES ASSUME NEW i \in 1..n PROVE UsedUp(s, i, z) <=> i <= m
    OBVIOUS
  <2>1. UsedUp(s, i, z) <=> i \in 1..m
    BY <1>8
  <2>2. i \in 1..m <=> i <= m
    BY <1>1, <1>8
  <2>. QED BY <2>1, <2>2
<1>11. u[m] <= z
  <2>1. CASE m = 0
    BY <1>5, <2>1
  <2>2. CASE m # 0
    <3>1. m \in 1..n /\ m <= m
      BY <1>1, <1>8, <2>2
    <3>2. UsedUp(s, m, z)
      BY <1>10, <3>1
    <3>. QED BY <1>2, <3>1, <3>2
  <2>. QED BY <2>1, <2>2
<1>. QED BY <1>8, <1>9, <1>10, <1>11 DEF n, u

\* a read leaves the frames that are not used up, less what it takes of the first of them
LEMMA RemainingBytes ==
  ASSUME NEW s \in Seq(Frames), NEW z \in Nat
  PROVE  /\ Remaining(s, z) \in Seq(Frames)
         /\ Bytes(Remaining(s, z)) = Bytes(s) - LeastOf(z, Bytes(s))
         /\ Bytes(s) \in Nat
         /\ \E k \in 0..Len(s) :
              /\ Dropped(Nums(s), Nums(Remaining(s, z)), k)
              /\ \A i \in 1..Len(s) : TakenFrom(s, i, z) > 0 => i <= k + 1
<1>. DEFINE n == Len(s)
            u == Upto(s)
            k == Cardinality({i \in DOMAIN s : UsedUp(s, i, z)})
            r == Remaining(s, z)
            v(i) == u[i] - LeastOf(z, u[i])
            g == [i \in 0..(n - k) |-> v(i + k)]
<1>1. n \in Nat /\ \A i \in 1..n : s[i] \in Frames /\ s[i].left \in Nat /\ s[i].num \in Nat
  BY Lefts
<1>2. k \in 0..n /\ u[k] <= z /\ \A i \in 1..n : UsedUp(s, i, z) <=> i <= k
  BY UsedFirst
<1>3. r = [i \in 1..(n - k) |-> [s[i + k] EXCEPT !.left = @ - TakenFrom(s, i + k, z)]]
  BY DEF Remaining
<1>4. \A i \in 0..n : u[i] \in Nat
  BY Grows
<1>5. \A i \in 1..n :
         /\ u[i] = u[i - 1] + s[i].left
         /\ TakenFrom(s, i, z) = LeastOf(z, u[i]) - LeastOf(z, u[i - 1])
         /\ TakenFrom(s, i, z) \in 0..s[i].left
         /\ UsedUp(s, i, z) <=> u[i - 1] < z /\ u[i] <= z
         /\ TakenFrom(s, i, z) > 0 => u[i - 1] < z
  BY Taking
<1>6. \A i, j \in 0..n : i <= j => u[i] <= u[j]
  BY Grows
<1>7. Bytes(s) = u[n]
  BY DEF Bytes
<1>. HIDE DEF n, u, k, r
<1>8. ASSUME NEW i \in 1..(n - k)
      PROVE  i + k \in 1..n /\ i + k - 1 \in 0..n /\ i + k \in 0..n /\ i - 1 \in 0..(n - k)
             /\ i \in 0..(n - k) /\ i - 1 + k = i + k - 1
  BY <1>1, <1>2
<1>9. ASSUME NEW i \in 1..(n - k)
      PROVE  /\ r[i] \in Frames /\ r[i].num = s[i + k].num
             /\ r[i].left = s[i + k].left - TakenFrom(s, i + k, z)
  <2>1. r[i] = [s[i + k] EXCEPT !.left = @ - TakenFrom(s, i + k, z)]
    BY <1>3
  <2>2. s[i + k] \in Frames /\ TakenFrom(s, i + k, z) \in 0..s[i + k].left /\ s[i + k].left \in Nat
    BY <1>1, <1>5, <1>8
  <2>3. s[i + k].left - TakenFrom(s, i + k, z) \in Nat
    BY <2>2
  <2>. QED BY <2>1, <2>2, <2>3 DEF Frames
<1>10. n - k \in Nat
  BY <1>1, <1>2
<1>11. r \in Seq(Frames) /\ Len(r) = n - k
  <2>1. r \in [1..(n - k) -> Frames]
    BY <1>3, <1>9
  <2>2. r \in Seq(Frames)
    BY <1>10, <2>1, IsASeq
  <2>. QED BY <1>10, <2>1, <2>2, LenProperties
<1>12. g[0] = 0
  <2>1. 0 \in 0..(n - k) /\ 0 + k = k
    BY <1>2, <1>10
  <2>2. g[0] = u[k] - LeastOf(z, u[k])
    BY <2>1
  <2>. HIDE DEF g
  <2>. QED BY <1>2, <1>4, <2>2 DEF LeastOf
<1>13. ASSUME NEW i \in 1..(n - k) PROVE g[i] = g[i - 1] + r[i].left
  <2>0. PICK j \in 1..n : j = i + k /\ j \in 0..n /\ j - 1 \in 0..n /\ i - 1 + k = j - 1
    <3>1. i + k \in 1..n
      BY <1>8
    <3>2. i \in Nat /\ k \in Nat /\ n \in Nat
      BY <1>1, <1>2
    <3>3. i + k \in 0..n /\ (i + k) - 1 \in 0..n /\ i - 1 + k = (i + k) - 1
      BY <3>1, <3>2
    <3>. QED BY <3>1, <3>3
  <2>. DEFINE x == u[j - 1]
              y == u[j]
              t == TakenFrom(s, j, z)
              d == s[j].left
              p == LeastOf(z, x)
              q == LeastOf(z, y)
  <2>1. g[i] = y - q /\ g[i - 1] = x - p
    BY <1>8, <2>0
  <2>2. x \in Nat /\ y \in Nat /\ d \in Nat /\ y = x + d /\ t = q - p
    BY <1>1, <1>4, <1>5, <2>0
  <2>3. r[i].left = d - t
    BY <1>9, <2>0
  <2>. HIDE DEF g, x, y, t, d
  <2>4. p \in Nat /\ q \in Nat
    BY <2>2 DEF LeastOf
  <2>. HIDE DEF p, q
  <2>. QED BY <2>1, <2>2, <2>3, <2>4
<1>14. g[n - k] = u[n] - LeastOf(z, u[n])
  <2>1. n - k \in 0..(n - k) /\ n - k + k = n
    BY <1>1, <1>2
  <2>. QED BY <2>1
<1>. HIDE DEF g
<1>15. Upto(r)[n - k] = g[n - k]
  <2>1. n - k \in 0..(n - k)
    BY <1>10
  <2>. QED BY <1>11, <1>12, <1>13, <2>1, SumUnique
<1>16. Bytes(r) = u[n] - LeastOf(z, u[n])
  BY <1>11, <1>14, <1>15 DEF Bytes
<1>17. Dropped(Nums(s), Nums(r), k)
  <2>1. Len(Nums(s)) = n /\ \A i \in 1..n : Nums(s)[i] = s[i].num
    BY NumsOk DEF n
  <2>2. Len(Nums(r)) = n - k /\ \A i \in 1..(n - k) : Nums(r)[i] = r[i].num
    BY <1>11, NumsOk
  <2>3. \A i \in 1..(n - k) : Nums(r)[i] = Nums(s)[i + k]
    BY <1>8, <1>9, <2>1, <2>2
  <2>. QED BY <1>2, <2>1, <2>2, <2>3 DEF Dropped
<1>18. ASSUME NEW i \in 1..n, TakenFrom(s, i, z) > 0 PROVE i <= k + 1
  <2>1. SUFFICES ASSUME i > k + 1 PROVE FALSE
    BY <1>1, <1>2
  <2>2. i - 1 \in 1..n /\ i - 1 > k /\ i - 1 \in 0..n /\ i - 1 - 1 \in 0..n /\ i - 1 - 1 <= i - 1
        /\ ~(i - 1 <= k)
    BY <1>1, <1>2, <2>1
  <2>3. u[i - 1] < z
    BY <1>5, <1>18
  <2>4. u[i - 1 - 1] <= u[i - 1]
    BY <1>6, <2>2
  <2>5. u[i - 1 - 1] \in Nat /\ u[i - 1] \in Nat
    BY <1>4, <2>2
  <2>6. u[i - 1 - 1] < z /\ u[i - 1] <= z
    BY <2>3, <2>4, <2>5
  <2>7. UsedUp(s, i - 1, z)
    BY <1>5, <2>2, <2>6
  <2>. QED BY <1>2, <2>2, <2>7
<1>19. u[n] \in Nat
  <2>1. n \in 0..n
    BY <1>1
  <2>. QED BY <1>4, <2>1
<1>. QED BY <1>2, <1>7, <1>11, <1>16, <1>17, <1>18, <1>19 DEF n, r

\* The count of an audio buffer is exact.
Exact(a) == a \in Aubufs /\ a.cur = Bytes(a.afl)

LEMMA AllocatedExact == Exact(AllocatedAubuf) /\ AllocatedAubuf.afl = <<>>
<1>1. <<>> \in Seq(Frames) /\ Len(<<>>) = 0
  BY EmptySeq
<1>2. Bytes(<<>>) = 0
  <2>1. Upto(<<>>)[0] = 0
    BY <1>1, Adds
  <2>. QED BY <1>1, <2>1 DEF Bytes
<1>. QED BY <1>1, <1>2 DEF Exact, AllocatedAubuf, Aubufs, Frames

LEMMA AppendedExact ==
  ASSUME NEW a, Exact(a), NEW f \in Frames
  PROVE  /\ Exact(Appended(a, f))
         /\ \/ Appended(a, f).afl = Append(a.afl, f)
            \/ /\ Append(a.afl, f) # <<>>
               /\ Appended(a, f).afl = Tail(Append(a.afl, f))
<1>. DEFINE l == Append(a.afl, f)
            b == [a EXCEPT !.afl = Append(@, f), !.cur = @ + f.left]
<1>1. a \in Aubufs /\ a.afl \in Seq(Frames) /\ a.cur \in Nat /\ a.cur = Bytes(a.afl)
      /\ f.left \in Nat
  BY DEF Exact, Aubufs, Frames
<1>2. l \in Seq(Frames) /\ Bytes(l) = Bytes(a.afl) + f.left
  BY <1>1, AppendBytes
<1>3. a.cur + f.left \in Nat
  BY <1>1
<1>4. b \in Aubufs /\ b.afl = l /\ b.cur = a.cur + f.left
  BY <1>1, <1>2, <1>3 DEF Aubufs, Frames
<1>5. Appended(a, f) = DropOldest(b)
  BY DEF Appended
<1>. HIDE DEF b
<1>6. CASE Overrun(b)
  <2>1. DropOldest(b) = [b EXCEPT !.afl = Tail(@), !.cur = @ - Head(b.afl).left]
    BY <1>6 DEF DropOldest
  <2>2. l # <<>>
    BY <1>4, <1>6 DEF Overrun
  <2>3. /\ Tail(l) \in Seq(Frames) /\ Head(l).left \in Nat /\ Bytes(l) >= Head(l).left
        /\ Bytes(Tail(l)) = Bytes(l) - Head(l).left
    BY <1>2, <2>2, TailBytes
  <2>4. b.cur = Bytes(l) /\ b.cur - Head(l).left \in Nat
    BY <1>1, <1>2, <1>3, <1>4, <2>3
  <2>. HIDE DEF l
  <2>5. DropOldest(b) \in Aubufs /\ DropOldest(b).afl = Tail(l)
        /\ DropOldest(b).cur = b.cur - Head(l).left
    BY <1>4, <2>1, <2>3, <2>4 DEF Aubufs, Frames
  <2>. QED BY <1>5, <2>2, <2>3, <2>4, <2>5 DEF Exact, l
<1>7. CASE ~Overrun(b)
  <2>1. DropOldest(b) = b
    BY <1>7 DEF DropOldest
  <2>. QED BY <1>1, <1>2, <1>4, <1>5, <2>1 DEF Exact
<1>. QED BY <1>6, <1>7

LEMMA ReadExact ==
  ASSUME NEW a, Exact(a), NEW z \in Nat
  PROVE  /\ Exact(AfterRead(a, z))
         /\ \E k \in 0..Len(a.afl) :
              /\ Dropped(Nums(a.afl), Nums(AfterRead(a, z).afl), k)
              /\ \/ \A h : LastHeard(a, z, h) = h
                 \/ \E m \in 1..Len(a.afl) :
                       m <= k + 1 /\ \A h : LastHeard(a, z, h) = Nums(a.afl)[m]
<1>. DEFINE s == a.afl
            n == Len(s)
            r == AfterRead(a, z)
<1>1. a \in Aubufs /\ s \in Seq(Frames) /\ a.cur \in Nat /\ a.cur = Bytes(s)
  BY DEF Exact, Aubufs, Frames
<1>2. n \in Nat
  BY <1>1, LenProperties
<1>3. CASE Starved(a, z)
  <2>1. r = [a EXCEPT !.filling = TRUE]
    BY <1>3 DEF AfterRead
  <2>2. r \in Aubufs /\ r.afl = s /\ r.cur = a.cur
    BY <1>1, <2>1 DEF Aubufs
  <2>3. \A h : LastHeard(a, z, h) = h
    BY <1>3 DEF LastHeard
  <2>4. Len(Nums(s)) = n
    BY <1>1, NumsOk
  <2>. HIDE DEF s, n, r
  <2>5. 0 \in 0..n /\ n = n - 0 /\ \A i \in 1..n : i + 0 = i
    BY <1>2
  <2>6. Dropped(Nums(s), Nums(r.afl), 0)
    BY <2>2, <2>4, <2>5 DEF Dropped
  <2>. QED BY <1>1, <2>2, <2>3, <2>5, <2>6 DEF Exact, s, n, r
<1>4. CASE ~Starved(a, z)
  <2>. DEFINE t == Remaining(s, z)
  <2>1. r = [afl |-> t, cur |-> a.cur - LeastOf(z, a.cur), filling |-> FALSE]
    BY <1>4 DEF AfterRead
  <2>2. /\ t \in Seq(Frames) /\ Bytes(t) = Bytes(s) - LeastOf(z, Bytes(s))
        /\ \E k \in 0..n : /\ Dropped(Nums(s), Nums(t), k)
                           /\ \A i \in 1..n : TakenFrom(s, i, z) > 0 => i <= k + 1
    BY <1>1, RemainingBytes
  <2>3. PICK k \in 0..n : /\ Dropped(Nums(s), Nums(t), k)
                          /\ \A i \in 1..n : TakenFrom(s, i, z) > 0 => i <= k + 1
    BY <2>2
  <2>. HIDE DEF s, t, n
  <2>4. a.cur - LeastOf(z, a.cur) \in Nat
    BY <1>1 DEF LeastOf
  <2>5. r \in Aubufs /\ r.afl = t /\ r.cur = a.cur - LeastOf(z, a.cur)
    BY <2>1, <2>2, <2>4 DEF Aubufs, Frames
  <2>6. Exact(r)
    BY <1>1, <2>2, <2>5 DEF Exact
  <2>7. \/ \A h : LastHeard(a, z, h) = h
        \/ \E m \in 1..n : m <= k + 1 /\ \A h : LastHeard(a, z, h) = Nums(s)[m]
    <3>1. CASE Reached(s, z) = {}
      BY <3>1 DEF LastHeard, s
    <3>2. CASE Reached(s, z) # {}
      <4>. DEFINE I == Reached(s, z)
                  m == Max(I)
      <4>1. DOMAIN s = 1..n
        BY <1>1, LenProperties DEF n
      <4>2. I = {i \in 1..n : TakenFrom(s, i, z) > 0}
        BY <4>1 DEF Reached
      <4>3. m \in I
        <5>1. I \subseteq 0..n
          BY <4>2
        <5>. HIDE DEF I
        <5>. QED BY <1>2, <3>2, <5>1, LastPosition DEF I
      <4>4. m \in 1..n /\ m <= k + 1
        BY <2>3, <4>2, <4>3
      <4>5. \A h : LastHeard(a, z, h) = s[m].num
        BY <1>4, <3>2 DEF LastHeard, s
      <4>6. Nums(s)[m] = s[m].num
        BY <1>1, <4>4, NumsOk DEF n
      <4>. HIDE DEF m
      <4>. QED BY <4>4, <4>5, <4>6
    <3>. QED BY <3>1, <3>2
  <2>. HIDE DEF r
  <2>. QED BY <2>3, <2>5, <2>6, <2>7 DEF s, n, r
<1>. QED BY <1>3, <1>4

-----------------------------------------------------------------------------
(***************************************************************************)
(* Lemmas about sequences of packets and gaps that are in order.           *)
(***************************************************************************)
InOrder(l, lo, hi) ==
  /\ \A i \in 1..Len(l) : l[i] # NoFrame => lo <= l[i] /\ l[i] <= hi
  /\ \A i, j \in 1..Len(l) : l[i] # NoFrame /\ l[j] # NoFrame /\ i < j => l[i] < l[j]

LEMMA DropKeeps ==
  ASSUME NEW l \in Seq(Nat), NEW m \in Seq(Nat), NEW k, Dropped(l, m, k),
         NEW lo \in Nat, NEW hi \in Nat, InOrder(l, lo, hi)
  PROVE  InOrder(m, lo, hi)
<1>. DEFINE n == Len(l)
            r == Len(m)
<1>1. n \in Nat /\ k \in 0..n /\ r = n - k /\ \A i \in 1..r : m[i] = l[i + k]
  BY LenProperties DEF Dropped
<1>2. /\ \A i \in 1..n : l[i] # NoFrame => lo <= l[i] /\ l[i] <= hi
      /\ \A i, j \in 1..n : l[i] # NoFrame /\ l[j] # NoFrame /\ i < j => l[i] < l[j]
  BY DEF InOrder
<1>. HIDE DEF n, r
<1>3. ASSUME NEW i \in 1..r
      PROVE i + k \in 1..n /\ m[i] = l[i + k]
  BY <1>1
<1>4. \A i \in 1..r : m[i] # NoFrame => lo <= m[i] /\ m[i] <= hi
  BY <1>2, <1>3
<1>5. ASSUME NEW i \in 1..r, NEW j \in 1..r, m[i] # NoFrame, m[j] # NoFrame, i < j
      PROVE  m[i] < m[j]
  <2>1. i + k < j + k
    BY <1>1, <1>5
  <2>. QED BY <1>2, <1>3, <1>5, <2>1
<1>. QED BY <1>4, <1>5 DEF InOrder, r

\* what is heard is as old as the oldest of what is not, at most
LEMMA HeardKeeps ==
  ASSUME NEW l \in Seq(Nat), NEW m \in Seq(Nat), NEW k, Dropped(l, m, k),
         NEW lo \in Nat, NEW hi \in Nat, InOrder(l, lo, hi),
         NEW x \in 1..Len(l), x <= k + 1
  PROVE  InOrder(m, l[x], hi) /\ l[x] \in Nat /\ l[x] <= hi
<1>. DEFINE n == Len(l)
            r == Len(m)
<1>1. n \in Nat /\ k \in 0..n /\ r = n - k /\ \A i \in 1..r : m[i] = l[i + k]
  BY LenProperties DEF Dropped
<1>2. /\ \A i \in 1..n : l[i] # NoFrame => lo <= l[i] /\ l[i] <= hi
      /\ \A i, j \in 1..n : l[i] # NoFrame /\ l[j] # NoFrame /\ i < j => l[i] < l[j]
  BY DEF InOrder
<1>3. x \in 1..n /\ \A i \in 1..n : l[i] \in Nat
  BY ElementOfSeq
<1>4. InOrder(m, lo, hi)
  BY DropKeeps
<1>5. l[x] \in Nat /\ l[x] <= hi
  <2>1. CASE l[x] = NoFrame
    BY <2>1 DEF NoFrame
  <2>. QED BY <1>2, <1>3, <2>1
<1>. HIDE DEF n, r
<1>6. ASSUME NEW i \in 1..r, m[i] # NoFrame PROVE l[x] <= m[i]
  <2>1. i + k \in 1..n /\ m[i] = l[i + k] /\ (x = i + k \/ x < i + k)
    BY <1>1, <1>3
  <2>2. CASE l[x] = NoFrame
    <3>1. l[i + k] \in Nat
      BY <1>3, <2>1
    <3>. QED BY <2>1, <2>2, <3>1 DEF NoFrame
  <2>3. CASE l[x] # NoFrame /\ x < i + k
    <3>1. l[x] < l[i + k] /\ l[i + k] \in Nat
      <4>1. l[i + k] # NoFrame
        BY <1>6, <2>1
      <4>. QED BY <1>2, <1>3, <2>1, <2>3, <4>1
    <3>. QED BY <1>5, <2>1, <3>1
  <2>4. CASE x = i + k
    BY <1>5, <2>1, <2>4
  <2>. QED BY <2>1, <2>2, <2>3, <2>4
<1>7. /\ \A i \in 1..r : m[i] # NoFrame => m[i] <= hi
      /\ \A i, j \in 1..r : m[i] # NoFrame /\ m[j] # NoFrame /\ i < j => m[i] < m[j]
  BY <1>4 DEF InOrder, r
<1>. QED BY <1>5, <1>6, <1>7 DEF InOrder, r

\* what follows is younger
LEMMA JoinKeeps ==
  ASSUME NEW l \in Seq(Nat), NEW m \in Seq(Nat), NEW lo \in Nat, NEW mid \in Nat, NEW hi \in Nat,
         lo <= mid, mid <= hi, InOrder(l, lo, mid), InOrder(m, mid + 1, hi)
  PROVE  InOrder(l \o m, lo, hi) /\ l \o m \in Seq(Nat)
<1>. DEFINE a == l \o m
            n == Len(l)
            r == Len(m)
<1>1. /\ n \in Nat /\ r \in Nat /\ a \in Seq(Nat) /\ Len(a) = n + r
      /\ \A i \in 1..(n + r) : a[i] = IF i <= n THEN l[i] ELSE m[i - n]
      /\ \A i \in 1..n : l[i] \in Nat
      /\ \A i \in 1..r : m[i] \in Nat
  BY LenProperties, ConcatProperties, ElementOfSeq
<1>2. /\ \A i \in 1..n : l[i] # NoFrame => lo <= l[i] /\ l[i] <= mid
      /\ \A i, j \in 1..n : l[i] # NoFrame /\ l[j] # NoFrame /\ i < j => l[i] < l[j]
  BY DEF InOrder
<1>3. /\ \A i \in 1..r : m[i] # NoFrame => mid + 1 <= m[i] /\ m[i] <= hi
      /\ \A i, j \in 1..r : m[i] # NoFrame /\ m[j] # NoFrame /\ i < j => m[i] < m[j]
  BY DEF InOrder
<1>. HIDE DEF n, r, a
<1>4. ASSUME NEW i \in 1..(n + r), a[i] # NoFrame
      PROVE  \/ i \in 1..n /\ a[i] = l[i] /\ a[i] \in Nat /\ lo <= a[i] /\ a[i] <= mid
             \/ i > n /\ i - n \in 1..r /\ a[i] = m[i - n] /\ a[i] \in Nat
                /\ mid + 1 <= a[i] /\ a[i] <= hi
  <2>1. CASE i <= n
    <3>1. i \in 1..n /\ a[i] = l[i]
      BY <1>1, <2>1
    <3>. QED BY <1>1, <1>2, <1>4, <3>1
  <2>2. CASE ~(i <= n)
    <3>1. i > n /\ i - n \in 1..r /\ a[i] = m[i - n]
      BY <1>1, <2>2
    <3>. QED BY <1>1, <1>3, <1>4, <3>1
  <2>. QED BY <2>1, <2>2
<1>5. \A i \in 1..(n + r) : a[i] # NoFrame => lo <= a[i] /\ a[i] <= hi
  BY <1>4
<1>6. ASSUME NEW i \in 1..(n + r), NEW j \in 1..(n + r),
             a[i] # NoFrame, a[j] # NoFrame, i < j
      PROVE  a[i] < a[j]
  <2>1. CASE j \in 1..n
    <3>1. ~(i > n)
      BY <1>1, <1>6, <2>1
    <3>2. ~(j > n)
      BY <1>1, <2>1
    <3>3. i \in 1..n /\ a[i] = l[i] /\ a[j] = l[j]
      BY <1>4, <1>6, <3>1, <3>2
    <3>. QED BY <1>2, <1>6, <2>1, <3>3
  <2>2. CASE i \in 1..n /\ j > n
    <3>1. ~(i > n) /\ j \notin 1..n
      BY <1>1, <2>2
    <3>2. a[i] \in Nat /\ a[i] <= mid /\ a[j] \in Nat /\ mid + 1 <= a[j]
      BY <1>4, <1>6, <3>1
    <3>. QED BY <3>2
  <2>3. CASE i > n /\ j > n
    <3>1. i \notin 1..n /\ j \notin 1..n /\ i - n < j - n
      BY <1>1, <1>6, <2>3
    <3>2. i - n \in 1..r /\ a[i] = m[i - n] /\ j - n \in 1..r /\ a[j] = m[j - n]
      BY <1>4, <1>6, <3>1
    <3>. QED BY <1>3, <1>6, <3>1, <3>2
  <2>4. i \in 1..n \/ i > n
    BY <1>1
  <2>5. j \in 1..n \/ j > n
    BY <1>1
  <2>. QED BY <1>1, <1>6, <2>1, <2>2, <2>3, <2>4, <2>5
<1>. QED BY <1>1, <1>5, <1>6 DEF InOrder, a

LEMMA EmptyInOrder ==
  ASSUME NEW lo, NEW hi
  PROVE  InOrder(<<>>, lo, hi) /\ <<>> \in Seq(Nat)
<1>1. <<>> \in Seq(Nat) /\ Len(<<>>) = 0
  BY EmptySeq
<1>2. 1..Len(<<>>) = {}
  BY <1>1
<1>. QED BY <1>1, <1>2 DEF InOrder

\* dropping from the front is dropping from what comes first
LEMMA DropConcat ==
  ASSUME NEW l \in Seq(Nat), NEW m \in Seq(Nat), NEW t \in Seq(Nat), NEW k, Dropped(l, m, k)
  PROVE  Dropped(l \o t, m \o t, k)
<1>. DEFINE n == Len(l)
            r == Len(t)
            a == l \o t
            b == m \o t
<1>1. n \in Nat /\ k \in 0..n /\ Len(m) = n - k /\ \A i \in 1..Len(m) : m[i] = l[i + k]
  BY LenProperties DEF Dropped
<1>2. /\ r \in Nat /\ Len(a) = n + r
      /\ \A i \in 1..(n + r) : a[i] = IF i <= n THEN l[i] ELSE t[i - n]
  BY LenProperties, ConcatProperties
<1>3. /\ Len(b) = Len(m) + r
      /\ \A i \in 1..(Len(m) + r) : b[i] = IF i <= Len(m) THEN m[i] ELSE t[i - Len(m)]
  BY ConcatProperties
<1>. HIDE DEF n, r, a, b
<1>4. k \in 0..(n + r) /\ Len(b) = (n + r) - k
  BY <1>1, <1>2, <1>3
<1>5. ASSUME NEW i \in 1..((n + r) - k) PROVE b[i] = a[i + k]
  <2>1. i \in 1..(Len(m) + r) /\ i + k \in 1..(n + r) /\ (i <= Len(m) <=> i + k <= n)
    BY <1>1, <1>2
  <2>2. CASE i <= Len(m)
    <3>1. i \in 1..Len(m)
      BY <1>1, <2>2
    <3>. QED BY <1>1, <1>2, <1>3, <2>1, <2>2, <3>1
  <2>3. CASE ~(i <= Len(m))
    <3>1. i - Len(m) = (i + k) - n
      BY <1>1
    <3>2. b[i] = t[i - Len(m)] /\ a[i + k] = t[(i + k) - n]
      BY <1>2, <1>3, <2>1, <2>3
    <3>. QED BY <3>1, <3>2
  <2>. QED BY <2>2, <2>3
<1>. QED BY <1>2, <1>4, <1>5 DEF Dropped, a, b

LEMMA Regrouped ==
  ASSUME NEW l \in Seq(Nat), NEW m \in Seq(Nat), NEW t \in Seq(Nat)
  PROVE  (l \o m) \o t = l \o (m \o t)
<1>. DEFINE x == Len(l)
            y == Len(m)
            z == Len(t)
            c == l \o m
            d == m \o t
            a == c \o t
            b == l \o d
<1>1. x \in Nat /\ y \in Nat /\ z \in Nat
  BY LenProperties
<1>2. /\ c \in Seq(Nat) /\ Len(c) = x + y
      /\ \A i \in 1..(x + y) : c[i] = IF i <= x THEN l[i] ELSE m[i - x]
  BY ConcatProperties
<1>3. /\ d \in Seq(Nat) /\ Len(d) = y + z
      /\ \A i \in 1..(y + z) : d[i] = IF i <= y THEN m[i] ELSE t[i - y]
  BY ConcatProperties
<1>. HIDE DEF c, d
<1>. c \in Seq(Nat) /\ d \in Seq(Nat)
  BY <1>2, <1>3
<1>4. /\ a \in Seq(Nat) /\ Len(a) = Len(c) + z
      /\ \A i \in 1..(Len(c) + z) : a[i] = IF i <= Len(c) THEN c[i] ELSE t[i - Len(c)]
  BY ConcatProperties
<1>5. /\ b \in Seq(Nat) /\ Len(b) = x + Len(d)
      /\ \A i \in 1..(x + Len(d)) : b[i] = IF i <= x THEN l[i] ELSE d[i - x]
  BY ConcatProperties
<1>. HIDE DEF x, y, z, a, b
<1>6. Len(a) = Len(b) /\ Len(a) = x + y + z
  BY <1>1, <1>2, <1>3, <1>4, <1>5
<1>7. ASSUME NEW i \in 1..Len(a) PROVE a[i] = b[i]
  <2>1. i \in 1..(x + y + z) /\ i \in Nat
    BY <1>1, <1>6
  <2>2. Len(c) = x + y /\ Len(d) = y + z
    BY <1>2, <1>3
  <2>3. i \in 1..(Len(c) + z) /\ i \in 1..(x + Len(d))
    BY <1>1, <2>1, <2>2
  <2>4. /\ a[i] = IF i <= x + y THEN c[i] ELSE t[i - (x + y)]
        /\ b[i] = IF i <= x THEN l[i] ELSE d[i - x]
    <3>1. a[i] = IF i <= x + y THEN c[i] ELSE t[i - (x + y)]
      BY <1>4, <2>2, <2>3
    <3>2. b[i] = IF i <= x THEN l[i] ELSE d[i - x]
      BY <1>5, <2>3
    <3>. QED BY <3>1, <3>2
  <2>5. CASE i <= x
    <3>1. i \in 1..(x + y) /\ i <= x + y
      BY <1>1, <2>1, <2>5
    <3>. QED BY <1>2, <2>4, <2>5, <3>1
  <2>6. CASE ~(i <= x) /\ i <= x + y
    <3>1. i \in 1..(x + y) /\ i - x \in 1..(y + z) /\ i - x <= y
      BY <1>1, <2>1, <2>6
    <3>. QED BY <1>2, <1>3, <2>4, <2>6, <3>1
  <2>7. CASE ~(i <= x + y)
    <3>1. i - x \in 1..(y + z) /\ ~(i - x <= y) /\ ~(i <= x) /\ (i - x) - y = i - (x + y)
      BY <1>1, <2>1, <2>7
    <3>. QED BY <1>3, <2>4, <2>7, <3>1
  <2>. QED BY <2>5, <2>6, <2>7
<1>8. a = b
  BY <1>4, <1>5, <1>6, <1>7, SeqEqual
<1>. QED BY <1>8 DEF a, b, c, d

\* the first of what follows becomes the last of what comes before
LEMMA HandedOver ==
  ASSUME NEW l \in Seq(Nat), NEW t \in Seq(Nat), t # <<>>
  PROVE  Append(l, Head(t)) \o Tail(t) = l \o t
<1>. DEFINE n == Len(t)
            h == Head(t)
<1>1. n \in Nat /\ n # 0 /\ h = t[1] /\ h \in Nat /\ Tail(t) \in Seq(Nat)
  BY EmptySeq, HeadTailProperties
<1>2. Tail(t) = SubSeq(t, 2, n)
  BY TailIsSubSeq
<1>3. SubSeq(t, 1, n) = t
  BY SubSeqFull
<1>. HIDE DEF n, h
<1>4. 1 \in 1..n /\ n \in 1..n /\ 1 + 1 = 2
  BY <1>1
<1>5. SubSeq(t, 1, n) = <<t[1]>> \o SubSeq(t, 1 + 1, n)
  BY <1>4, SubSeqRecursiveFirst DEF n
<1>6. t = <<h>> \o Tail(t)
  BY <1>1, <1>2, <1>3, <1>4, <1>5
<1>7. Append(l, h) = l \o <<h>> /\ <<h>> \in Seq(Nat)
  BY <1>1, AppendIsConcat
<1>8. (l \o <<h>>) \o Tail(t) = l \o (<<h>> \o Tail(t))
  BY <1>1, <1>7, Regrouped
<1>. QED BY <1>6, <1>7, <1>8 DEF h

\* nothing and everything can be dropped
LEMMA DropNone ==
  ASSUME NEW l \in Seq(Nat)
  PROVE  Dropped(l, l, 0) /\ Dropped(l, <<>>, Len(l))
<1>1. Len(l) \in Nat /\ Len(<<>>) = 0
  BY LenProperties, EmptySeq
<1>2. 0 \in 0..Len(l) /\ Len(l) \in 0..Len(l) /\ Len(l) - 0 = Len(l) /\ Len(l) - Len(l) = 0
      /\ \A i \in 1..Len(l) : i + 0 = i
  BY <1>1
<1>3. 1..Len(<<>>) = {}
  BY <1>1
<1>. QED BY <1>1, <1>2, <1>3 DEF Dropped

LEMMA DropFirst ==
  ASSUME NEW l \in Seq(Nat), l # <<>>
  PROVE  Dropped(l, Tail(l), 1) /\ Tail(l) \in Seq(Nat)
<1>1. Len(l) \in Nat \ {0} /\ Tail(l) \in Seq(Nat) /\ Len(Tail(l)) = Len(l) - 1
      /\ \A i \in 1..Len(Tail(l)) : Tail(l)[i] = l[i + 1]
  BY EmptySeq, HeadTailProperties
<1>2. 1 \in 0..Len(l)
  BY <1>1
<1>. QED BY <1>1, <1>2 DEF Dropped

-----------------------------------------------------------------------------
(***************************************************************************)
(* From the network to the ear.                                            *)
(***************************************************************************)
\* what is decoded
Decoded(a) == IF a = NoBuffer THEN <<>> ELSE Nums(a.afl)

\* decoded, or to be decoded next
Kept(a, t) == Decoded(a) \o t

AudioInv ==
  /\ JbInv
  /\ todo \in Seq(Nat)
  /\ ab = NoBuffer \/ Exact(ab)
  /\ heard \in Nat /\ heard <= played
  /\ InOrder(Kept(ab, todo), heard, played)
  /\ player \in {"none", "alive", "freed"}
  /\ player = "none" => ab = NoBuffer
  /\ player = "alive" => ab # NoBuffer

LEMMA DecodedOk ==
  ASSUME NEW a, a = NoBuffer \/ Exact(a)
  PROVE  /\ Decoded(a) \in Seq(Nat)
         /\ a # NoBuffer => /\ Decoded(a) = Nums(a.afl)
                            /\ a.afl \in Seq(Frames) /\ Len(Decoded(a)) = Len(a.afl)
<1>1. CASE a = NoBuffer
  BY <1>1, EmptySeq DEF Decoded
<1>2. CASE a # NoBuffer
  <2>1. a.afl \in Seq(Frames)
    BY <1>2 DEF Exact, Aubufs, Frames
  <2>. QED BY <1>2, <2>1, NumsOk DEF Decoded
<1>. QED BY <1>1, <1>2

LEMMA GivenOk ==
  ASSUME NEW x \in Nat, NEW q, NEW lo, NEW hi, x = NoFrame \/ (lo <= x /\ x <= hi)
  PROVE  Given(x, q) \in Seq(Nat) /\ InOrder(Given(x, q), lo, hi)
<1>1. /\ <<x>> \in Seq(Nat) /\ Len(<<x>>) = 1 /\ <<x>>[1] = x
      /\ <<0>> \in Seq(Nat) /\ Len(<<0>>) = 1 /\ <<0>>[1] = 0
  OBVIOUS
<1>2. CASE ~Lost(q)
  <2>1. Given(x, q) = <<x>>
    BY <1>1, <1>2, ConcatEmptySeq DEF Given
  <2>2. \A i \in 1..1 : i = 1
    OBVIOUS
  <2>3. \A i \in 1..1 : <<x>>[i] = x /\ \A j \in 1..1 : ~(i < j)
    BY <1>1, <2>2
  <2>. QED BY <1>1, <2>1, <2>3 DEF InOrder
<1>3. CASE Lost(q)
  <2>. DEFINE g == <<0>> \o <<x>>
  <2>1. Given(x, q) = g
    BY <1>3 DEF Given, NoFrame
  <2>2. g \in Seq(Nat) /\ Len(g) = 2 /\ \A i \in 1..2 : g[i] = IF i <= 1 THEN 0 ELSE <<x>>[i - 1]
    <3>1. /\ g \in Seq(Nat) /\ Len(g) = 1 + 1
          /\ \A i \in 1..(1 + 1) : g[i] = IF i <= 1 THEN <<0>>[i] ELSE <<x>>[i - 1]
      BY <1>1, ConcatProperties
    <3>2. \A i \in 1..2 : i <= 1 => i = 1
      OBVIOUS
    <3>. HIDE DEF g
    <3>. QED BY <1>1, <3>1, <3>2
  <2>. HIDE DEF g
  <2>3. \A i \in 1..2 : i = 1 \/ i = 2
    OBVIOUS
  <2>4. g[1] = 0 /\ g[2] = x
    BY <1>1, <2>2
  <2>5. \A i \in 1..2 : g[i] # NoFrame => i = 2 /\ g[i] = x
    BY <2>3, <2>4 DEF NoFrame
  <2>. QED BY <2>1, <2>2, <2>5 DEF InOrder
<1>. QED BY <1>2, <1>3

\* A packet is received: what the decoder is given is younger than what was played.
LEMMA Received ==
  ASSUME JbInv, NEW p \in Packets, RtpRecv(p)
  PROVE  /\ JbInv' /\ played \in Nat /\ played' \in Nat /\ played <= played'
         /\ todo' \in Seq(Nat) /\ InOrder(todo', played + 1, played')
<1>. DEFINE b == IF SourceChanged(p) THEN Flushed(jb) ELSE jb
            after == Put(b, p)
<1>1. /\ InWindow(jb, newest, p) /\ InWindow(Flushed(jb), newest, p)
      /\ Counted(newest, copies, p, newest', copies')
      /\ copies' \in [Packets -> Nat]
  BY ArrivesOk DEF RtpRecv
<1>2. Buffered(b, newest, copies, played) /\ InWindow(b, newest, p)
  BY <1>1, FlushedOk DEF JbInv
<1>3. /\ todo = <<>>
      /\ \/ jb' = after /\ todo' = todo /\ played' = played
         \/ jb' = after /\ todo' = Given(NoFrame, 0) /\ played' = played
         \/ /\ Ready(after) /\ jb' = Taken(after) /\ played' = Head(after.framel)
            /\ todo' = Given(played', SeqNo(played'))
  BY DEF RtpRecv
<1>. HIDE DEF b
<1>4. Buffered(after, newest', copies', played)
  BY <1>1, <1>2, PutOk
<1>. HIDE DEF after
<1>5. played \in Nat
  BY DEF JbInv, Buffered
<1>6. CASE jb' = after /\ todo' = todo /\ played' = played
  <2>1. JbInv'
    BY <1>1, <1>4, <1>6 DEF JbInv
  <2>. QED BY <1>3, <1>5, <1>6, <2>1, EmptyInOrder
<1>7. CASE jb' = after /\ todo' = Given(NoFrame, 0) /\ played' = played
  <2>1. JbInv'
    BY <1>1, <1>4, <1>7 DEF JbInv
  <2>2. NoFrame \in Nat
    BY DEF NoFrame
  <2>3. Given(NoFrame, 0) \in Seq(Nat) /\ InOrder(Given(NoFrame, 0), played + 1, played)
    BY <2>2, GivenOk
  <2>. QED BY <1>5, <1>7, <2>1, <2>3
<1>8. CASE /\ Ready(after) /\ jb' = Taken(after) /\ played' = Head(after.framel)
           /\ todo' = Given(played', SeqNo(played'))
  <2>1. /\ Buffered(Taken(after), newest', copies', Head(after.framel))
        /\ Head(after.framel) \in Packets /\ Head(after.framel) > played
    BY <1>4, <1>8, TakenOk
  <2>2. JbInv'
    BY <1>1, <1>8, <2>1 DEF JbInv
  <2>3. played' \in Nat /\ played' > played
    BY <1>8, <2>1, JbufConstants
  <2>4. played + 1 <= played' /\ played' <= played' /\ played <= played'
    BY <1>5, <2>3
  <2>5. \A q : Given(played', q) \in Seq(Nat) /\ InOrder(Given(played', q), played + 1, played')
    BY <2>3, <2>4, GivenOk
  <2>. QED BY <1>5, <1>8, <2>2, <2>3, <2>4, <2>5
<1>. QED BY <1>3, <1>6, <1>7, <1>8

\* Of what is kept only the first is lost when a frame is decoded, and nothing is added.
LEMMA DecodeKeeps ==
  ASSUME NEW a, a = NoBuffer \/ Exact(a), NEW t \in Seq(Nat), t # <<>>,
         NEW c, c = IF a = NoBuffer THEN a ELSE Appended(a, Sound(Head(t)))
  PROVE  /\ c = NoBuffer \/ Exact(c)
         /\ (a = NoBuffer) = (c = NoBuffer)
         /\ Tail(t) \in Seq(Nat)
         /\ \E k \in Nat : Dropped(Kept(a, t), Kept(c, Tail(t)), k)
<1>1. Head(t) \in Nat /\ Tail(t) \in Seq(Nat) /\ Dropped(t, Tail(t), 1)
  BY HeadTailProperties, DropFirst
<1>2. CASE a = NoBuffer
  <2>1. c = NoBuffer /\ Decoded(a) = <<>> /\ Decoded(c) = <<>>
    BY <1>2 DEF Decoded
  <2>2. Kept(a, t) = t /\ Kept(c, Tail(t)) = Tail(t)
    BY <1>1, <2>1, ConcatEmptySeq DEF Kept
  <2>. QED BY <1>1, <1>2, <2>1, <2>2
<1>3. CASE a # NoBuffer
  <2>. DEFINE f == Sound(Head(t))
              s == a.afl
              l == Nums(s)
              e == Append(s, f)
  <2>1. f \in Frames /\ f.num = Head(t)
    BY <1>1, AudioAssumption DEF Sound, Frames
  <2>2. Exact(a) /\ s \in Seq(Frames)
    BY <1>3, DecodedOk
  <2>3. c = Appended(a, f)
    BY <1>3
  <2>. HIDE DEF f
  <2>4. Exact(c) /\ (c.afl = e \/ (e # <<>> /\ c.afl = Tail(e)))
    BY <2>1, <2>2, <2>3, AppendedExact
  <2>5. c # NoBuffer
    BY <2>4, AudioAssumption DEF Exact
  <2>6. e \in Seq(Frames) /\ Len(e) = Len(s) + 1 /\ e[Len(s) + 1] = f
        /\ \A i \in 1..Len(s) : e[i] = s[i]
    BY <2>1, <2>2, AppendProperties
  <2>7. /\ l \in Seq(Nat) /\ Len(l) = Len(s) /\ Len(s) \in Nat
        /\ \A i \in 1..Len(s) : l[i] = s[i].num
    BY <2>2, NumsOk, LenProperties
  <2>8. /\ Nums(e) \in Seq(Nat) /\ Len(Nums(e)) = Len(s) + 1
        /\ \A i \in 1..(Len(s) + 1) : Nums(e)[i] = e[i].num
    BY <2>6, NumsOk
  <2>9. Nums(e) = Append(l, Head(t))
    <3>. l \in Seq(Nat) /\ Head(t) \in Nat
      BY <1>1, <2>7
    <3>. HIDE DEF s, l, e
    <3>1. /\ Append(l, Head(t)) \in Seq(Nat) /\ Len(Append(l, Head(t))) = Len(s) + 1
          /\ \A i \in 1..Len(s) : Append(l, Head(t))[i] = l[i]
          /\ Append(l, Head(t))[Len(s) + 1] = Head(t)
      <4>1. Len(l) = Len(s)
        BY <2>7
      <4>. QED BY <4>1, AppendProperties
    <3>2. ASSUME NEW i \in 1..(Len(s) + 1) PROVE Nums(e)[i] = Append(l, Head(t))[i]
      <4>1. CASE i \in 1..Len(s)
        BY <2>6, <2>7, <2>8, <3>1, <4>1
      <4>2. CASE i = Len(s) + 1
        BY <2>1, <2>6, <2>8, <3>1, <4>2
      <4>. QED BY <2>7, <4>1, <4>2
    <3>. QED BY <2>8, <3>1, <3>2, SeqEqual
  <2>10. Kept(a, t) = Nums(e) \o Tail(t)
    <3>1. Decoded(a) = l
      BY <1>3 DEF Decoded
    <3>. HIDE DEF l, e
    <3>. QED BY <2>7, <2>9, <3>1, HandedOver DEF Kept
  <2>11. Kept(c, Tail(t)) = Nums(c.afl) \o Tail(t)
    BY <2>5 DEF Kept, Decoded
  <2>. HIDE DEF e
  <2>12. CASE c.afl = e
    <3>1. Dropped(Nums(e), Nums(c.afl), 0)
      BY <2>8, <2>12, DropNone
    <3>2. Dropped(Kept(a, t), Kept(c, Tail(t)), 0)
      BY <1>1, <2>8, <2>10, <2>11, <2>12, <3>1, DropConcat
    <3>. QED BY <1>1, <1>3, <2>4, <2>5, <3>2
  <2>13. CASE e # <<>> /\ c.afl = Tail(e)
    <3>1. Tail(e) \in Seq(Frames) /\ Dropped(e, Tail(e), 1)
      BY <2>6, <2>13, TailBytes
    <3>2. /\ Nums(Tail(e)) \in Seq(Nat) /\ Len(Nums(Tail(e))) = Len(Tail(e))
          /\ \A i \in 1..Len(Tail(e)) : Nums(Tail(e))[i] = Tail(e)[i].num
      BY <3>1, NumsOk
    <3>3. \A i \in 1..Len(Tail(e)) : i + 1 \in 1..(Len(s) + 1) /\ Tail(e)[i] = e[i + 1]
      <4>1. Len(Tail(e)) = (Len(s) + 1) - 1 /\ \A i \in 1..Len(Tail(e)) : Tail(e)[i] = e[i + 1]
        BY <2>6, <3>1 DEF Dropped
      <4>. HIDE DEF s
      <4>. QED BY <2>7, <4>1
    <3>4. Dropped(Nums(e), Nums(Tail(e)), 1)
      <4>1. ASSUME NEW i \in 1..Len(Tail(e)) PROVE Nums(Tail(e))[i] = Nums(e)[i + 1]
        BY <2>8, <3>2, <3>3
      <4>2. Len(Tail(e)) = Len(e) - 1 /\ 1 \in 0..Len(e)
        BY <3>1 DEF Dropped
      <4>. QED BY <2>6, <2>8, <3>2, <4>1, <4>2 DEF Dropped
    <3>5. Dropped(Kept(a, t), Kept(c, Tail(t)), 1)
      BY <1>1, <2>8, <2>10, <2>11, <2>13, <3>2, <3>4, DropConcat
    <3>. QED BY <1>1, <1>3, <2>4, <2>5, <3>5
  <2>. QED BY <2>4, <2>12, <2>13
<1>. QED BY <1>2, <1>3

LEMMA KeptOk ==
  ASSUME NEW a, a = NoBuffer \/ Exact(a), NEW t \in Seq(Nat)
  PROVE  Kept(a, t) \in Seq(Nat)
BY DecodedOk, ConcatProperties DEF Kept

LEMMA AudioInit == Init => AudioInv
<1>. SUFFICES ASSUME Init PROVE AudioInv
  OBVIOUS
<1>1. JbInv
  <2>1. copies = [p \in Packets |-> 0] /\ 0 \in Nat
    BY DEF Init, JbInit
  <2>. QED BY <2>1, EmptyBuffered DEF Init, JbInit, JbInv
<1>2. todo = <<>> /\ ab = NoBuffer /\ player = "none" /\ heard = 0 /\ played = FirstNum - 1
  BY DEF Init, JbInit
<1>3. heard \in Nat /\ heard <= played
  BY <1>2, JbufConstants
<1>4. <<>> \in Seq(Nat) /\ <<>> \o <<>> = <<>> /\ InOrder(<<>>, heard, played)
  BY EmptyInOrder, ConcatEmptySeq
<1>5. Kept(ab, todo) = <<>>
  BY <1>2, <1>4 DEF Kept, Decoded
<1>. QED BY <1>1, <1>2, <1>3, <1>4, <1>5 DEF AudioInv

\* when nothing of the buffer and the network changes
LEMMA Dropping ==
  ASSUME AudioInv, UNCHANGED <<jb, newest, copies, played>>,
         todo' \in Seq(Nat), ab' = NoBuffer \/ Exact(ab)',
         heard' = heard,
         NEW k, Dropped(Kept(ab, todo), Kept(ab, todo)', k),
         player' \in {"none", "alive", "freed"},
         (player = "none")' => (ab = NoBuffer)',
         (player = "alive")' => (ab # NoBuffer)'
  PROVE  AudioInv'
<1>1. Kept(ab, todo) \in Seq(Nat) /\ Kept(ab, todo)' \in Seq(Nat)
  <2>1. Kept(ab, todo) \in Seq(Nat)
    BY KeptOk DEF AudioInv
  <2>2. Kept(ab', todo') \in Seq(Nat)
    BY KeptOk DEF Exact
  <2>. QED BY <2>1, <2>2 DEF Kept, Decoded
<1>2. heard \in Nat /\ played \in Nat /\ InOrder(Kept(ab, todo), heard, played)
  BY DEF AudioInv, JbInv, Buffered
<1>3. InOrder(Kept(ab, todo)', heard, played)
  BY <1>1, <1>2, DropKeeps
<1>4. InOrder(Kept(ab, todo), heard, played)'
  BY <1>3 DEF InOrder
<1>5. JbInv'
  BY DEF AudioInv, JbInv
<1>. QED BY <1>4, <1>5 DEF AudioInv

LEMMA AudioStep == AudioInv /\ [Next]_arVars => AudioInv'
<1>. SUFFICES ASSUME AudioInv, [Next]_arVars PROVE AudioInv'
  OBVIOUS
<1>1. /\ JbInv /\ todo \in Seq(Nat) /\ (ab = NoBuffer \/ Exact(ab))
      /\ heard \in Nat /\ played \in Nat /\ heard <= played
      /\ InOrder(Kept(ab, todo), heard, played)
      /\ player \in {"none", "alive", "freed"}
      /\ (player = "none" => ab = NoBuffer)
      /\ (player = "alive" => ab # NoBuffer)
  BY DEF AudioInv, JbInv, Buffered
<1>2. Kept(ab, todo) \in Seq(Nat) /\ Decoded(ab) \in Seq(Nat)
  BY <1>1, KeptOk, DecodedOk
<1>3. ASSUME NEW p \in Packets, PacketArrives(p) PROVE AudioInv'
  <2>1. /\ JbInv' /\ played' \in Nat /\ played <= played'
        /\ todo' \in Seq(Nat) /\ InOrder(todo', played + 1, played')
    BY <1>1, <1>3, Received DEF PacketArrives
  <2>2. todo = <<>> /\ ab' = ab /\ player' = player /\ heard' = heard
    BY <1>3 DEF PacketArrives, RtpRecv, deviceVars
  <2>3. Kept(ab, todo) = Decoded(ab)
    BY <1>2, <2>2, ConcatEmptySeq DEF Kept
  <2>4. InOrder(Decoded(ab) \o todo', heard, played')
    BY <1>1, <1>2, <2>1, <2>3, JoinKeeps
  <2>5. Kept(ab, todo)' = Decoded(ab) \o todo'
    BY <2>2 DEF Kept, Decoded
  <2>6. InOrder(Kept(ab, todo), heard, played)'
    BY <2>2, <2>4, <2>5 DEF InOrder
  <2>7. heard' <= played'
    BY <1>1, <2>1, <2>2
  <2>8. ab' = NoBuffer \/ Exact(ab)'
    BY <1>1, <2>2 DEF Exact
  <2>. QED BY <1>1, <2>1, <2>2, <2>6, <2>7, <2>8 DEF AudioInv
<1>4. CASE CallEstablished
  <2>1. UNCHANGED <<newest, copies, played, todo, ab, player, heard>> /\ jb' = Flushed(jb)
    BY <1>4 DEF CallEstablished, StreamReset, deviceVars
  <2>2. JbInv'
    BY <1>1, <2>1, FlushedOk DEF JbInv
  <2>3. InOrder(Kept(ab, todo), heard, played)' /\ (ab' = NoBuffer \/ Exact(ab)')
    BY <1>1, <2>1 DEF InOrder, Kept, Decoded, Exact
  <2>. QED BY <1>1, <2>1, <2>2, <2>3 DEF AudioInv
<1>5. CASE Decode
  <2>1. /\ todo # <<>> /\ todo' = Tail(todo)
        /\ ab' = IF ab = NoBuffer THEN ab ELSE Appended(ab, Sound(Head(todo)))
        /\ UNCHANGED <<jb, newest, copies, played, player, heard>>
    BY <1>5 DEF Decode, deviceVars
  <2>2. /\ ab' = NoBuffer \/ Exact(ab')
        /\ (ab = NoBuffer) = (ab' = NoBuffer)
        /\ todo' \in Seq(Nat)
        /\ \E k \in Nat : Dropped(Kept(ab, todo), Kept(ab', todo'), k)
    BY <1>1, <2>1, DecodeKeeps
  <2>3. PICK k \in Nat : Dropped(Kept(ab, todo), Kept(ab', todo'), k)
    BY <2>2
  <2>4. Kept(ab, todo)' = Kept(ab', todo') /\ (ab' = NoBuffer \/ Exact(ab)')
    BY <2>2 DEF Kept, Decoded, Exact
  <2>5. Dropped(Kept(ab, todo), Kept(ab, todo)', k)
    BY <2>3, <2>4
  <2>. QED BY <1>1, <2>1, <2>2, <2>4, <2>5, Dropping
<1>6. CASE StartPlayer
  <2>1. /\ todo = <<>> /\ todo' = todo /\ ab = NoBuffer /\ ab' = AllocatedAubuf
        /\ player' = "alive" /\ UNCHANGED <<jb, newest, copies, played, heard>>
    BY <1>1, <1>6 DEF StartPlayer
  <2>2. Exact(ab') /\ ab'.afl = <<>>
    BY <2>1, AllocatedExact
  <2>3. ab' # NoBuffer
    BY <2>2, AudioAssumption DEF Exact
  <2>4. <<>> \in Seq(Nat) /\ <<>> \in Seq(Frames) /\ Len(<<>>) = 0 /\ <<>> \o <<>> = <<>>
    BY EmptySeq, ConcatEmptySeq
  <2>5. Nums(<<>>) = <<>>
    <3>1. Nums(<<>>) \in Seq(Nat) /\ Len(Nums(<<>>)) = 0
      BY <2>4, NumsOk
    <3>. QED BY <3>1, EmptySeq
  <2>6. Kept(ab, todo) = <<>> /\ Kept(ab, todo)' = <<>>
    BY <2>1, <2>2, <2>3, <2>4, <2>5 DEF Kept, Decoded
  <2>7. Dropped(Kept(ab, todo), Kept(ab, todo)', 0)
    BY <2>4, <2>6, DropNone
  <2>8. Exact(ab)'
    BY <2>2 DEF Exact
  <2>. QED BY <1>1, <2>1, <2>3, <2>7, <2>8, Dropping
<1>7. ASSUME UNCHANGED <<jb, newest, copies, played, todo, ab, heard>>,
             player' = player \/ (player = "alive" /\ player' = "freed")
      PROVE  AudioInv'
  <2>1. JbInv'
    BY <1>1, <1>7 DEF JbInv
  <2>2. InOrder(Kept(ab, todo), heard, played)' /\ (ab' = NoBuffer \/ Exact(ab)')
    BY <1>1, <1>7 DEF InOrder, Kept, Decoded, Exact
  <2>. QED BY <1>1, <1>7, <2>1, <2>2 DEF AudioInv
<1>8. CASE FreeBuffer
  <2>1. /\ player = "freed" /\ player' = player /\ ab' = NoBuffer
        /\ UNCHANGED <<jb, newest, copies, played, todo, heard>>
    BY <1>8 DEF FreeBuffer, deviceVars
  <2>2. Dropped(Decoded(ab), <<>>, Len(Decoded(ab))) /\ <<>> \in Seq(Nat)
    BY <1>2, DropNone, EmptySeq
  <2>3. Dropped(Kept(ab, todo), <<>> \o todo, Len(Decoded(ab)))
    BY <1>1, <1>2, <2>2, DropConcat DEF Kept
  <2>4. Kept(ab, todo)' = <<>> \o todo
    BY <2>1 DEF Kept, Decoded
  <2>. QED BY <1>1, <2>1, <2>3, <2>4, Dropping
<1>9. CASE PlayerReads
  <2>1. CASE player = "alive"
    <3>1. /\ ab' = AfterRead(ab, ReadSz) /\ heard' = LastHeard(ab, ReadSz, heard)
          /\ UNCHANGED <<jb, newest, copies, played, todo, player>>
      BY <1>9, <2>1 DEF PlayerReads
    <3>. DEFINE l == Nums(ab.afl)
    <3>2. Exact(ab) /\ ab # NoBuffer /\ ReadSz \in Nat
      BY <1>1, <2>1, AudioAssumption
    <3>3. l = Decoded(ab) /\ l \in Seq(Nat) /\ Len(l) = Len(ab.afl)
      BY <1>2, <3>2, DecodedOk
    <3>4. PICK k \in 0..Len(ab.afl) :
            /\ Dropped(l, Nums(ab'.afl), k)
            /\ \/ \A h : LastHeard(ab, ReadSz, h) = h
               \/ \E m \in 1..Len(ab.afl) :
                     m <= k + 1 /\ \A h : LastHeard(ab, ReadSz, h) = l[m]
      BY <3>1, <3>2, ReadExact
    <3>5. Exact(ab')
      BY <3>1, <3>2, ReadExact
    <3>6. ab' # NoBuffer /\ Exact(ab)'
      BY <3>5, AudioAssumption DEF Exact
    <3>7. Nums(ab'.afl) \in Seq(Nat) /\ Kept(ab, todo)' = Nums(ab'.afl) \o todo
      BY <3>1, <3>5, <3>6, DecodedOk DEF Kept, Decoded
    <3>. HIDE DEF l
    <3>8. Dropped(Kept(ab, todo), Kept(ab, todo)', k) /\ Kept(ab, todo)' \in Seq(Nat)
          /\ Kept(ab, todo) = l \o todo
      BY <1>1, <3>3, <3>4, <3>7, DropConcat, ConcatProperties DEF Kept
    <3>9. CASE \A h : LastHeard(ab, ReadSz, h) = h
      <4>1. heard' = heard
        BY <3>1, <3>9
      <4>. QED BY <1>1, <2>1, <3>1, <3>6, <3>8, <4>1, Dropping
    <3>10. CASE \E m \in 1..Len(ab.afl) :
                  m <= k + 1 /\ \A h : LastHeard(ab, ReadSz, h) = l[m]
      <4>1. PICK m \in 1..Len(l) : m <= k + 1 /\ heard' = l[m]
        BY <3>1, <3>3, <3>10
      <4>2. m \in 1..Len(Kept(ab, todo)) /\ Kept(ab, todo)[m] = l[m]
        <5>1. /\ Len(l) \in Nat /\ Len(todo) \in Nat
              /\ Len(l \o todo) = Len(l) + Len(todo)
              /\ \A i \in 1..(Len(l) + Len(todo)) :
                   (l \o todo)[i] = IF i <= Len(l) THEN l[i] ELSE todo[i - Len(l)]
          <6>1. l \in Seq(Nat) /\ todo \in Seq(Nat)
            BY <1>1, <3>3
          <6>. QED BY <6>1, LenProperties, ConcatProperties
        <5>2. m <= Len(l) /\ m \in 1..(Len(l) + Len(todo))
          BY <5>1
        <5>. QED BY <3>8, <5>1, <5>2
      <4>3. /\ InOrder(Kept(ab, todo)', heard', played)
            /\ heard' \in Nat /\ heard' <= played
        BY <1>1, <1>2, <3>8, <4>1, <4>2, HeardKeeps
      <4>4. InOrder(Kept(ab, todo), heard, played)'
        BY <3>1, <4>3 DEF InOrder
      <4>5. JbInv'
        BY <1>1, <3>1 DEF JbInv
      <4>. QED BY <1>1, <2>1, <3>1, <3>6, <4>3, <4>4, <4>5 DEF AudioInv
    <3>. QED BY <3>4, <3>9, <3>10
  <2>2. CASE player # "alive"
    <3>1. UNCHANGED <<jb, newest, copies, played, todo, ab, player, heard>>
      BY <1>9, <2>2 DEF PlayerReads
    <3>. QED BY <1>7, <3>1
  <2>. QED BY <2>1, <2>2
<1>10. CASE StopPlayer \/ ResetCallbackPtr \/ TimerEvent \/ NoRoom
  <2>1. /\ UNCHANGED <<jb, newest, copies, played, todo, ab, heard>>
        /\ player' = player \/ (player = "alive" /\ player' = "freed")
    BY <1>10 DEF StopPlayer, ResetCallbackPtr, TimerEvent, NoRoom
  <2>. QED BY <1>7, <2>1
<1>11. CASE UNCHANGED arVars
  BY <1>7, <1>11 DEF arVars
<1>. QED BY <1>3, <1>4, <1>5, <1>6, <1>8, <1>9, <1>10, <1>11 DEF Next

LEMMA AudioAlways == Spec => []AudioInv
BY AudioInit, AudioStep, PTL DEF Spec

LEMMA InvBytes == AudioInv => BytesExact
BY DEF AudioInv, Exact, BytesExact

LEMMA InvSound == AudioInv => SoundInOrder
<1>. SUFFICES ASSUME AudioInv PROVE SoundInOrder
  OBVIOUS
<1>. DEFINE k == Kept(ab, todo)
            l == jb.framel
            w == OnTheWay
<1>1. /\ k \in Seq(Nat) /\ heard \in Nat /\ played \in Nat /\ newest \in Nat
      /\ heard <= played /\ InOrder(k, heard, played)
  BY KeptOk DEF AudioInv, JbInv, Buffered
<1>2. l \in Seq(Packets) /\ Len(l) \in Nat /\ \A i \in 1..Len(l) : l[i] \in Nat
  BY BufferFields DEF AudioInv, JbInv, Buffered
<1>3. l \in Seq(Nat)
  <2>1. Packets \subseteq Nat
    BY JbufConstants
  <2>. QED BY <1>2, <2>1, SeqMonotonic
<1>4. w = k \o l
  <2>1. w = Decoded(ab) \o todo \o l
    BY DEF OnTheWay, Decoded, Nums
  <2>. QED BY <2>1 DEF Kept
<1>. DEFINE hi == IF played > newest THEN played ELSE newest
<1>5. hi \in Nat /\ played <= hi /\ newest <= hi
  BY <1>1
<1>6. /\ \A i \in 1..Len(l) : played < l[i] /\ l[i] <= newest
      /\ \A i, j \in 1..Len(l) : i < j => l[i] < l[j]
  BY DEF AudioInv, JbInv, Buffered, Ascending
<1>. HIDE DEF k, l, w, hi
<1>7. ASSUME NEW i \in 1..Len(l) PROVE played + 1 <= l[i] /\ l[i] <= hi
  <2>1. l[i] \in Nat /\ played < l[i] /\ l[i] <= newest
    BY <1>2, <1>6
  <2>. QED BY <1>1, <1>5, <2>1
<1>8. InOrder(l, played + 1, hi)
  BY <1>6, <1>7 DEF InOrder
<1>9. w \in Seq(Nat) /\ InOrder(w, heard, hi)
  BY <1>1, <1>3, <1>4, <1>5, <1>8, JoinKeeps
<1>10. DOMAIN w = 1..Len(w) /\ \A i \in 1..Len(w) : w[i] \in Nat
  BY <1>9, LenProperties, ElementOfSeq
<1>11. /\ \A i, j \in {x \in DOMAIN w : w[x] # NoFrame} : i < j => w[i] < w[j]
       /\ \A i \in {x \in DOMAIN w : w[x] # NoFrame} : w[i] >= heard
  BY <1>1, <1>9, <1>10 DEF InOrder
<1>. QED BY <1>11 DEF SoundInOrder, w

\* The count that aubuf_append and aubuf_read keep is the sum of what the frames have left,
\* for wish and maximum sizes, packets and reads of any number of bytes.
THEOREM CountIsExact == Spec => []BytesExact
BY AudioAlways, InvBytes, PTL

\* The peer's voice is heard in the order it was spoken in: through rtp_recv with lost,
\* late and reordered packets, jbuf_flush when the source changes or the call is
\* established, the concealment of losses, overruns of the audio buffer and reads that
\* end in the middle of a frame.
THEOREM VoiceInOrder == Spec => []SoundInOrder
BY AudioAlways, InvSound, PTL

=============================================================================
