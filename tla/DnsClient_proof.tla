--------------------------- MODULE DnsClient_proof ---------------------------
(***************************************************************************)
(* Proofs about the DNS client (DnsClient).                                *)
(***************************************************************************)
EXTENDS DnsClient, Functions, TLAPS, SequenceTheorems, WellFoundedInduction

(***************************************************************************)
(* The inductive invariant.  A query over TCP that is open is in exactly   *)
(* one place: on one connection, once, or in one send_tcp under way.  So   *)
(* none is told twice when a connection fails with its queries, and none   *)
(* is forgotten.                                                           *)
(***************************************************************************)
QueryRecords == [st : {"none", "open", "done"}, proto : {"udp", "tcp"}, ntx : Nat,
                 sent : BOOLEAN, told : Nat]
ConnRecords == [st : {"none", "connecting", "connected"}, ql : Seq(Queries)]
WorkRecords == [q : Queries, failed : BOOLEAN, new : BOOLEAN]

DnsTypeOK ==
  /\ alive \in BOOLEAN /\ srvc \in Nat
  /\ query \in [Queries -> QueryRecords]
  /\ conn \in [Servers -> ConnRecords]
  /\ work \in Seq(WorkRecords)

\* the queries that w sends again, each of them once
Resent(w) == {w[i].q : i \in DOMAIN w}
OnceEach(w) == \A i, j \in DOMAIN w : w[i].q = w[j].q => i = j

Told1 == \A q \in Queries :
           /\ query[q].told <= 1
           /\ query[q].st # "done" => query[q].told = 0

\* no place twice, and no query at two places
Apart ==
  /\ \A s \in Servers : IsInjective(conn[s].ql)
  /\ \A s, t \in Servers : \A q \in Queries : q \in Waiting(s) /\ q \in Waiting(t) => s = t
  /\ OnceEach(work)
  /\ \A s \in Servers : \A q \in Waiting(s) : q \notin Resent(work)

TcpOpen(q) == Open(q) /\ query[q].proto = "tcp"

\* the queries at these places are those over TCP that are open
Kept ==
  /\ \A s \in Servers : \A q \in Waiting(s) :
       /\ TcpOpen(q)
       /\ conn[s].st = "connecting" \/ (conn[s].st = "connected" /\ query[q].sent)
  /\ \A q \in Resent(work) : TcpOpen(q)
  /\ \A q \in Queries : query[q].st = "none" => query[q].proto = "udp"
  /\ \A q \in Queries : TcpOpen(q) => q \in Resent(work) \/ \E s \in Servers : q \in Waiting(s)

DnsInv == DnsTypeOK /\ Told1 /\ Apart /\ Kept

-----------------------------------------------------------------------------
(***************************************************************************)
(* Lists.                                                                  *)
(***************************************************************************)
\* a nonempty set of positions has a least one
LEMMA FirstPosition ==
  ASSUME NEW n \in Nat, NEW I, I \subseteq 1..n, I # {}
  PROVE  (CHOOSE x \in I : \A y \in I : x <= y) \in I
<1>. DEFINE R == OpToRel(<, Nat)
<1>1. IsWellFoundedOn(R, Nat)
  BY NatLessThanWellFounded
<1>2. I \subseteq Nat
  OBVIOUS
<1>3. \A u, v \in Nat : <<u, v>> \in R <=> u < v
  BY DEF OpToRel
<1>. HIDE DEF R
<1>4. PICK x \in I : \A y \in I : ~(<<y, x>> \in R)
  BY <1>1, <1>2, WFMin
<1>5. ASSUME NEW y \in I PROVE x <= y
  <2>1. x \in Nat /\ y \in Nat /\ ~(<<y, x>> \in R)
    BY <1>2, <1>4
  <2>2. ~(y < x)
    BY <1>3, <2>1
  <2>. QED BY <2>1, <2>2
<1>. QED BY <1>5

LEMMA Positions ==
  ASSUME NEW S, NEW l \in Seq(S)
  PROVE  /\ Len(l) \in Nat /\ DOMAIN l = 1..Len(l)
         /\ \A i \in DOMAIN l : i \in Nat /\ l[i] \in S /\ l[i] \in ToSet(l)
         /\ \A x \in ToSet(l) : x \in S /\ \E i \in DOMAIN l : l[i] = x
<1>1. Len(l) \in Nat /\ DOMAIN l = 1..Len(l)
  BY LenProperties
<1>2. \A i \in DOMAIN l : i \in Nat /\ l[i] \in S
  BY <1>1, ElementOfSeq
<1>. QED BY <1>1, <1>2 DEF ToSet

\* list_unlink takes the element off a list that holds it once at most.
LEMMA Unlinked ==
  ASSUME NEW S, NEW l \in Seq(S), IsInjective(l), NEW e
  PROVE  /\ RemoveFirst(l, e) \in Seq(S) /\ IsInjective(RemoveFirst(l, e))
         /\ ToSet(RemoveFirst(l, e)) = ToSet(l) \ {e}
<1>. DEFINE n == Len(l)
            I == {i \in 1..n : l[i] = e}
            k == CHOOSE x \in I : \A y \in I : x <= y
            f == SubSeq(l, 1, k - 1)
            g == SubSeq(l, k + 1, n)
<1>1. n \in Nat /\ DOMAIN l = 1..n
  BY LenProperties
<1>2. CASE I = {}
  <2>1. RemoveFirst(l, e) = l
    BY <1>2 DEF RemoveFirst
  <2>2. e \notin ToSet(l)
    BY <1>1, <1>2 DEF ToSet
  <2>. QED BY <2>1, <2>2
<1>3. CASE I # {}
  <2>1. k \in I
    BY <1>1, <1>3, FirstPosition
  <2>2. RemoveFirst(l, e) = f \o g
    BY <1>1, <1>3 DEF RemoveFirst, RemoveAt, SelectInSeq, Min
  <2>3. k \in 1..n /\ l[k] = e
    BY <2>1
  <2>. HIDE DEF n, k, I
  <2>4. /\ \A j \in 1..(k - 1) : l[j] \in S
        /\ \A j \in (k + 1)..n : l[j] \in S
    BY <1>1, <2>3, ElementOfSeq DEF n
  <2>5. /\ f \in Seq(S) /\ Len(f) = k - 1
        /\ \A j \in 1..(k - 1) : f[j] = l[j]
    <3>1. /\ f \in Seq(S) /\ Len(f) = IF 1 <= k - 1 THEN k - 1 - 1 + 1 ELSE 0
          /\ \A j \in 1..(k - 1 - 1 + 1) : f[j] = l[1 + j - 1]
      BY <1>1, <2>3, <2>4, SubSeqProperties
    <3>. HIDE DEF f
    <3>2. ASSUME NEW j \in 1..(k - 1) PROVE f[j] = l[j]
      <4>1. 1 + j - 1 = j /\ j \in 1..(k - 1 - 1 + 1)
        BY <1>1, <2>3
      <4>. QED BY <3>1, <4>1
    <3>. QED BY <1>1, <2>3, <3>1, <3>2
  <2>6. /\ g \in Seq(S) /\ Len(g) = n - k
        /\ \A j \in 1..(n - k) : g[j] = l[k + j]
    <3>1. /\ g \in Seq(S) /\ Len(g) = IF k + 1 <= n THEN n - (k + 1) + 1 ELSE 0
          /\ \A j \in 1..(n - (k + 1) + 1) : g[j] = l[k + 1 + j - 1]
      BY <1>1, <2>3, <2>4, SubSeqProperties
    <3>. HIDE DEF g
    <3>2. ASSUME NEW j \in 1..(n - k) PROVE g[j] = l[k + j]
      <4>1. k + 1 + j - 1 = k + j /\ j \in 1..(n - (k + 1) + 1)
        BY <1>1, <2>3
      <4>. QED BY <3>1, <4>1
    <3>3. Len(g) = n - k
      <4>1. CASE k + 1 <= n
        BY <1>1, <2>3, <3>1, <4>1
      <4>2. CASE k = n
        BY <1>1, <2>3, <3>1, <4>2
      <4>. QED BY <1>1, <2>3, <4>1, <4>2
    <3>. QED BY <3>1, <3>2, <3>3
  <2>. HIDE DEF f, g
  <2>7. /\ f \o g \in Seq(S) /\ DOMAIN (f \o g) = 1..(n - 1)
        /\ \A j \in 1..(n - 1) : (f \o g)[j] = IF j <= k - 1 THEN f[j] ELSE g[j - (k - 1)]
    <3>1. Len(f) + Len(g) = n - 1
      BY <1>1, <2>3, <2>5, <2>6
    <3>2. /\ f \o g \in Seq(S) /\ Len(f \o g) = Len(f) + Len(g)
          /\ \A j \in 1..Len(f) + Len(g) :
                 (f \o g)[j] = IF j <= Len(f) THEN f[j] ELSE g[j - Len(f)]
      BY <2>5, <2>6, ConcatProperties
    <3>. QED BY <2>5, <3>1, <3>2, LenProperties
  <2>8. ASSUME NEW i \in 1..(n - 1)
        PROVE  (f \o g)[i] = IF i < k THEN l[i] ELSE l[i + 1]
    <3>1. CASE i < k
      <4>1. i <= k - 1 /\ i \in 1..(k - 1)
        BY <1>1, <2>3, <3>1
      <4>. QED BY <2>5, <2>7, <3>1, <4>1
    <3>2. CASE ~(i < k)
      <4>1. ~(i <= k - 1) /\ i - (k - 1) \in 1..(n - k) /\ k + (i - (k - 1)) = i + 1
        BY <1>1, <2>3, <3>2
      <4>. QED BY <2>6, <2>7, <3>2, <4>1
    <3>. QED BY <3>1, <3>2
  <2>. DEFINE h == f \o g
  <2>9. /\ h \in Seq(S) /\ DOMAIN h = 1..(n - 1)
        /\ \A i \in 1..(n - 1) : h[i] = IF i < k THEN l[i] ELSE l[i + 1]
    BY <2>7, <2>8
  <2>10. ASSUME NEW i \in 1..(n - 1)
         PROVE  /\ h[i] = l[IF i < k THEN i ELSE i + 1]
                /\ (IF i < k THEN i ELSE i + 1) \in 1..n
                /\ (IF i < k THEN i ELSE i + 1) # k
    <3>1. CASE i < k
      <4>1. h[i] = l[i] /\ i \in 1..n /\ i # k
        BY <1>1, <2>3, <2>9, <3>1
      <4>. QED BY <3>1, <4>1
    <3>2. CASE ~(i < k)
      <4>1. h[i] = l[i + 1] /\ i + 1 \in 1..n /\ i + 1 # k
        BY <1>1, <2>3, <2>9, <3>2
      <4>. QED BY <3>2, <4>1
    <3>. QED BY <3>1, <3>2
  <2>. HIDE DEF h
  <2>11. ASSUME NEW i \in 1..(n - 1), NEW j \in 1..(n - 1), h[i] = h[j] PROVE i = j
    <3>. DEFINE x == IF i < k THEN i ELSE i + 1
                y == IF j < k THEN j ELSE j + 1
    <3>1. h[i] = l[x] /\ h[j] = l[y] /\ x \in 1..n /\ y \in 1..n
      BY <2>10
    <3>2. x = y => i = j
      BY <2>3, <1>1
    <3>. HIDE DEF x, y
    <3>. QED BY <1>1, <2>11, <3>1, <3>2 DEF IsInjective
  <2>12. ASSUME NEW v \in ToSet(h) PROVE v \in ToSet(l) /\ v # e
    <3>1. PICK i \in 1..(n - 1) : h[i] = v
      BY <2>9 DEF ToSet
    <3>. DEFINE x == IF i < k THEN i ELSE i + 1
    <3>2. v = l[x] /\ x \in 1..n /\ x # k
      BY <2>10, <3>1
    <3>. HIDE DEF x
    <3>3. l[x] # l[k]
      BY <1>1, <2>3, <3>2 DEF IsInjective
    <3>. QED BY <1>1, <2>3, <3>2, <3>3 DEF ToSet
  <2>13. ASSUME NEW v \in ToSet(l), v # e PROVE v \in ToSet(h)
    <3>1. PICK j \in 1..n : l[j] = v
      BY <1>1 DEF ToSet
    <3>2. \E i \in 1..(n - 1) : h[i] = v
      <4>1. CASE j < k
        <5>1. j \in 1..(n - 1)
          BY <1>1, <2>3, <4>1
        <5>. QED BY <2>10, <3>1, <4>1, <5>1
      <4>2. CASE j > k
        <5>1. j - 1 \in 1..(n - 1) /\ ~(j - 1 < k) /\ j - 1 + 1 = j
          BY <1>1, <2>3, <4>2
        <5>. QED BY <2>10, <3>1, <5>1
      <4>3. j # k
        BY <2>3, <2>13, <3>1
      <4>. QED BY <1>1, <2>3, <4>1, <4>2, <4>3
    <3>. QED BY <2>9, <3>2 DEF ToSet
  <2>14. IsInjective(h)
    BY <2>9, <2>11 DEF IsInjective
  <2>15. ToSet(h) = ToSet(l) \ {e}
    BY <2>12, <2>13
  <2>. QED BY <2>2, <2>9, <2>14, <2>15 DEF h
<1>. QED BY <1>2, <1>3

LEMMA Appended ==
  ASSUME NEW S, NEW l \in Seq(S), NEW e \in S, IsInjective(l), e \notin ToSet(l)
  PROVE  /\ Append(l, e) \in Seq(S) /\ IsInjective(Append(l, e))
         /\ ToSet(Append(l, e)) = ToSet(l) \union {e}
<1>. DEFINE a == Append(l, e)
            n == Len(l)
<1>1. /\ a \in Seq(S) /\ Len(a) = n + 1 /\ a[n + 1] = e
      /\ \A i \in 1..n : a[i] = l[i]
  BY AppendProperties
<1>2. n \in Nat /\ DOMAIN l = 1..n
  BY LenProperties
<1>3. DOMAIN a = 1..(n + 1)
  BY <1>1, LenProperties
<1>4. \A i \in DOMAIN a : (i \in DOMAIN l /\ a[i] = l[i]) \/ (i = n + 1 /\ a[i] = e)
  BY <1>1, <1>2, <1>3
<1>5. \A i \in DOMAIN l : i \in DOMAIN a /\ a[i] = l[i]
  BY <1>1, <1>2, <1>3
<1>6. n + 1 \in DOMAIN a /\ a[n + 1] = e
  BY <1>1, <1>2, <1>3
<1>. HIDE DEF a, n
<1>7. IsInjective(a)
  BY <1>4 DEF IsInjective, ToSet
<1>8. ToSet(a) = ToSet(l) \union {e}
  BY <1>4, <1>5, <1>6 DEF ToSet
<1>. QED BY <1>1, <1>7, <1>8 DEF a

\* what is under way for the queries of a connection
LEMMA Retried ==
  ASSUME NEW l \in Seq(Queries), IsInjective(l)
  PROVE  /\ Retries(l) \in Seq(WorkRecords) /\ OnceEach(Retries(l))
         /\ Resent(Retries(l)) = ToSet(l)
<1>1. Len(l) \in Nat /\ DOMAIN l = 1..Len(l) /\ \A i \in DOMAIN l : l[i] \in Queries
  BY Positions
<1>2. \A i \in DOMAIN l : [q |-> l[i], failed |-> FALSE, new |-> FALSE] \in WorkRecords
  BY <1>1 DEF WorkRecords
<1>3. Retries(l) \in Seq(WorkRecords)
  BY <1>1, <1>2, IsASeq DEF Retries
<1>4. DOMAIN Retries(l) = DOMAIN l /\ \A i \in DOMAIN l : Retries(l)[i].q = l[i]
  BY DEF Retries
<1>. QED BY <1>3, <1>4 DEF OnceEach, Resent, IsInjective, ToSet

\* a send_tcp goes on to the next server
Marked(w) == [w EXCEPT ![1].failed = TRUE]

LEMMA MarkedSame ==
  ASSUME NEW w \in Seq(WorkRecords), w # <<>>
  PROVE  /\ Marked(w) \in Seq(WorkRecords) /\ Resent(Marked(w)) = Resent(w)
         /\ OnceEach(w) => OnceEach(Marked(w))
<1>1. Len(w) \in Nat /\ DOMAIN w = 1..Len(w) /\ \A i \in DOMAIN w : w[i] \in WorkRecords
  BY Positions
<1>2. /\ DOMAIN Marked(w) = DOMAIN w
      /\ \A i \in DOMAIN w : Marked(w)[i] = IF i = 1 THEN [w[1] EXCEPT !.failed = TRUE]
                                            ELSE w[i]
  BY <1>1 DEF Marked
<1>3. \A i \in DOMAIN w : Marked(w)[i] \in WorkRecords /\ Marked(w)[i].q = w[i].q
  BY <1>1, <1>2 DEF WorkRecords
<1>4. Marked(w) = [i \in 1..Len(w) |-> Marked(w)[i]]
  BY <1>1 DEF Marked
<1>5. Marked(w) \in Seq(WorkRecords)
  BY <1>1, <1>3, <1>4, IsASeq
<1>. QED BY <1>2, <1>3, <1>5 DEF Resent, OnceEach

\* the send_tcp that ends, and what is left
LEMMA Tailed ==
  ASSUME NEW w \in Seq(WorkRecords), w # <<>>, OnceEach(w)
  PROVE  /\ Tail(w) \in Seq(WorkRecords) /\ OnceEach(Tail(w))
         /\ Head(w) \in WorkRecords /\ Head(w).q \in Resent(w)
         /\ Resent(Tail(w)) = Resent(w) \ {Head(w).q}
<1>1. /\ Head(w) \in WorkRecords /\ Tail(w) \in Seq(WorkRecords)
      /\ Len(Tail(w)) = Len(w) - 1
      /\ \A i \in 1..Len(Tail(w)) : Tail(w)[i] = w[i + 1]
      /\ Head(w) = w[1]
  BY HeadTailProperties
<1>. DEFINE t == Tail(w)
<1>2. Len(w) \in Nat /\ DOMAIN w = 1..Len(w) /\ Len(w) > 0
  BY LenProperties, EmptySeq
<1>3. DOMAIN t = 1..(Len(w) - 1)
  BY <1>1, LenProperties
<1>4. 1 \in DOMAIN w /\ Head(w).q = w[1].q
  BY <1>1, <1>2
<1>5. \A i \in DOMAIN t : i + 1 \in DOMAIN w /\ i + 1 # 1 /\ t[i] = w[i + 1]
  BY <1>1, <1>2, <1>3
<1>6. \A j \in DOMAIN w : j = 1 \/ (j - 1 \in DOMAIN t /\ t[j - 1] = w[j])
  <2>. SUFFICES ASSUME NEW j \in DOMAIN w, j # 1
                PROVE  j - 1 \in DOMAIN t /\ t[j - 1] = w[j]
    OBVIOUS
  <2>1. j - 1 \in 1..(Len(w) - 1) /\ j - 1 + 1 = j
    BY <1>2
  <2>. QED BY <1>1, <1>3, <2>1
<1>7. \A i, j \in DOMAIN t : i + 1 = j + 1 => i = j
  BY <1>2, <1>3
<1>. HIDE DEF t
<1>8. OnceEach(t)
  BY <1>5, <1>7 DEF OnceEach
<1>9. \A q : q \in Resent(t) => q \in Resent(w) /\ q # Head(w).q
  BY <1>4, <1>5 DEF Resent, OnceEach
<1>10. \A q : q \in Resent(w) /\ q # Head(w).q => q \in Resent(t)
  BY <1>4, <1>6 DEF Resent
<1>11. Resent(t) = Resent(w) \ {Head(w).q}
  BY <1>9, <1>10
<1>. QED BY <1>1, <1>4, <1>8, <1>11 DEF t, Resent

\* the queries of a connection come first
LEMMA Joined ==
  ASSUME NEW v \in Seq(WorkRecords), NEW w \in Seq(WorkRecords), OnceEach(v), OnceEach(w),
         \A q \in Resent(v) : q \notin Resent(w)
  PROVE  /\ v \o w \in Seq(WorkRecords) /\ OnceEach(v \o w)
         /\ Resent(v \o w) = Resent(v) \union Resent(w)
<1>. DEFINE u == v \o w
            m == Len(v)
            n == Len(w)
<1>1. /\ u \in Seq(WorkRecords) /\ Len(u) = m + n
      /\ \A i \in 1..m + n : u[i] = IF i <= m THEN v[i] ELSE w[i - m]
  BY ConcatProperties
<1>2. m \in Nat /\ n \in Nat /\ DOMAIN v = 1..m /\ DOMAIN w = 1..n
  BY LenProperties
<1>3. DOMAIN u = 1..m + n
  BY <1>1, LenProperties
<1>. HIDE DEF u, m, n
<1>4. ASSUME NEW i \in DOMAIN u
      PROVE  \/ i \in DOMAIN v /\ u[i] = v[i] /\ i <= m
             \/ i - m \in DOMAIN w /\ u[i] = w[i - m] /\ i > m
  BY <1>1, <1>2, <1>3
<1>5. \A i \in DOMAIN v : i \in DOMAIN u /\ u[i] = v[i]
  BY <1>1, <1>2, <1>3
<1>6. \A i \in DOMAIN w : i + m \in DOMAIN u /\ u[i + m] = w[i]
  <2>. SUFFICES ASSUME NEW i \in DOMAIN w PROVE i + m \in DOMAIN u /\ u[i + m] = w[i]
    OBVIOUS
  <2>. DEFINE k == i + m
  <2>1. k \in 1..m + n /\ ~(k <= m) /\ k - m = i
    BY <1>2
  <2>. HIDE DEF k
  <2>2. k \in DOMAIN u /\ u[k] = w[i]
    BY <1>1, <1>3, <2>1
  <2>. QED BY <2>2 DEF k
<1>7. Resent(u) = Resent(v) \union Resent(w)
  BY <1>4, <1>5, <1>6 DEF Resent
<1>8. ASSUME NEW i \in DOMAIN u, NEW j \in DOMAIN u, u[i].q = u[j].q PROVE i = j
  <2>1. i \in Nat /\ j \in Nat
    BY <1>2, <1>3
  <2>2. i <= m => i \in DOMAIN v /\ u[i].q = v[i].q
    BY <1>2, <1>4, <2>1
  <2>3. j <= m => j \in DOMAIN v /\ u[j].q = v[j].q
    BY <1>2, <1>4, <2>1
  <2>4. i > m => i - m \in DOMAIN w /\ u[i].q = w[i - m].q
    BY <1>2, <1>4, <2>1
  <2>5. j > m => j - m \in DOMAIN w /\ u[j].q = w[j - m].q
    BY <1>2, <1>4, <2>1
  <2>6. CASE i <= m /\ j <= m
    BY <1>8, <2>2, <2>3, <2>6 DEF OnceEach
  <2>7. CASE i > m /\ j > m
    <3>1. i - m = j - m
      BY <1>8, <2>4, <2>5, <2>7 DEF OnceEach
    <3>. QED BY <1>2, <2>1, <3>1
  <2>8. CASE i <= m /\ j > m
    BY <1>8, <2>2, <2>5, <2>8 DEF Resent
  <2>9. CASE i > m /\ j <= m
    BY <1>8, <2>3, <2>4, <2>9 DEF Resent
  <2>. QED BY <1>2, <2>1, <2>6, <2>7, <2>8, <2>9
<1>9. OnceEach(u)
  BY <1>8 DEF OnceEach
<1>. QED BY <1>1, <1>7, <1>9 DEF u

-----------------------------------------------------------------------------
(***************************************************************************)
(* Every step keeps the invariant.                                         *)
(***************************************************************************)
LEMMA Types ==
  ASSUME DnsTypeOK
  PROVE  /\ \A q \in Queries : query[q] \in QueryRecords
         /\ \A s \in Servers : /\ conn[s] \in ConnRecords /\ conn[s].ql \in Seq(Queries)
                               /\ s \in Nat
         /\ \A s \in Servers : \A q \in Waiting(s) : q \in Queries
         /\ \A q \in Resent(work) : q \in Queries
<1>1. \A s \in Servers : conn[s] \in ConnRecords /\ conn[s].ql \in Seq(Queries)
  BY DEF DnsTypeOK, ConnRecords
<1>2. \A s \in Servers : \A q \in Waiting(s) : q \in Queries
  BY <1>1, Positions DEF Waiting
<1>3. \A i \in DOMAIN work : work[i].q \in Queries
  <2>1. \A i \in DOMAIN work : work[i] \in WorkRecords
    BY Positions DEF DnsTypeOK
  <2>. QED BY <2>1 DEF WorkRecords
<1>. QED BY <1>1, <1>2, <1>3, DnsAssumption DEF DnsTypeOK, Resent, Servers

LEMMA Records ==
  ASSUME NEW r \in QueryRecords
  PROVE  /\ Ended(r) \in QueryRecords /\ Ended(r).st = "done" /\ Ended(r).told = r.told
         /\ Told(r) \in QueryRecords /\ Told(r).st = "done" /\ Told(r).told = r.told + 1
         /\ Ended(r).proto = r.proto /\ Told(r).proto = r.proto
<1>. DEFINE e == Ended(r)
<1>1. r.told \in Nat /\ r.told + 1 \in Nat
  BY DEF QueryRecords
<1>2. e \in QueryRecords /\ e.st = "done" /\ e.told = r.told /\ e.proto = r.proto
  BY DEF QueryRecords, Ended
<1>3. Told(r) = [e EXCEPT !.told = e.told + 1]
  BY DEF Told
<1>. HIDE DEF e
<1>4. /\ Told(r) \in QueryRecords /\ Told(r).st = "done" /\ Told(r).told = r.told + 1
      /\ Told(r).proto = r.proto
  BY <1>1, <1>2, <1>3 DEF QueryRecords
<1>. QED BY <1>2, <1>4 DEF e

\* one query changes that is at none of the places
LEMMA ElsewhereKept ==
  ASSUME DnsInv, NEW q \in Queries, NEW r \in QueryRecords,
         query' = [query EXCEPT ![q] = r], UNCHANGED <<alive, srvc, conn, work>>,
         \A s \in Servers : q \notin Waiting(s), q \notin Resent(work),
         r.told <= 1, r.st # "done" => r.told = 0,
         r.st = "open" => r.proto = "udp", r.st # "none"
  PROVE  DnsInv'
<1>1. DnsTypeOK /\ DnsTypeOK'
  BY DEF DnsInv, DnsTypeOK
<1>2. query'[q] = r /\ \A p \in Queries : p # q => query'[p] = query[p]
  BY <1>1 DEF DnsTypeOK
<1>3. Told1'
  BY <1>2 DEF DnsInv, Told1
<1>4. Apart'
  BY DEF DnsInv, Apart, Waiting
<1>5. Kept'
  BY <1>1, <1>2, Types DEF DnsInv, Kept, Waiting, TcpOpen, Open
<1>. QED BY <1>1, <1>3, <1>4, <1>5 DEF DnsInv

\* query_abort of a query that is over
LEMMA Aborted ==
  ASSUME DnsInv, work = <<>>, NEW q \in Queries, NEW r \in QueryRecords,
         query' = [query EXCEPT ![q] = r], conn' = Without(q),
         UNCHANGED <<alive, srvc, work>>,
         r.told <= 1, r.st = "done"
  PROVE  DnsInv'
<1>1. DnsTypeOK /\ Told1 /\ Apart /\ Kept
  BY DEF DnsInv
<1>2. query'[q] = r /\ \A p \in Queries : p # q => query'[p] = query[p]
  BY <1>1 DEF DnsTypeOK
<1>3. ASSUME NEW s \in Servers
      PROVE  /\ conn'[s] \in ConnRecords /\ conn'[s].st = conn[s].st
             /\ IsInjective(conn'[s].ql) /\ Waiting(s)' = Waiting(s) \ {q}
  <2>1. conn[s] \in ConnRecords /\ conn[s].ql \in Seq(Queries) /\ IsInjective(conn[s].ql)
    BY <1>1, Types DEF Apart
  <2>2. conn'[s] = [conn[s] EXCEPT !.ql = RemoveFirst(conn[s].ql, q)]
    BY DEF Without
  <2>3. /\ RemoveFirst(conn[s].ql, q) \in Seq(Queries)
        /\ IsInjective(RemoveFirst(conn[s].ql, q))
        /\ ToSet(RemoveFirst(conn[s].ql, q)) = Waiting(s) \ {q}
    BY <2>1, Unlinked DEF Waiting
  <2>. QED BY <2>1, <2>2, <2>3 DEF ConnRecords, Waiting
<1>4. DnsTypeOK'
  <2>1. conn' = [s \in Servers |-> conn'[s]]
    BY DEF Without
  <2>. QED BY <1>1, <1>3, <2>1 DEF DnsTypeOK
<1>5. Told1'
  BY <1>1, <1>2 DEF Told1
<1>6. Resent(work)' = {} /\ Resent(work) = {}
  BY DEF Resent
<1>7. Apart'
  BY <1>1, <1>3, <1>6 DEF Apart
<1>8. Kept'
  BY <1>1, <1>2, <1>3, <1>6, Types DEF Kept, TcpOpen, Open
<1>. QED BY <1>4, <1>5, <1>7, <1>8 DEF DnsInv

\* send_tcp gives up
LEMMA HeadEnded ==
  ASSUME DnsInv, work # <<>>, NEW n \in Nat, NEW r,
         r = [Failed(Head(work)) EXCEPT !.ntx = n] \/ r = Failed(Head(work)),
         query' = [query EXCEPT ![Head(work).q] = r],
         work' = Tail(work), UNCHANGED <<alive, srvc, conn>>
  PROVE  DnsInv'
<1>. DEFINE q == Head(work).q
<1>1. DnsTypeOK /\ Told1 /\ Apart /\ Kept
  BY DEF DnsInv
<1>2. /\ Tail(work) \in Seq(WorkRecords) /\ OnceEach(Tail(work))
      /\ q \in Resent(work) /\ Resent(Tail(work)) = Resent(work) \ {q}
  BY <1>1, Tailed DEF DnsTypeOK, Apart
<1>3. q \in Queries /\ TcpOpen(q) /\ query[q] \in QueryRecords /\ query[q].told = 0
  BY <1>1, <1>2, Types DEF Kept, Told1, TcpOpen, Open
<1>4. r \in QueryRecords /\ r.st = "done" /\ r.told <= 1
  <2>1. Failed(Head(work)) = Ended(query[q]) \/ Failed(Head(work)) = Told(query[q])
    BY DEF Failed
  <2>2. /\ Failed(Head(work)) \in QueryRecords /\ Failed(Head(work)).st = "done"
        /\ Failed(Head(work)).told <= 1
    BY <1>3, <2>1, Records
  <2>. QED BY <2>2 DEF QueryRecords
<1>. HIDE DEF q
<1>5. query'[q] = r /\ \A p \in Queries : p # q => query'[p] = query[p]
  BY <1>1, <1>3 DEF DnsTypeOK, q
<1>6. DnsTypeOK'
  BY <1>1, <1>2, <1>3, <1>4 DEF DnsTypeOK, q
<1>7. Told1'
  BY <1>1, <1>4, <1>5 DEF Told1
<1>8. Apart'
  BY <1>1, <1>2 DEF Apart, Waiting
<1>9. Kept'
  <2>1. \A s \in Servers : q \notin Waiting(s)
    BY <1>1, <1>2 DEF Apart
  <2>. QED BY <1>1, <1>2, <1>4, <1>5, <2>1, Types DEF Kept, Waiting, TcpOpen, Open
<1>. QED BY <1>6, <1>7, <1>8, <1>9 DEF DnsInv

\* the query joins a connection
LEMMA Attached ==
  ASSUME DnsInv, NEW s \in Servers, Trying(s), NEW st \in {"connecting", "connected"},
         NEW sent \in BOOLEAN, Attach(s, st, sent), UNCHANGED <<alive, srvc>>,
         conn[s].st = "none" \/ conn[s].st = st, st = "connected" => sent
  PROVE  DnsInv'
<1>. DEFINE q == Head(work).q
<1>1. DnsTypeOK /\ Told1 /\ Apart /\ Kept /\ work # <<>> /\ s \in Nat
  BY Types DEF DnsInv, Trying
<1>2. /\ Tail(work) \in Seq(WorkRecords) /\ OnceEach(Tail(work))
      /\ q \in Resent(work) /\ Resent(Tail(work)) = Resent(work) \ {q}
  BY <1>1, Tailed DEF DnsTypeOK, Apart
<1>3. /\ q \in Queries /\ TcpOpen(q) /\ query[q] \in QueryRecords
      /\ \A t \in Servers : q \notin Waiting(t)
  BY <1>1, <1>2, Types DEF Kept, Apart
<1>4. /\ work' = Tail(work)
      /\ conn' = [conn EXCEPT ![s] = [st |-> st, ql |-> Append(conn[s].ql, q)]]
      /\ query' = [query EXCEPT ![q] = [query[q] EXCEPT !.ntx = s, !.sent = sent]]
  BY <1>1, <1>3 DEF Attach, DnsTypeOK
<1>. HIDE DEF q
<1>5. /\ Append(conn[s].ql, q) \in Seq(Queries) /\ IsInjective(Append(conn[s].ql, q))
      /\ ToSet(Append(conn[s].ql, q)) = Waiting(s) \union {q}
  <2>1. conn[s].ql \in Seq(Queries) /\ IsInjective(conn[s].ql) /\ q \notin ToSet(conn[s].ql)
    BY <1>1, <1>3, Types DEF Apart, Waiting
  <2>. QED BY <1>3, <2>1, Appended DEF Waiting
<1>6. /\ conn'[s] = [st |-> st, ql |-> Append(conn[s].ql, q)]
      /\ \A t \in Servers : t # s => conn'[t] = conn[t]
  BY <1>1, <1>4 DEF DnsTypeOK
<1>7. /\ query'[q] = [query[q] EXCEPT !.ntx = s, !.sent = sent]
      /\ \A p \in Queries : p # q => query'[p] = query[p]
  BY <1>1, <1>3, <1>4 DEF DnsTypeOK
<1>8. /\ query'[q] \in QueryRecords /\ query'[q].st = query[q].st
      /\ query'[q].proto = query[q].proto /\ query'[q].told = query[q].told
      /\ query'[q].sent = sent
  BY <1>1, <1>3, <1>7 DEF QueryRecords
<1>9. DnsTypeOK'
  <2>1. [st |-> st, ql |-> Append(conn[s].ql, q)] \in ConnRecords
    BY <1>5 DEF ConnRecords
  <2>. QED BY <1>1, <1>2, <1>3, <1>4, <1>7, <1>8, <2>1 DEF DnsTypeOK
<1>10. Told1'
  BY <1>1, <1>7, <1>8 DEF Told1
<1>11. Waiting(s)' = Waiting(s) \union {q} /\ \A t \in Servers : t # s => Waiting(t)' = Waiting(t)
  BY <1>5, <1>6 DEF Waiting
<1>12. Apart'
  <2>1. ASSUME NEW t \in Servers PROVE IsInjective(conn'[t].ql)
    <3>1. CASE t = s
      <4>1. conn'[s].ql = Append(conn[s].ql, q)
        BY <1>6
      <4>. QED BY <1>5, <3>1, <4>1
    <3>2. CASE t # s
      BY <1>1, <1>6, <3>2 DEF Apart
    <3>. QED BY <3>1, <3>2
  <2>2. Resent(work)' = Resent(work) \ {q} /\ OnceEach(work)'
    BY <1>2, <1>4
  <2>. QED BY <1>1, <1>3, <1>11, <2>1, <2>2 DEF Apart
<1>13. Kept'
  <2>1. Resent(work)' = Resent(work) \ {q}
    BY <1>2, <1>4
  <2>2. \A p \in Queries : TcpOpen(p)' <=> TcpOpen(p)
    BY <1>7, <1>8 DEF TcpOpen, Open
  <2>3. ASSUME NEW t \in Servers, NEW p \in Waiting(t)'
        PROVE  /\ TcpOpen(p)'
               /\ \/ conn'[t].st = "connecting"
                  \/ conn'[t].st = "connected" /\ query'[p].sent
    <3>1. CASE p = q
      <4>1. t = s
        BY <1>3, <1>11, <2>3, <3>1
      <4>. QED BY <1>3, <1>6, <1>8, <2>2, <3>1, <4>1
    <3>2. CASE p # q
      <4>1. p \in Waiting(t) /\ p \in Queries /\ query'[p] = query[p]
        BY <1>1, <1>7, <1>11, <2>3, <3>2, Types
      <4>2. conn'[t].st = conn[t].st
        BY <1>1, <1>6, <4>1 DEF Kept
      <4>. QED BY <1>1, <2>2, <4>1, <4>2 DEF Kept
    <3>. QED BY <3>1, <3>2
  <2>4. \A p \in Resent(work)' : TcpOpen(p)'
    BY <1>1, <2>1, <2>2, Types DEF Kept
  <2>5. \A p \in Queries : TcpOpen(p)' => p \in Resent(work)' \/ \E t \in Servers : p \in Waiting(t)'
    BY <1>1, <1>11, <2>1, <2>2 DEF Kept
  <2>6. \A p \in Queries : query'[p].st = "none" => query'[p].proto = "udp"
    <3>1. \A p \in Queries : query'[p].st = query[p].st /\ query'[p].proto = query[p].proto
      BY <1>7, <1>8
    <3>2. \A p \in Queries : query[p].st = "none" => query[p].proto = "udp"
      BY <1>1 DEF Kept
    <3>. QED BY <3>1, <3>2
  <2>. QED BY <2>3, <2>4, <2>5, <2>6 DEF Kept
<1>. QED BY <1>9, <1>10, <1>12, <1>13 DEF DnsInv

\* The connection to server s is closed and w is under way instead: its queries, but those that
\* are over, before what was.
LEMMA Closed ==
  ASSUME DnsInv, NEW s \in Servers, conn' = [conn EXCEPT ![s] = NoConn],
         UNCHANGED <<alive, srvc>>, query' \in [Queries -> QueryRecords],
         work' \in Seq(WorkRecords), OnceEach(work)',
         Resent(work)' = {p \in Waiting(s) : query'[p].st = "open"} \union Resent(work),
         \A p \in Queries :
            /\ query'[p].proto = query[p].proto
            /\ p \notin Waiting(s) => query'[p].sent = query[p].sent
            /\ \/ query'[p].st = query[p].st /\ query'[p].told = query[p].told
               \/ p \in Waiting(s) /\ query'[p].st = "done" /\ query'[p].told = query[p].told + 1
  PROVE  DnsInv'
<1>1. DnsTypeOK /\ Told1 /\ Apart /\ Kept
  BY DEF DnsInv
<1>2. /\ conn'[s] = NoConn
      /\ \A t \in Servers : t # s => conn'[t] = conn[t]
  BY <1>1 DEF DnsTypeOK
<1>3. Waiting(s)' = {} /\ \A t \in Servers : t # s => Waiting(t)' = Waiting(t)
  BY <1>2 DEF Waiting, NoConn, ToSet
<1>4. IsInjective(NoConn.ql) /\ NoConn \in ConnRecords
  BY DEF NoConn, ConnRecords, IsInjective
<1>5. DnsTypeOK'
  BY <1>1, <1>4 DEF DnsTypeOK
<1>6. Told1'
  <2>1. ASSUME NEW p \in Queries, p \in Waiting(s) PROVE query[p].told = 0
    BY <1>1, <2>1 DEF Kept, TcpOpen, Open, Told1
  <2>. QED BY <1>1, <2>1 DEF Told1
<1>7. Apart'
  <2>1. \A t \in Servers : IsInjective(conn'[t].ql)
    BY <1>1, <1>2, <1>4 DEF Apart
  <2>2. \A t, u \in Servers : \A p \in Queries : p \in Waiting(t)' /\ p \in Waiting(u)' => t = u
    BY <1>1, <1>3 DEF Apart
  <2>3. ASSUME NEW t \in Servers, NEW p \in Waiting(t)' PROVE p \notin Resent(work)'
    <3>1. t # s /\ p \in Waiting(t) /\ p \in Queries
      BY <1>1, <1>3, <2>3, Types
    <3>2. p \notin Waiting(s) /\ p \notin Resent(work)
      BY <1>1, <3>1 DEF Apart
    <3>. QED BY <3>2
  <2>. QED BY <2>1, <2>2, <2>3 DEF Apart
<1>8. Kept'
  <2>1. \A p \in Queries : TcpOpen(p)' => TcpOpen(p)
    BY DEF TcpOpen, Open
  <2>2. \A p \in Queries : p \notin Waiting(s) /\ TcpOpen(p) => TcpOpen(p)'
    BY DEF TcpOpen, Open
  <2>3. ASSUME NEW t \in Servers, NEW p \in Waiting(t)'
        PROVE  /\ TcpOpen(p)'
               /\ \/ conn'[t].st = "connecting"
                  \/ conn'[t].st = "connected" /\ query'[p].sent
    <3>1. t # s /\ p \in Waiting(t) /\ p \in Queries /\ conn'[t] = conn[t]
      BY <1>1, <1>2, <1>3, <2>3, Types
    <3>2. p \notin Waiting(s)
      BY <1>1, <3>1 DEF Apart
    <3>3. query'[p].sent = query[p].sent
      BY <3>1, <3>2
    <3>. QED BY <1>1, <2>2, <3>1, <3>2, <3>3 DEF Kept
  <2>4. ASSUME NEW p \in Resent(work)' PROVE TcpOpen(p)'
    <3>1. CASE p \in Waiting(s) /\ query'[p].st = "open"
      <4>1. p \in Queries /\ TcpOpen(p)
        BY <1>1, <3>1, Types DEF Kept
      <4>. QED BY <3>1, <4>1 DEF TcpOpen, Open
    <3>2. CASE p \in Resent(work)
      <4>1. p \in Queries /\ TcpOpen(p) /\ p \notin Waiting(s)
        BY <1>1, <3>2, Types DEF Kept, Apart
      <4>. QED BY <2>2, <4>1
    <3>. QED BY <2>4, <3>1, <3>2
  <2>5. ASSUME NEW p \in Queries, TcpOpen(p)'
        PROVE  p \in Resent(work)' \/ \E t \in Servers : p \in Waiting(t)'
    <3>1. CASE p \in Waiting(s)
      BY <2>5, <3>1 DEF TcpOpen, Open
    <3>2. CASE p \notin Waiting(s)
      BY <1>1, <1>3, <2>1, <2>5, <3>2 DEF Kept
    <3>. QED BY <3>1, <3>2
  <2>6. \A p \in Queries : query'[p].st = "none" => query'[p].proto = "udp"
    BY <1>1 DEF Kept
  <2>. QED BY <2>3, <2>4, <2>5, <2>6 DEF Kept
<1>. QED BY <1>5, <1>6, <1>7, <1>8 DEF DnsInv

\* the queries of a connection are not sent any more, and nothing else of them changes
LEMMA UnsentOnly ==
  ASSUME DnsTypeOK, NEW qs
  PROVE  /\ Unsent(qs) \in [Queries -> QueryRecords]
         /\ \A p \in Queries :
              /\ Unsent(qs)[p].st = query[p].st /\ Unsent(qs)[p].proto = query[p].proto
              /\ Unsent(qs)[p].told = query[p].told
              /\ p \notin qs => Unsent(qs)[p].sent = query[p].sent
<1>1. ASSUME NEW p \in Queries
      PROVE  /\ Unsent(qs)[p] \in QueryRecords
             /\ Unsent(qs)[p].st = query[p].st /\ Unsent(qs)[p].proto = query[p].proto
             /\ Unsent(qs)[p].told = query[p].told
             /\ p \notin qs => Unsent(qs)[p].sent = query[p].sent
  <2>. DEFINE b == query[p].sent /\ p \notin qs
  <2>1. query[p] \in QueryRecords /\ query[p].sent \in BOOLEAN
    BY Types DEF QueryRecords
  <2>2. Unsent(qs)[p] = [query[p] EXCEPT !.sent = b]
    BY DEF Unsent
  <2>3. b \in BOOLEAN /\ (p \notin qs => b = query[p].sent)
    BY <2>1
  <2>. HIDE DEF b
  <2>. QED BY <2>1, <2>2, <2>3 DEF QueryRecords
<1>2. Unsent(qs) = [p \in Queries |-> Unsent(qs)[p]]
  BY DEF Unsent
<1>. QED BY <1>1, <1>2

LEMMA ConnLostKeeps ==
  ASSUME DnsInv, NEW s \in Servers, ConnLost(s)
  PROVE  DnsInv'
<1>1. /\ DnsTypeOK /\ Apart /\ Kept /\ work = <<>>
      /\ conn[s].ql \in Seq(Queries) /\ IsInjective(conn[s].ql)
  BY Types DEF DnsInv, Apart, ConnLost, Idle
<1>2. /\ conn' = [conn EXCEPT ![s] = NoConn] /\ query' = Unsent(Waiting(s))
      /\ work' = Retries(conn[s].ql) /\ UNCHANGED <<alive, srvc>>
  BY DEF ConnLost, Close
<1>3. /\ work' \in Seq(WorkRecords) /\ OnceEach(work)' /\ Resent(work)' = Waiting(s)
  BY <1>1, <1>2, Retried DEF Waiting
<1>4. Resent(work)' = {p \in Waiting(s) : query'[p].st = "open"} \union Resent(work)
  <2>1. \A p \in Waiting(s) : p \in Queries /\ query'[p].st = "open"
    BY <1>1, <1>2, Types, UnsentOnly DEF Kept, TcpOpen, Open
  <2>. QED BY <1>1, <1>3, <2>1 DEF Resent
<1>. QED BY <1>1, <1>2, <1>3, <1>4, UnsentOnly, Closed

LEMMA BadReplyKeeps ==
  ASSUME DnsInv, NEW s \in Servers, NEW q \in Queries, BadReply(s, q)
  PROVE  DnsInv'
<1>1. /\ DnsTypeOK /\ Apart /\ Kept /\ work = <<>> /\ q \in Waiting(s)
      /\ conn[s].ql \in Seq(Queries) /\ IsInjective(conn[s].ql)
  BY Types DEF DnsInv, Apart, BadReply, Idle
<1>2. /\ conn' = [conn EXCEPT ![s] = NoConn] /\ UNCHANGED <<alive, srvc>>
      /\ query' = [Unsent(Waiting(s)) EXCEPT ![q] = Told(query[q])]
      /\ work' = Retries(RemoveFirst(conn[s].ql, q))
  <2>1. conn[s] \in ConnRecords
    BY <1>1, Types
  <2>2. Without(q)[s].ql = RemoveFirst(conn[s].ql, q)
    BY <2>1 DEF Without, ConnRecords
  <2>. QED BY <2>2 DEF BadReply
<1>3. /\ RemoveFirst(conn[s].ql, q) \in Seq(Queries)
      /\ IsInjective(RemoveFirst(conn[s].ql, q))
      /\ ToSet(RemoveFirst(conn[s].ql, q)) = Waiting(s) \ {q}
  BY <1>1, Unlinked DEF Waiting
<1>4. /\ work' \in Seq(WorkRecords) /\ OnceEach(work)' /\ Resent(work)' = Waiting(s) \ {q}
  BY <1>2, <1>3, Retried
<1>5. /\ Told(query[q]) \in QueryRecords /\ Told(query[q]).st = "done"
      /\ Told(query[q]).told = query[q].told + 1 /\ Told(query[q]).proto = query[q].proto
  BY <1>1, Types, Records
<1>6. /\ query' \in [Queries -> QueryRecords] /\ query'[q] = Told(query[q])
      /\ \A p \in Queries : p # q => query'[p] = Unsent(Waiting(s))[p]
  BY <1>1, <1>2, <1>5, UnsentOnly
<1>7. \A p \in Queries :
         /\ query'[p].proto = query[p].proto
         /\ p \notin Waiting(s) => query'[p].sent = query[p].sent
         /\ p # q => query'[p].st = query[p].st /\ query'[p].told = query[p].told
  BY <1>1, <1>5, <1>6, UnsentOnly
<1>8. Resent(work)' = {p \in Waiting(s) : query'[p].st = "open"} \union Resent(work)
  <2>1. \A p \in Waiting(s) : p \in Queries /\ (p # q => query'[p].st = "open")
    BY <1>1, <1>7, Types DEF Kept, TcpOpen, Open
  <2>2. query'[q].st # "open"
    BY <1>5, <1>6
  <2>. QED BY <1>1, <1>4, <2>1, <2>2 DEF Resent
<1>. QED BY <1>1, <1>2, <1>4, <1>5, <1>6, <1>7, <1>8, Closed

\* The connection fails under a query that wants to be sent on it
LEMMA SendsKeeps ==
  ASSUME DnsInv, NEW s \in Servers, NEW ok \in BOOLEAN, Sends(s, ok)
  PROVE  DnsInv'
<1>1. CASE ok
  <2>1. /\ Trying(s) /\ conn[s].st = "connected"
        /\ Attach(s, "connected", TRUE) /\ UNCHANGED <<alive, srvc>>
    BY <1>1 DEF Sends
  <2>. QED BY <2>1, Attached
<1>2. CASE ~ok
  <2>. DEFINE q == Head(work).q
  <2>1. /\ DnsTypeOK /\ Apart /\ Kept /\ work # <<>> /\ s \in Nat
        /\ conn[s].ql \in Seq(Queries) /\ IsInjective(conn[s].ql)
        /\ work \in Seq(WorkRecords) /\ OnceEach(work)
    BY Types DEF DnsInv, DnsTypeOK, Apart, Sends, Trying
  <2>2. /\ conn' = [conn EXCEPT ![s] = NoConn] /\ UNCHANGED <<alive, srvc>>
        /\ query' = [Unsent(Waiting(s)) EXCEPT ![q].ntx = s]
        /\ work' = Retries(conn[s].ql) \o Marked(work)
    BY <1>2 DEF Sends, Marked
  <2>3. q \in Queries /\ q \in Resent(work) /\ q \notin Waiting(s)
    BY <2>1, Tailed, Types DEF Apart
  <2>. HIDE DEF q
  <2>4. /\ Retries(conn[s].ql) \in Seq(WorkRecords) /\ OnceEach(Retries(conn[s].ql))
        /\ Resent(Retries(conn[s].ql)) = Waiting(s)
    BY <2>1, Retried DEF Waiting
  <2>5. /\ Marked(work) \in Seq(WorkRecords) /\ OnceEach(Marked(work))
        /\ Resent(Marked(work)) = Resent(work)
    BY <2>1, MarkedSame
  <2>6. \A p \in Waiting(s) : p \notin Resent(work)
    BY <2>1 DEF Apart
  <2>7. /\ work' \in Seq(WorkRecords) /\ OnceEach(work)'
        /\ Resent(work)' = Waiting(s) \union Resent(work)
    BY <2>2, <2>4, <2>5, <2>6, Joined
  <2>8. Unsent(Waiting(s)) \in [Queries -> QueryRecords]
    BY <2>1, UnsentOnly
  <2>. DEFINE u == Unsent(Waiting(s))[q]
  <2>9. u \in QueryRecords /\ [u EXCEPT !.ntx = s] \in QueryRecords
    BY <2>1, <2>3, <2>8 DEF QueryRecords
  <2>10. /\ query' \in [Queries -> QueryRecords]
         /\ \A p \in Queries : p # q => query'[p] = Unsent(Waiting(s))[p]
         /\ query'[q] = [u EXCEPT !.ntx = s]
    BY <2>2, <2>3, <2>8, <2>9
  <2>11. /\ query'[q].st = u.st /\ query'[q].proto = u.proto
         /\ query'[q].told = u.told /\ query'[q].sent = u.sent
    BY <2>9, <2>10 DEF QueryRecords
  <2>12. \A p \in Queries :
            /\ query'[p].proto = query[p].proto
            /\ p \notin Waiting(s) => query'[p].sent = query[p].sent
            /\ query'[p].st = query[p].st /\ query'[p].told = query[p].told
    <3>. DEFINE v == Unsent(Waiting(s))
    <3>1. \A p \in Queries :
             /\ query'[p].proto = v[p].proto /\ query'[p].sent = v[p].sent
             /\ query'[p].st = v[p].st /\ query'[p].told = v[p].told
      BY <2>10, <2>11
    <3>2. \A p \in Queries :
             /\ v[p].st = query[p].st /\ v[p].proto = query[p].proto
             /\ v[p].told = query[p].told
             /\ p \notin Waiting(s) => v[p].sent = query[p].sent
      BY <2>1, UnsentOnly
    <3>. HIDE DEF v
    <3>. QED BY <3>1, <3>2
  <2>13. Resent(work)' = {p \in Waiting(s) : query'[p].st = "open"} \union Resent(work)
    <3>1. \A p \in Waiting(s) : p \in Queries /\ query'[p].st = "open"
      BY <2>1, <2>12, Types DEF Kept, TcpOpen, Open
    <3>. QED BY <2>7, <3>1
  <2>. QED BY <2>2, <2>7, <2>10, <2>12, <2>13, Closed
<1>. QED BY <1>1, <1>2

\* the connection is set up
LEMMA EstabKeeps ==
  ASSUME DnsInv, NEW s \in Servers, Estab(s)
  PROVE  DnsInv'
<1>1. /\ DnsTypeOK /\ Told1 /\ Apart /\ Kept /\ conn[s].st = "connecting"
      /\ UNCHANGED <<alive, srvc, work>>
  BY DEF DnsInv, Estab
<1>2. /\ conn' = [conn EXCEPT ![s] = [conn[s] EXCEPT !.st = "connected"]]
      /\ conn'[s] = [conn[s] EXCEPT !.st = "connected"]
      /\ \A t \in Servers : t # s => conn'[t] = conn[t]
  BY <1>1 DEF Estab, DnsTypeOK
<1>3. /\ conn'[s] \in ConnRecords /\ conn'[s].st = "connected" /\ conn'[s].ql = conn[s].ql
  BY <1>1, <1>2, Types DEF ConnRecords
<1>4. ASSUME NEW p \in Queries
      PROVE  /\ query'[p] \in QueryRecords
             /\ query'[p].st = query[p].st /\ query'[p].proto = query[p].proto
             /\ query'[p].told = query[p].told
             /\ query'[p].sent = (query[p].sent \/ p \in Waiting(s))
  <2>. DEFINE b == query[p].sent \/ p \in Waiting(s)
  <2>1. query[p] \in QueryRecords /\ b \in BOOLEAN
    BY <1>1, Types DEF QueryRecords
  <2>2. query'[p] = [query[p] EXCEPT !.sent = b]
    BY DEF Estab
  <2>. HIDE DEF b
  <2>3. /\ query'[p] \in QueryRecords /\ query'[p].sent = b
        /\ query'[p].st = query[p].st /\ query'[p].proto = query[p].proto
        /\ query'[p].told = query[p].told
    BY <2>1, <2>2 DEF QueryRecords
  <2>. QED BY <2>3 DEF b
<1>5. DnsTypeOK'
  <2>1. query' = [p \in Queries |-> query'[p]]
    BY DEF Estab
  <2>2. conn' \in [Servers -> ConnRecords]
    BY <1>1, <1>2, <1>3 DEF DnsTypeOK
  <2>. QED BY <1>1, <1>4, <2>1, <2>2 DEF DnsTypeOK
<1>6. Told1'
  BY <1>1, <1>4 DEF Told1
<1>7. \A t \in Servers : conn'[t].ql = conn[t].ql /\ Waiting(t)' = Waiting(t)
  BY <1>2, <1>3 DEF Waiting
<1>8. Apart'
  BY <1>1, <1>7 DEF Apart
<1>9. Kept'
  <2>1. \A p \in Queries : TcpOpen(p)' <=> TcpOpen(p)
    BY <1>4 DEF TcpOpen, Open
  <2>2. ASSUME NEW t \in Servers, NEW p \in Waiting(t)'
        PROVE  /\ TcpOpen(p)'
               /\ \/ conn'[t].st = "connecting"
                  \/ conn'[t].st = "connected" /\ query'[p].sent
    <3>1. /\ p \in Waiting(t) /\ p \in Queries /\ TcpOpen(p)
          /\ conn[t].st = "connecting" \/ (conn[t].st = "connected" /\ query[p].sent)
      BY <1>1, <1>7, <2>2, Types DEF Kept
    <3>2. CASE t = s
      BY <1>3, <1>4, <2>1, <3>1, <3>2
    <3>3. CASE t # s
      BY <1>2, <1>4, <2>1, <3>1, <3>3
    <3>. QED BY <3>2, <3>3
  <2>3. \A p \in Queries : query'[p].st = "none" => query'[p].proto = "udp"
    <3>1. \A p \in Queries : query[p].st = "none" => query[p].proto = "udp"
      BY <1>1 DEF Kept
    <3>. QED BY <1>4, <3>1
  <2>4. \A p \in Resent(work)' : TcpOpen(p)'
    BY <1>1, <2>1, Types DEF Kept
  <2>5. \A p \in Queries : TcpOpen(p)' => p \in Resent(work)' \/ \E t \in Servers : p \in Waiting(t)'
    BY <1>1, <1>7, <2>1 DEF Kept
  <2>. QED BY <2>2, <2>3, <2>4, <2>5 DEF Kept
<1>. QED BY <1>5, <1>6, <1>8, <1>9 DEF DnsInv

\* a new query over TCP
LEMMA QueryTcpKeeps ==
  ASSUME DnsInv, NEW q \in Queries, QueryTcp(q)
  PROVE  DnsInv'
<1>. DEFINE r == [query[q] EXCEPT !.st = "open", !.proto = "tcp"]
            w == [q |-> q, failed |-> FALSE, new |-> TRUE]
<1>1. /\ DnsTypeOK /\ Told1 /\ Apart /\ Kept /\ work = <<>>
      /\ query[q].st = "none" /\ query[q] \in QueryRecords
  BY Types DEF DnsInv, QueryTcp, Idle
<1>2. query' = [query EXCEPT ![q] = r] /\ work' = <<w>> /\ UNCHANGED <<alive, srvc, conn>>
  BY <1>1 DEF QueryTcp, DnsTypeOK
<1>3. /\ r \in QueryRecords /\ r.st = "open" /\ r.proto = "tcp" /\ r.told = query[q].told
      /\ w \in WorkRecords /\ w.q = q
  BY <1>1 DEF QueryRecords, WorkRecords
<1>. HIDE DEF r, w
<1>4. query'[q] = r /\ \A p \in Queries : p # q => query'[p] = query[p]
  BY <1>1, <1>2 DEF DnsTypeOK
<1>5. work' \in Seq(WorkRecords) /\ OnceEach(work)' /\ Resent(work)' = {q} /\ Resent(work) = {}
  BY <1>1, <1>2, <1>3 DEF OnceEach, Resent
<1>6. DnsTypeOK'
  BY <1>1, <1>2, <1>3, <1>5 DEF DnsTypeOK
<1>7. Told1'
  BY <1>1, <1>3, <1>4 DEF Told1
<1>8. \A s \in Servers : q \notin Waiting(s) /\ Waiting(s)' = Waiting(s)
  BY <1>1, <1>2 DEF Kept, TcpOpen, Open, Waiting
<1>9. Apart'
  BY <1>1, <1>2, <1>5, <1>8 DEF Apart
<1>10. Kept'
  BY <1>1, <1>2, <1>3, <1>4, <1>5, <1>8, Types DEF Kept, TcpOpen, Open
<1>. QED BY <1>6, <1>7, <1>9, <1>10 DEF DnsInv

\* send_udp
LEMMA SentUdp ==
  ASSUME DnsInv, work = <<>>, NEW q \in Queries, query[q].proto = "udp",
         NEW x \in QueryRecords, NEW lost \in QueryRecords, NEW n \in Nat,
         query' = [query EXCEPT ![q] = SendUdp(x, n, lost)],
         UNCHANGED <<alive, srvc, conn, work>>,
         x.told = 0, x.st = "open", x.proto = "udp", lost.st = "done", lost.told <= 1
  PROVE  DnsInv'
<1>1. Kept /\ Resent(work) = {}
  BY DEF DnsInv, Resent
<1>2. \A s \in Servers : q \notin Waiting(s)
  BY <1>1 DEF Kept, TcpOpen
<1>. DEFINE r == SendUdp(x, n, lost)
<1>3. /\ r \in QueryRecords /\ r.told <= 1 /\ (r.st # "done" => r.told = 0)
      /\ (r.st = "open" => r.proto = "udp") /\ r.st # "none"
  <2>1. CASE n = srvc
    BY <2>1 DEF SendUdp
  <2>2. CASE n # srvc
    <3>1. r = [x EXCEPT !.ntx = x.ntx + n + 1]
      BY <2>2 DEF SendUdp
    <3>2. x.ntx + n + 1 \in Nat
      BY DEF QueryRecords
    <3>. QED BY <3>1, <3>2 DEF QueryRecords
  <2>. QED BY <2>1, <2>2
<1>. HIDE DEF r
<1>4. query' = [query EXCEPT ![q] = r]
  BY DEF r
<1>. QED BY <1>1, <1>2, <1>3, <1>4, ElsewhereKept

LEMMA DnscCloseKeeps ==
  ASSUME DnsInv, DnscClose
  PROVE  DnsInv'
<1>1. DnsTypeOK /\ Told1 /\ Kept /\ work = <<>> /\ UNCHANGED <<srvc, work>> /\ alive' = FALSE
  BY DEF DnsInv, DnscClose, Idle
<1>2. ASSUME NEW p \in Queries
      PROVE  /\ query'[p] \in QueryRecords /\ query'[p].proto = query[p].proto
             /\ query'[p].told <= 1 /\ (query'[p].st # "done" => query'[p].told = 0)
             /\ query'[p].st # "open"
             /\ query'[p].st = "none" => query[p].st = "none"
  <2>1. query[p] \in QueryRecords /\ query[p].told <= 1
        /\ (query[p].st # "done" => query[p].told = 0)
    BY <1>1, Types DEF Told1
  <2>2. query'[p] = IF Open(p) THEN Told(query[p]) ELSE query[p]
    BY DEF DnscClose
  <2>3. /\ Told(query[p]) \in QueryRecords /\ Told(query[p]).st = "done"
        /\ Told(query[p]).told = query[p].told + 1 /\ Told(query[p]).proto = query[p].proto
    BY <2>1, Records
  <2>4. CASE Open(p)
    BY <2>1, <2>2, <2>3, <2>4 DEF Open
  <2>5. CASE ~Open(p)
    BY <2>1, <2>2, <2>5 DEF Open
  <2>. QED BY <2>4, <2>5
<1>3. /\ \A s \in Servers : conn'[s] = NoConn
      /\ NoConn \in ConnRecords /\ IsInjective(NoConn.ql) /\ ToSet(NoConn.ql) = {}
  BY DEF DnscClose, NoConn, ConnRecords, IsInjective, ToSet
<1>4. DnsTypeOK'
  <2>1. query' = [p \in Queries |-> query'[p]] /\ conn' = [s \in Servers |-> NoConn]
    BY DEF DnscClose
  <2>. QED BY <1>1, <1>2, <1>3, <2>1 DEF DnsTypeOK
<1>5. Told1'
  BY <1>2 DEF Told1
<1>6. /\ Resent(work)' = {} /\ OnceEach(work)'
      /\ \A s \in Servers : Waiting(s)' = {} /\ IsInjective(conn'[s].ql)
  BY <1>1, <1>3 DEF Resent, OnceEach, Waiting
<1>7. Apart'
  BY <1>6 DEF Apart
<1>8. Kept'
  <2>1. \A p \in Queries : query[p].st = "none" => query[p].proto = "udp"
    BY <1>1 DEF Kept
  <2>2. \A p \in Queries : ~TcpOpen(p)' /\ (query'[p].st = "none" => query'[p].proto = "udp")
    BY <1>2, <2>1 DEF TcpOpen, Open
  <2>. QED BY <1>6, <2>2 DEF Kept
<1>. QED BY <1>4, <1>5, <1>7, <1>8 DEF DnsInv

LEMMA InitHolds == DnsInit => DnsInv
<1>. SUFFICES ASSUME DnsInit PROVE DnsInv
  OBVIOUS
<1>1. /\ alive = TRUE /\ srvc \in Servers /\ work = <<>>
      /\ query = [q \in Queries |-> NewQuery] /\ conn = [s \in Servers |-> NoConn]
  BY DEF DnsInit
<1>2. /\ NewQuery \in QueryRecords /\ NewQuery.st = "none" /\ NewQuery.told = 0
      /\ NewQuery.proto = "udp"
  BY DEF NewQuery, QueryRecords
<1>3. NoConn \in ConnRecords /\ IsInjective(NoConn.ql) /\ ToSet(NoConn.ql) = {}
  BY DEF NoConn, ConnRecords, IsInjective, ToSet
<1>4. DnsTypeOK
  BY <1>1, <1>2, <1>3, DnsAssumption DEF DnsTypeOK, Servers
<1>5. Told1
  BY <1>1, <1>2 DEF Told1
<1>6. /\ Resent(work) = {} /\ OnceEach(work)
      /\ \A s \in Servers : Waiting(s) = {} /\ IsInjective(conn[s].ql)
  BY <1>1, <1>3 DEF Resent, OnceEach, Waiting
<1>7. Apart
  BY <1>6 DEF Apart
<1>8. Kept
  BY <1>1, <1>2, <1>6 DEF Kept, TcpOpen, Open
<1>. QED BY <1>4, <1>5, <1>7, <1>8 DEF DnsInv

LEMMA DnsStep == DnsInv /\ [DnsNext]_dnsVars => DnsInv'
<1>. SUFFICES ASSUME DnsInv, [DnsNext]_dnsVars PROVE DnsInv'
  OBVIOUS
<1>1. DnsTypeOK /\ Told1 /\ Kept
  BY DEF DnsInv
<1>2. ASSUME NEW q \in Queries, Open(q)
      PROVE  /\ query[q] \in QueryRecords /\ query[q].told = 0
             /\ Told(query[q]) \in QueryRecords /\ Told(query[q]).st = "done"
             /\ Told(query[q]).told = 1
             /\ Ended(query[q]) \in QueryRecords /\ Ended(query[q]).st = "done"
             /\ Ended(query[q]).told = 0
  <2>1. query[q] \in QueryRecords /\ query[q].told = 0
    BY <1>1, <1>2, Types DEF Told1, Open
  <2>. QED BY <2>1, Records
<1>3. ASSUME GiveUp PROVE DnsInv'
  BY <1>3, HeadEnded DEF GiveUp
<1>4. ASSUME NEW s \in Servers, Joins(s) PROVE DnsInv'
  <2>1. work # <<>> /\ s \in Nat /\ conn[s].st = "connecting"
    BY <1>1, <1>4, Types DEF Joins, Trying
  <2>2. CASE Head(work).failed
    <3>. DEFINE r == [Failed(Head(work)) EXCEPT !.ntx = s]
    <3>1. /\ query' = [query EXCEPT ![Head(work).q] = r]
          /\ work' = Tail(work) /\ UNCHANGED <<alive, srvc, conn>>
      BY <1>4, <2>2 DEF Joins
    <3>. QED BY <2>1, <3>1, HeadEnded
  <2>3. CASE ~Head(work).failed
    <3>1. Trying(s) /\ Attach(s, "connecting", FALSE) /\ UNCHANGED <<alive, srvc>>
      BY <1>4, <2>3 DEF Joins
    <3>. DEFINE no == FALSE
    <3>2. no \in BOOLEAN /\ Attach(s, "connecting", no)
      BY <3>1
    <3>. HIDE DEF no
    <3>. QED BY <2>1, <3>1, <3>2, Attached
  <2>. QED BY <2>2, <2>3
<1>5. ASSUME NEW s \in Servers, NEW ok \in BOOLEAN, Connects(s, ok) PROVE DnsInv'
  <2>1. CASE ok
    <3>1. /\ Trying(s) /\ conn[s].st = "none" /\ Attach(s, "connecting", FALSE)
          /\ UNCHANGED <<alive, srvc>>
      BY <1>5, <2>1 DEF Connects
    <3>. DEFINE no == FALSE
    <3>2. no \in BOOLEAN /\ Attach(s, "connecting", no)
      BY <3>1
    <3>. HIDE DEF no
    <3>. QED BY <3>1, <3>2, Attached
  <2>2. CASE ~ok
    <3>. DEFINE q == Head(work).q
    <3>1. /\ query' = [query EXCEPT ![q].ntx = s] /\ work' = Marked(work)
          /\ work # <<>> /\ s \in Nat /\ UNCHANGED <<alive, srvc, conn>>
      BY <1>1, <1>5, <2>2, Types DEF Connects, NextServer, Trying, Marked
    <3>2. work \in Seq(WorkRecords) /\ OnceEach(work) /\ Apart
      BY DEF DnsInv, DnsTypeOK, Apart
    <3>3. q \in Queries /\ query[q] \in QueryRecords
      BY <1>1, <3>1, <3>2, Tailed, Types
    <3>. HIDE DEF q
    <3>. DEFINE r == [query[q] EXCEPT !.ntx = s]
    <3>4. /\ r \in QueryRecords /\ r.st = query[q].st /\ r.proto = query[q].proto
          /\ r.told = query[q].told /\ r.sent = query[q].sent
      BY <3>1, <3>3 DEF QueryRecords
    <3>5. query' = [query EXCEPT ![q] = r]
      BY <1>1, <3>1, <3>3 DEF DnsTypeOK
    <3>. HIDE DEF r
    <3>6. query' \in [Queries -> QueryRecords]
      BY <1>1, <3>4, <3>5 DEF DnsTypeOK
    <3>7. \A p \in Queries :
             /\ query'[p].st = query[p].st /\ query'[p].proto = query[p].proto
             /\ query'[p].told = query[p].told /\ query'[p].sent = query[p].sent
      BY <1>1, <3>4, <3>5 DEF DnsTypeOK
    <3>8. work' \in Seq(WorkRecords) /\ OnceEach(work)' /\ Resent(work)' = Resent(work)
      BY <3>1, <3>2, MarkedSame
    <3>9. DnsTypeOK' /\ Told1'
      BY <1>1, <3>1, <3>6, <3>7, <3>8 DEF DnsTypeOK, Told1
    <3>10. Apart'
      BY <3>1, <3>2, <3>8 DEF Apart, Waiting
    <3>11. Kept'
      <4>1. \A p \in Queries : TcpOpen(p)' <=> TcpOpen(p)
        BY <3>7 DEF TcpOpen, Open
      <4>2. \A p \in Queries : query'[p].st = "none" => query'[p].proto = "udp"
        <5>1. \A p \in Queries : query[p].st = "none" => query[p].proto = "udp"
          BY <1>1 DEF Kept
        <5>. QED BY <3>7, <5>1
      <4>. QED BY <1>1, <3>1, <3>7, <3>8, <4>1, <4>2, Types DEF Kept, Waiting
    <3>. QED BY <3>9, <3>10, <3>11 DEF DnsInv
  <2>. QED BY <2>1, <2>2
<1>6. ASSUME NEW q \in Queries, NEW n \in 0 .. SrvcMax, QueryUdp(q, n) PROVE DnsInv'
  <2>. DEFINE x == [query[q] EXCEPT !.st = "open"]
              lost == Ended(query[q])
  <2>1. /\ work = <<>> /\ query[q] \in QueryRecords /\ query[q].st = "none"
        /\ query[q].proto = "udp" /\ query[q].told = 0 /\ n \in Nat
    BY <1>1, <1>6, Types, DnsAssumption DEF QueryUdp, Idle, Kept, Told1
  <2>2. /\ query' = [query EXCEPT ![q] = SendUdp(x, n, lost)]
        /\ UNCHANGED <<alive, srvc, conn, work>>
    BY <1>1, <1>6 DEF QueryUdp, DnsTypeOK
  <2>3. x \in QueryRecords /\ x.st = "open" /\ x.proto = "udp" /\ x.told = 0
    BY <2>1 DEF QueryRecords
  <2>4. lost \in QueryRecords /\ lost.st = "done" /\ lost.told <= 1
    BY <2>1, Records
  <2>. HIDE DEF x, lost
  <2>. QED BY <2>1, <2>2, <2>3, <2>4, SentUdp
<1>7. ASSUME NEW q \in Queries, NEW n \in 0 .. SrvcMax, UdpTimeout(q, n) PROVE DnsInv'
  <2>. DEFINE x == query[q]
              lost == Told(query[q])
  <2>1. /\ work = <<>> /\ Open(q) /\ query[q].proto = "udp" /\ n \in Nat
        /\ UNCHANGED <<alive, srvc, conn, work>>
    BY <1>7, DnsAssumption DEF UdpTimeout, Idle
  <2>2. /\ x \in QueryRecords /\ x.st = "open" /\ x.proto = "udp" /\ x.told = 0
        /\ lost \in QueryRecords /\ lost.st = "done" /\ lost.told <= 1
    BY <1>2, <2>1 DEF Open
  <2>3. CASE query[q].ntx >= NtxMax
    <3>1. query' = [query EXCEPT ![q] = lost]
      BY <1>1, <1>7, <2>3 DEF UdpTimeout, DnsTypeOK
    <3>2. q \notin Resent(work) /\ \A s \in Servers : q \notin Waiting(s)
      BY <1>1, <2>1 DEF Resent, Kept, TcpOpen
    <3>. HIDE DEF lost
    <3>. QED BY <2>1, <2>2, <3>1, <3>2, ElsewhereKept
  <2>4. CASE ~(query[q].ntx >= NtxMax)
    <3>1. query' = [query EXCEPT ![q] = SendUdp(x, n, lost)]
      BY <1>1, <1>7, <2>4 DEF UdpTimeout, DnsTypeOK
    <3>. HIDE DEF lost
    <3>. QED BY <2>1, <2>2, <3>1, SentUdp
  <2>. QED BY <2>3, <2>4
<1>8. ASSUME NEW q \in Queries, Reply(q) \/ TcpTimeout(q) PROVE DnsInv'
  <2>. DEFINE r == Told(query[q])
  <2>1. work = <<>> /\ Open(q) /\ Tell(q) /\ UNCHANGED <<alive, srvc, work>>
    BY <1>8 DEF Reply, TcpTimeout, Idle
  <2>2. query' = [query EXCEPT ![q] = r] /\ conn' = Without(q)
    BY <1>1, <2>1 DEF Tell, DnsTypeOK
  <2>3. r \in QueryRecords /\ r.st = "done" /\ r.told <= 1
    BY <1>2, <2>1
  <2>. HIDE DEF r
  <2>. QED BY <2>1, <2>2, <2>3, Aborted
<1>9. ASSUME NEW q \in Queries, Cancel(q) PROVE DnsInv'
  <2>. DEFINE r == Ended(query[q])
  <2>1. /\ work = <<>> /\ Open(q) /\ conn' = Without(q) /\ UNCHANGED <<alive, srvc, work>>
        /\ query' = [query EXCEPT ![q] = r]
    BY <1>1, <1>9 DEF Cancel, Idle, DnsTypeOK
  <2>2. r \in QueryRecords /\ r.st = "done" /\ r.told <= 1
    BY <1>2, <2>1
  <2>. HIDE DEF r
  <2>. QED BY <2>1, <2>2, Aborted
<1>10. ASSUME NEW n \in 0 .. SrvcMax, SrvSet(n) PROVE DnsInv'
  <2>1. n \in Nat
    BY DnsAssumption
  <2>. QED BY <1>10, <2>1 DEF SrvSet, DnsInv, DnsTypeOK, Told1, Apart, Kept, Waiting, TcpOpen, Open
<1>11. ASSUME UNCHANGED dnsVars PROVE DnsInv'
  BY <1>11 DEF dnsVars, DnsInv, DnsTypeOK, Told1, Apart, Kept, Waiting, TcpOpen, Open
<1>. QED BY <1>3, <1>4, <1>5, <1>6, <1>7, <1>8, <1>9, <1>10, <1>11, SendsKeeps, QueryTcpKeeps,
            BadReplyKeeps, EstabKeeps, ConnLostKeeps, DnscCloseKeeps
         DEF DnsNext, SendTcp, Timeout

-----------------------------------------------------------------------------
(***************************************************************************)
(* What the client promises.                                               *)
(***************************************************************************)
\* "The handler must only be called _once_" (query_handler in client.c): with any number of
\* queries and servers, of connections that fail while others are being sent on them, and of
\* servers set in between, a query's user is told at most once.
THEOREM ToldAtMostOnce == DnsSpec => []ToldOnce
<1>1. DnsInv => ToldOnce
  BY DEF DnsInv, Told1, ToldOnce
<1>. QED BY <1>1, InitHolds, DnsStep, PTL DEF DnsSpec

\* Between two events a query over TCP waits on one connection, and only one that is being set
\* up or has carried it: send_tcp and tcpconn_close move it and never lose or double it.
THEOREM NeverStranded == DnsSpec => []NotStranded
<1>1. DnsInv => NotStranded
  <2>. SUFFICES ASSUME DnsInv, work = <<>> PROVE NotStranded
    BY DEF NotStranded
  <2>1. DnsTypeOK /\ Apart /\ Kept /\ Resent(work) = {}
    BY DEF DnsInv, Resent
  <2>2. ASSUME NEW q \in Queries, Open(q), query[q].proto = "tcp"
        PROVE  \E s \in Servers :
                  /\ {t \in Servers : q \in Waiting(t)} = {s}
                  /\ conn[s].st = "connecting" \/ (conn[s].st = "connected" /\ query[q].sent)
    <3>1. PICK s \in Servers : q \in Waiting(s)
      BY <2>1, <2>2 DEF Kept, TcpOpen
    <3>2. {t \in Servers : q \in Waiting(t)} = {s}
      BY <2>1, <3>1 DEF Apart
    <3>3. conn[s].st = "connecting" \/ (conn[s].st = "connected" /\ query[q].sent)
      BY <2>1, <3>1 DEF Kept
    <3>. QED BY <3>2, <3>3
  <2>3. \A s \in Servers : \A q \in Waiting(s) : Open(q)
    BY <2>1 DEF Kept, TcpOpen
  <2>. QED BY <2>2, <2>3 DEF NotStranded
<1>. QED BY <1>1, InitHolds, DnsStep, PTL DEF DnsSpec
=============================================================================
