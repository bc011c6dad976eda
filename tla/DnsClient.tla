------------------------------ MODULE DnsClient ------------------------------
(***************************************************************************)
(* The DNS client, re/src/dns/client.c: queries over UDP, sent again and   *)
(* to other servers until they are answered, and queries over TCP, which   *)
(* share a connection for each server and move on to the next server when  *)
(* it fails.                                                               *)
(*                                                                         *)
(* How long a timer runs is left out: an armed one may expire at any time. *)
(* So are zone transfers (an answer in several parts), servers listed      *)
(* twice, and what users do inside their handler.                          *)
(***************************************************************************)
EXTENDS Naturals, Sequences, SequencesExt

CONSTANTS Queries,
          SrvcMax,       \* SRVC_MAX
          NtxMax         \* NTX_MAX, transmissions over UDP

ASSUME DnsAssumption == SrvcMax \in Nat \ {0} /\ NtxMax \in Nat

Servers == 1 .. SrvcMax

VARIABLES
    alive,    \* the client exists
    srvc,     \* the number of servers it knows
    query,    \* the queries; sent: over the connection it waits on
    conn,     \* conn[s]: the live connection to server s, with the queries on it (tc->ql)
    work      \* send_tcp calls under way, the innermost first

dnsVars == <<alive, srvc, query, conn, work>>

NewQuery == [st |-> "none", proto |-> "udp", ntx |-> 0, sent |-> FALSE, told |-> 0]
NoConn == [st |-> "none", ql |-> <<>>]

DnsInit ==
  /\ alive = TRUE /\ srvc \in Servers
  /\ query = [q \in Queries |-> NewQuery]
  /\ conn = [s \in Servers |-> NoConn]
  /\ work = <<>>

\* Handlers of sockets and timers, and users, wait for the end of what is under way.
Idle == alive /\ work = <<>>

Open(q) == query[q].st = "open"
Waiting(s) == ToSet(conn[s].ql)

(***************************************************************************)
(* query_handler and the end of a query.                                   *)
(***************************************************************************)
Ended(r) == [r EXCEPT !.st = "done", !.sent = FALSE]
Told(r) == [Ended(r) EXCEPT !.told = @ + 1]

\* query_abort: it waits on no connection any more
Without(q) == [s \in Servers |-> [conn[s] EXCEPT !.ql = RemoveFirst(@, q)]]

Tell(q) == query' = [query EXCEPT ![q] = Told(@)] /\ conn' = Without(q)

\* tcpconn_close: each query on the connection looks for another one (tcpconn_fail_handler)
Retries(ql) == [i \in DOMAIN ql |-> [q |-> ql[i], failed |-> FALSE, new |-> FALSE]]

Unsent(qs) == [q \in Queries |-> [query[q] EXCEPT !.sent = @ /\ q \notin qs]]

Close(s) ==
  /\ conn' = [conn EXCEPT ![s] = NoConn]
  /\ query' = Unsent(Waiting(s))
  /\ work' = Retries(conn[s].ql)

-----------------------------------------------------------------------------
(***************************************************************************)
(* send_tcp, one server at a time.  A query without a server left fails;   *)
(* so does one that joins a connection being set up after another server   *)
(* has failed, because err still holds that failure.                       *)
(***************************************************************************)
Failed(w) == IF w.new THEN Ended(query[w.q]) ELSE Told(query[w.q])

GiveUp ==
  /\ work # <<>> /\ query[Head(work).q].ntx >= srvc
  /\ query' = [query EXCEPT ![Head(work).q] = Failed(Head(work))]
  /\ work' = Tail(work)
  /\ UNCHANGED <<alive, srvc, conn>>

Trying(s) == work # <<>> /\ query[Head(work).q].ntx + 1 = s /\ s <= srvc

Attach(s, st, sent) ==
  LET q == Head(work).q IN
  /\ conn' = [conn EXCEPT ![s] = [st |-> st, ql |-> Append(@.ql, q)]]
  /\ query' = [query EXCEPT ![q].ntx = s, ![q].sent = sent]
  /\ work' = Tail(work)

NextServer(s) ==
  /\ query' = [query EXCEPT ![Head(work).q].ntx = s]
  /\ work' = [work EXCEPT ![1].failed = TRUE]
  /\ UNCHANGED conn

\* tcpconn_alloc
Connects(s, ok) ==
  /\ Trying(s) /\ conn[s].st = "none"
  /\ IF ok THEN Attach(s, "connecting", FALSE) ELSE NextServer(s)
  /\ UNCHANGED <<alive, srvc>>

Joins(s) ==
  /\ Trying(s) /\ conn[s].st = "connecting"
  /\ IF Head(work).failed
     THEN /\ query' = [query EXCEPT ![Head(work).q] = [Failed(Head(work)) EXCEPT !.ntx = s]]
          /\ work' = Tail(work)
          /\ UNCHANGED conn
     ELSE Attach(s, "connecting", FALSE)
  /\ UNCHANGED <<alive, srvc>>

\* mutation: the queries on the connection that fails are forgotten
SendsForgetful(s, ok) ==
  /\ Trying(s) /\ conn[s].st = "connected"
  /\ IF ok THEN Attach(s, "connected", TRUE)
     ELSE /\ conn' = [conn EXCEPT ![s] = NoConn]
          /\ query' = [Unsent(Waiting(s)) EXCEPT ![Head(work).q].ntx = s]
          /\ work' = [work EXCEPT ![1].failed = TRUE]
  /\ UNCHANGED <<alive, srvc>>

\* A connection that fails is closed, and its queries come first.
Sends(s, ok) ==
  /\ Trying(s) /\ conn[s].st = "connected"
  /\ IF ok THEN Attach(s, "connected", TRUE)
     ELSE /\ conn' = [conn EXCEPT ![s] = NoConn]
          /\ query' = [Unsent(Waiting(s)) EXCEPT ![Head(work).q].ntx = s]
          /\ work' = Retries(conn[s].ql) \o [work EXCEPT ![1].failed = TRUE]
  /\ UNCHANGED <<alive, srvc>>

SendTcp == \/ GiveUp
           \/ \E s \in Servers : \/ Joins(s)
                                 \/ \E ok \in BOOLEAN : Connects(s, ok) \/ Sends(s, ok)

-----------------------------------------------------------------------------
(***************************************************************************)
(* Users.                                                                  *)
(***************************************************************************)
\* query over TCP
QueryTcp(q) ==
  /\ Idle /\ query[q].st = "none" /\ srvc > 0
  /\ query' = [query EXCEPT ![q].st = "open", ![q].proto = "tcp"]
  /\ work' = <<[q |-> q, failed |-> FALSE, new |-> TRUE]>>
  /\ UNCHANGED <<alive, srvc, conn>>

\* send_udp tries every server once; failures of them fail before one takes the datagram.
SendUdp(r, failures, lost) ==
  IF failures = srvc THEN lost ELSE [r EXCEPT !.ntx = @ + failures + 1]

QueryUdp(q, failures) ==
  /\ Idle /\ query[q].st = "none" /\ srvc > 0 /\ failures <= srvc
  /\ query' = [query EXCEPT ![q] = SendUdp([@ EXCEPT !.st = "open"], failures, Ended(@))]
  /\ UNCHANGED <<alive, srvc, conn, work>>

\* the user derefs the query
Cancel(q) ==
  /\ Idle /\ Open(q)
  /\ query' = [query EXCEPT ![q] = Ended(@)]
  /\ conn' = Without(q)
  /\ UNCHANGED <<alive, srvc, work>>

\* dnsc_srv_set, while queries point to the number of servers
SrvSet(n) ==
  /\ Idle
  /\ srvc' = n
  /\ UNCHANGED <<alive, query, conn, work>>

\* dnsc_destructor
DnscClose ==
  /\ Idle
  /\ alive' = FALSE
  /\ query' = [q \in Queries |-> IF Open(q) THEN Told(query[q]) ELSE query[q]]
  /\ conn' = [s \in Servers |-> NoConn]
  /\ UNCHANGED <<srvc, work>>

-----------------------------------------------------------------------------
(***************************************************************************)
(* Answers and timers.  An answer to a query over UDP that says "server    *)
(* failure" while there are servers left only makes its timer due.         *)
(***************************************************************************)
\* reply_recv
Reply(q) ==
  /\ Idle /\ Open(q)
  /\ query[q].proto = "tcp" => query[q].sent
  /\ Tell(q)
  /\ UNCHANGED <<alive, srvc, work>>

\* mutation: the query stays on the connection that is closed for its answer
BadReplyKept(s, q) ==
  /\ Idle /\ q \in Waiting(s) /\ query[q].sent
  /\ conn' = [conn EXCEPT ![s] = NoConn]
  /\ query' = [Unsent(Waiting(s)) EXCEPT ![q] = Told(query[q])]
  /\ work' = Retries(conn[s].ql)
  /\ UNCHANGED <<alive, srvc>>

\* a record cannot be decoded: the query is told, then the connection closed
BadReply(s, q) ==
  /\ Idle /\ q \in Waiting(s) /\ query[q].sent
  /\ conn' = [conn EXCEPT ![s] = NoConn]
  /\ query' = [Unsent(Waiting(s)) EXCEPT ![q] = Told(query[q])]
  /\ work' = Retries(Without(q)[s].ql)
  /\ UNCHANGED <<alive, srvc>>

\* "server failure" with servers left, an answer that cannot be read, or one to a query that
\* is no more, is an error of the connection; so are its timers and its loss
ConnLost(s) ==
  /\ Idle /\ conn[s].st # "none"
  /\ Close(s)
  /\ UNCHANGED <<alive, srvc>>

\* tcp_estab_handler; if one of them cannot be sent the connection is lost
Estab(s) ==
  /\ Idle /\ conn[s].st = "connecting"
  /\ conn' = [conn EXCEPT ![s].st = "connected"]
  /\ query' = [q \in Queries |-> [query[q] EXCEPT !.sent = @ \/ q \in Waiting(s)]]
  /\ UNCHANGED <<alive, srvc, work>>

\* mutation: the timer is given up once the query has been sent
TcpTimeoutUnsent(q) ==
  /\ Idle /\ Open(q) /\ query[q].proto = "tcp" /\ ~query[q].sent
  /\ Tell(q)
  /\ UNCHANGED <<alive, srvc, work>>

TcpTimeout(q) ==
  /\ Idle /\ Open(q) /\ query[q].proto = "tcp"
  /\ Tell(q)
  /\ UNCHANGED <<alive, srvc, work>>

UdpTimeout(q, failures) ==
  /\ Idle /\ Open(q) /\ query[q].proto = "udp" /\ failures <= srvc
  /\ query' = [query EXCEPT ![q] = IF @.ntx >= NtxMax THEN Told(@)
                                   ELSE SendUdp(@, failures, Told(@))]
  /\ UNCHANGED <<alive, srvc, conn, work>>

Timeout(q) == TcpTimeout(q) \/ \E failures \in 0 .. SrvcMax : UdpTimeout(q, failures)

DnsNext ==
  \/ SendTcp
  \/ \E q \in Queries :
        \/ QueryTcp(q) \/ Cancel(q) \/ Reply(q) \/ Timeout(q)
        \/ \E failures \in 0 .. SrvcMax : QueryUdp(q, failures)
        \/ \E s \in Servers : BadReply(s, q)
  \/ \E s \in Servers : Estab(s) \/ ConnLost(s)
  \/ \E n \in 0 .. SrvcMax : SrvSet(n)
  \/ DnscClose

\* What is under way is finished, and a query's timer expires.
DnsFairness ==
  /\ WF_dnsVars(SendTcp)
  /\ \A q \in Queries : WF_dnsVars(Timeout(q))

DnsSpec == DnsInit /\ [][DnsNext]_dnsVars /\ DnsFairness

-----------------------------------------------------------------------------
(***************************************************************************)
(* Properties.                                                             *)
(***************************************************************************)
\* "The handler must only be called _once_": whatever happens to the connection it shares
\* with others, a query's user is told at most once.
ToldOnce == \A q \in Queries : query[q].told <= 1

\* A query over TCP is never stranded: between two events it waits on exactly one connection,
\* which is being set up or has carried it; and only such queries are on a connection.
NotStranded ==
  work = <<>> =>
    /\ \A q \in Queries : Open(q) /\ query[q].proto = "tcp" =>
         \E s \in Servers :
            /\ {t \in Servers : q \in Waiting(t)} = {s}
            /\ conn[s].st = "connecting" \/ (conn[s].st = "connected" /\ query[q].sent)
    /\ \A s \in Servers : \A q \in Waiting(s) : Open(q)

\* Every query comes to an end, answered or not, however often its connection is lost and
\* the servers are changed.
QuerySettles == \A q \in Queries : Open(q) ~> ~Open(q)

=============================================================================
