# A verification development for qSIP

qSIP is a softphone: a Qt front end (`qSIP/`) over baresip (`baresip/`), which
is built on the libraries libre (`re/`: SIP, RTP, timers, memory, event loop)
and librem (`rem/`: audio buffers). The other directories hold codecs, sound
I/O and echo cancellation from third parties.

This directory models the parts of the phone where most can go wrong without a
test noticing: the SIP stack that makes and ends calls, registration, the event
loop and its timers, the way of the received voice, the user agent and the phone
above it with its two threads, and the DNS client. TLC checks the modules on small
instances; TLAPS proves, for every value of the constants, all the safety properties that the
runs check, and that a session keeps its promise.

* `PROJECT.json` maps every definition to the lines it models, lists the runs,
  the hazards with the properties that answer them, and a mutation of the model
  for each property that breaks it.
* Run a check with `tlc -config MCSipsess.cfg MCSipsess`, a proof with
  `tlapm ClientTrans_proof.tla`.

## 1. Inventory

The SIP thread (`PhoneThread::run`) runs the event loop (`re/src/main/main.c`): a
datagram, a stream event, a timer or a DNS answer calls a handler, which runs to
its end. Inside the stack the concurrency is that of *orders of events*: which of
an answer, a CANCEL, a deadline, a broken connection or the user's next wish comes
first. Objects are reference counted (`re/src/mem`); a destructor may take a new
reference and so keep its object alive until the network has been told.

Above it there are *two threads*. The GUI thread calls `ua_connect`, `ua_answer`,
`ua_hangup` and `re_cancel` directly: `libre_init` gives both threads the same
`struct re`, and the phone never calls `re_thread_enter`. Both write the phone's
state; signals emitted in the SIP thread are queued for the GUI thread, those
emitted in the GUI thread are handled at once. The sound is pulled by a timer of
the GUI thread through callback pointers the SIP thread sets.

| component | state it keeps | operations | what makes it hard | correct when |
|---|---|---|---|---|
| client transactions `re/src/sip/ctrans.c` | state, deadline and retransmission timers, count | request, response, the two timers, transport error, CANCEL | deadline against late answer, repeated answers, CANCEL starts a second transaction | one outcome per request; never without a deadline |
| request layer `re/src/sip/request.c` | addresses and SRV records left, current transaction, queries, `canceled`, `provrecv`, the user's pointer | start, resolve, next address, final response, cancel, drop, close | failover against cancel; CANCEL must wait for a provisional response; user drops the object during any of it | user told once, never hangs, never failed over once cancelled |
| server transactions `re/src/sip/strans.c` | state, deadline and repetition timers, the user's pointer | request, reply, ACK, CANCEL | retransmitted request against forgotten transaction, CANCEL against answer, failing send | pointer never stale, a call rings once |
| sessions `re/src/sipsess` | reference count, `terminated`, request under way, answers waiting for ACK, pending modification, timer | connect, accept, answer, reject, modify, INFO, BYE, ACK, CANCEL, re-INVITE, drop | glare, late 2xx after hang-up, lost ACK, the destructor that revives the object | freed exactly when nobody needs it; an accepted peer always gets his BYE |
| dialogs `re/src/sip/dialog.c` | tags, sequence numbers, route set | create, update, compare, sequence check | reordered requests | sequence numbers only grow |
| transports `re/src/sip/sip_transp.c`, `re/src/tcp`, `udp`, `tls` | connections, queued requests | send, accept, close | a connection that breaks with requests queued on it | every queued request hears of the break |
| keep-alive `re/src/sip/keepalive*.c` | timers per flow | start, pong, error | error after stop | handler called once |
| registration `re/src/sipreg/reg.c`, `baresip/src/reg.c` | `registered`, `terminated`, `expires`, `wait`, request, timer; the account's `scode` | register, refresh, response, broken flow, destructor | unregistration while a request is under way, lost answers, expiry arithmetic | what is shown is bound, a client that is gone is unbound |
| subscriptions `re/src/sipevent` | subscriber and notifier state | subscribe, notify, refresh, close | NOTIFY before the answer to SUBSCRIBE | closed once |
| DNS client `re/src/dns/client.c` | queries with retries, connections with the queries on them | query, answer, timeout, failover, cancel, change of servers, shutdown | a shared connection that fails moves its queries, in the middle of which another fails | a query ends, is told once, never waits on nothing |
| timers, loop `re/src/tmr`, `re/src/main` | sorted timer list, `polling` | start, cancel, poll, cancel the loop | another thread changes the list while the loop sleeps; a cancel races the start of the loop | timers run in time, a cancel is heeded |
| jitter buffer `re/src/jbuf` | frames, pool, last number put | put, get, flush | wrap-around, overflow with duplicates | frames accounted for and in order |
| audio buffer `rem/src/aubuf`, streams `baresip/src/stream.c`, `audio.c` | frames, byte count, `filling`; last number, source | append, read; receive, decode, start and stop the player | overrun of a frame half read, change of source, two threads | bytes exact, sound in order |
| calls and agents `baresip/src/call.c`, `ua.c` | call state, call list, timer | connect, answer, hang up, session events | answer before the ACK, timeout, hangup from another thread | an incoming call settles |
| phone `qSIP/PhoneThread.cpp`, `PhoneWidget.cpp` | phone state, ringing time, hold box, signals on their way | call, answer, hang up, hold, events | two threads, queued signals | busy only with a call; answers only when asked |

Calls go down by function (`sipsess` → `request` → `ctrans` → transport), results
come up by callback (`resph`, `estabh`, `closeh`, `cancelh`); the only messages
are those on the network.

## 2. The modules

| module | models | extended or used by |
|---|---|---|
| `SipTimers` | T1, T2, T4, the deadlines; countdown timers | the transactions, `InviteCall` |
| `ClientTrans` | `ctrans.c` | `ClientRequest`, `InviteCall` |
| `ClientRequest` | `request.c` on top of `ctrans.c` | |
| `ServerTrans` | `strans.c` | `InviteCall` |
| `InviteCall` | both ends of one call and the network between | |
| `Sipsess` | `re/src/sipsess`, one session | |
| `SessionPromise` | what a session promises (abstract) | implemented by `Sipsess` |
| `Sipreg` | `sipreg/reg.c`, `baresip/src/reg.c`, the registrar's lease | |
| `MainLoop` | `main.c`, `tmr.c` and `PhoneThread::run`, `close` | |
| `Jbuf` | `jbuf.c` and a reordering network | `RtpStream` |
| `RtpStream` | the receiving side of `stream.c` | `AudioReceive` |
| `Aubuf` | `aubuf.c` (operators only) | `AudioReceive` |
| `AudioReceive` | the received voice from the network to the ear, both threads | |
| `UserAgent` | `call.c` and the call list of `ua.c`, above `SessionPromise`'s session | `Phone` |
| `Phone` | `PhoneThread.cpp`, `PhoneWidget.cpp`, both threads | |
| `DnsClient` | `dns/client.c` | |
| `ClientTrans_proof`, `ClientRequest_proof`, `InviteCall_proof`, `Sipsess_proof`, `Sipreg_proof`, `Phone_proof`, `AudioReceive_proof`, `DnsClient_proof` | theorems about the module of that name; `InviteCall_proof` also about `ServerTrans`, `Phone_proof` about `MainLoop`, `AudioReceive_proof` about `Jbuf` | `ClientRequest_proof` and `InviteCall_proof` use the lemmas of `ClientTrans_proof` |
| `MC*` | the checked instances | |

**ClientTrans.** `ct[k]` is a `struct sip_ctrans`: its state, the time left on
`tmr` and `tmre`, and `txc`. Key 0 is the transaction that `sip_ctrans_cancel`
starts for the CANCEL. `Requested`, `Responded`, `Retransmitted`, `Cancelled` say
what the handlers make of the record; the actions add who is told. `finals[k]`
counts the final outcomes given to `resph`. The power `SIP_T1 << txc` is carried
along as `shift`. After completion `txc` is of no use to the code and is reset to
keep the state space small. `Tick` passes one unit of time and never steps over a
timer that is due: the loop runs `tmr_poll` before it waits again.

**ClientRequest.** `req` is the `struct sip_request`; its lists are the numbers of
addresses and SRV records left. `NextTargets` says where `request_next`'s loop can
come out: an attempt with some records left, a lookup for the next SRV target, or
failure. NAPTR and SRV lookups are one state, as are the two address queries of a
name. Every action is a whole callback: a final response is the transaction's
step, `response_handler`, perhaps `request_next` and the next transaction.
`handle` is the user's pointer, which `terminate` clears.

**ServerTrans.** `st` is the `struct sip_strans`; `held` says that the user still
has the pointer he may reply with. `requests` counts how often the request went up
to him, `cancels` how often `cancelh` was called. The session's `cancelh` replies
487 at once (`accept.c`), so `CancelArrives` does both.

**InviteCall.** Extends both transaction modules and adds the network and the
sessions' part of the handshake. `net[m]` is the time for which a copy of message
`m` may still be delivered: any number of copies in any order until then, or none.
A new copy renews it. `PromptAssumption` says what the protocol expects of the network: see
the runs. `answer` is the `struct sipsess_reply` that repeats the 2xx,
`ackKept` the timer of the `struct sipsess_ack` that repeats the ACK.

**Sipsess.** `sess` is the `struct sipsess`. The handlers are operators on that
record, named after the functions (`Termwait`, `Terminate`, `SipsessTerminate`,
`Reinvite`, `Reply2xx`, `Deref`), so that an action is the composition of the calls
its callback makes. `Destroyed` is the destructor with both ways of coming back to
life. Choices of the environment are parameters: `ok` (a send succeeds), `drop`
(the user lets go of the session in `closeh`), `agreed` (his offer and answer
handlers accept), `created` (the response makes a dialog). `accepted`, `byed` and
`news` are history. The classes of a failed request are those the handlers tell
apart; a response that `sip_request_loops` stops is one more failure.

**SessionPromise.** Four variables: the user, what he was told, the peer's view of
the dialog, and whether the object is gone. `Event` allows any step that tells the
user "up" and "closed" at most once and in that order, and that lets the session go
only without its user and never with an accepted peer who was not sent a BYE. The
refinement (`KeepsPromise`) maps the session's flags and history to it.

**Sipreg.** `regs[c]` are the registration clients the account has one after the
other (`ua_register` on a change of address derefs one and makes the next; the old
one lives until its contact is withdrawn). The functions of `reg.c` are operators
on the record: `Requested`, `Dereferenced` (the destructor), `Out` (the end of
`response_handler`), `Answered` (all of it). `RegistrarAnswers` changes the
bindings; the answer may then arrive, or be lost until the request fails. `scode`
is what `ua_isregistered` looks at. A wait is computed modulo `Word`, the 32-bit
`reg->wait`. Successive clients have different contacts, and only the lease of the
current one is counted. `contact_handler` takes the interval of the contact in the 2xx that is
the client's; if it has none the client assumes `DEFAULT_EXPIRES`, and if no contact is the
client's the interval it asked for (`Interval`; `RegistrarAnswers` chooses among the three).
What a registrar grants that names no interval is not in the code: it is taken to be what the
client then assumes, and it lasts from that answer on.
`LeaseAssumption` asks for room in a lease for two transactions, the one
that set it and the first that refreshes it: with the code's 0.9 and 32 s that is any interval
above 640 s, as the 3600 s of `account.c` are. More than one the code does not leave
room for: a refresh that is challenged again and again may take `LoopMax` + 1 transactions
(17 × 32 s) and the lease, 360 s after the refresh began, is over before the chain is. So
`ShownIsBound` excepts an account whose refresh has been challenged and is still under way
(`Challenged`); without the exception TLC refutes it.
`ua_reregister`, which would register the same contact with
a new client while the old one withdraws it, is reached only from
`PhoneWidget::restart`, which nothing calls.

**MainLoop.** `tmrl` is the sorted list, with the time left of each timer; `sip` is
where the SIP thread is between `run`'s test and the handlers, `sleep` what is left
of its sleep in poll, `gui` where the GUI thread is in `PhoneThread::close`.
`Touched` is everything a handler, or the other thread, may do to the list. What
`fd_poll` does with `to = 0` (sleep without limit), and that it caps the sleep at
100 ms, is in `NextRound`.

**Jbuf, RtpStream, Aubuf, AudioReceive.** A packet is the number its sender counted
it under; the header carries it modulo `SeqSpace`. `Put` is `jbuf_put` with
`frame_alloc`, in its order (the oldest frame is stolen before the duplicate is
found). `RtpRecv` is `rtp_recv`: put, at most one get, and `lostcalc`'s verdict; `todo` is what
the decoder is given. `Aubuf` counts bytes: `Upto` sums what the first frames have left,
`LastHeard` names the packet a read ends in. The network of `Jbuf` loses packets, but never so
many in a row that one comes half the circle of numbers ahead of what is buffered (`Arrives`): that is
as far as `seq_less` can tell which of two packets is the older, 32,768 of them, ten minutes
of voice. `AudioReceive` composes them with the decoder (an undecodable loss is
an empty frame), the player's life, the callback pointers and the GUI thread's timer,
which holds the mutex from testing the pointer to the end of the call.

**UserAgent, Phone.** `call[c]` is a `struct call`; the actions are the session's
callbacks and the GUI's calls, and say how the list changes. A call that is over stays in the
list until its event has been told (`Over`, `Dropped`). `Phone` adds who hears of it, and is
split where the threads can cross:

* The *SIP thread* changes the call in a handler and raises an event (`Raised`:
  `CallIncoming`, `CallProceeds`, `CallEstablished`, `OnClosed`). `setState` comes later, through
  `call_event_handler` and `onPhoneEvent` and without a lock: it compares the state
  (`SipTests`), writes it (`SipWrites`) and emits what it then reads (`SipEmits`); after it
  `callIncoming` is emitted or the closed call is dereferenced (`SipTells`). `event` says where the thread is.
* The *GUI thread* goes in steps as well: `ua_hangup` (`Hangup`), then `setState` in the same
  three (`HangupTests`, `HangupWrites`, `HangupEmits`); the timer's decision and its
  hangup (`RingingTimesOut`, `Hangup`); a call and the start of its ringing time
  (`UserCalls`, `CallPlaced`). It handles signals only between these.

Every step of the one thread can come between any two of the other, so the whole of `hangup()`
fits between a call's event and `setState`. What a thread does inside
the user agent before the event, or in one call into it, is one step; §3 says what that
leaves out. A call that was hung up while its CLOSED event was being told is dereferenced a second
time by `call_event_handler`: that is undefined behaviour, and `Dropped` takes the outcome it has
as long as the memory is not reused (`mem_deref` counts a zero down and frees nothing). The
ghost variable `crossed` says whether the state was last written for a call the user had
already hung up; `asked` and `age` are history.

**DnsClient.** `conn[s]` is the live connection to server `s` with its queries.
`send_tcp` and `tcpconn_close` call each other; `work` is that recursion as a
stack, and everything else waits until it is empty (`Idle`). One server is tried
per step, so a failing connection puts its queries before the rest.

## 3. The runs

| run | instance | states | what it shows |
|---|---|---|---|
| `client_trans` | one attempt and its CANCEL, timers with the source's values in units of T1 | 19,325 | exactly one outcome, deadlines, transmissions bounded, a cancelled request ends |
| `client_request` | 3 attempts, 2 addresses, 2 SRV records, deadlines 8 units | 47,328 | told once, never orphaned, CANCEL not lost, cancel beats failover, ends |
| `server_trans` | the request goes up at most twice, the source's timer values | 2,068 | no stale pointer, CANCEL told once, ends |
| `invite_call` | one call, T1 = 2, T2 = 4, T4 = 3, deadlines 16, datagrams live 1 | 87,121 | rings once, ends agree, both ends settle |
| `sipsess` | 3 INVITEs of the peer, 2 unacknowledged answers, 2 INFOs | 7,630 | exact references, no glare, no lost modification, the promise |
| `sipreg` | 2 clients, intervals 21, 25 and 31 of which the largest wraps, contact or interval missing in the answer, 2 failures until the loop guard | 172,783 | what is shown is bound unless the refresh is being challenged, always pursued, no contact left behind, leaves |
| `main_loop` | 2 timers and the network's, delays 0, 1, 3, longest sleep 2 | 4,454 | timers in time, cancel heeded |
| `jbuf` | 9 packets across the wrap-around of 64 numbers, 2 copies, displaced by 2; 3 frames held back of 5 | 10,404 | frames accounted, in order, none in time refused |
| `audio_receive` | 7 packets, the last 2 of another source, pool of 3, frames of 3 bytes read by 2, overrun at 5 | 93,204 | bytes exact, sound in order |
| `phone` | 2 calls, local timeout and ringing time 1 tick, at most 1 call for an INVITE to be taken | 898,255 | only one crossing leaves the phone busy without a call or lets its timer end another call, incoming settles |
| `dns_client` | 3 queries, 2 servers, 4 transmissions | 126,651 | told once, never stranded, settles |
| `auto_answer` | the instance of `phone` | | *violated*: see below |

Why the bounds are enough:

* *Timers.* `client_trans` and `server_trans` use 64·T1, T2 = 8·T1 and T4 = 10·T1
  as the source does, so the counts in `TransmissionBound` (7 and 11 transmissions)
  are those of the code. The other two runs only need
  the order T1 < T2 and T1 < deadline; their deadlines are eight times T1, enough for several
  retransmissions and for every race between a deadline and an answer.
* *Attempts and records.* Failover is decided by "is anything left"; with two
  addresses and two SRV records each of the ways through `request_next` is taken
  with and without something left behind it, and the third attempt is one that
  was itself a failover. A request that would need more attempts stops there.
* *Network.* `RingsOnce` needs what the protocol assumes (`PromptAssumption`): a datagram
  arrives within T1, the estimate of a round trip, and within T4 (`Life` = 1), or not at
  all. With longer-lived datagrams a late INVITE does ring a second time; the T4 wait of the
  CONFIRMED state is there for that. The deadline is an even multiple of T1, as 64 is, and
  the repetitions come at odd ones.
* *Session.* The handlers ask of the lists only whether they are empty, of `replies` also
  which is the oldest: two elements tell the cases apart. Two re-INVITEs on top of
  the first INVITE let an answer be outstanding while the next arrives, and repeat
  a sequence number.

* *Registration.* A client's past matters only through its record; the second
  client shows the first one leaving beside a current one, and there is a third
  kind of state when both have left. `Tenths` is the code's 9. `RegInt` is 25; an answer may
  list less (21), no interval (31) or no contact, and the refresh of 31 wraps (27 is
  3 modulo 24) while those of 21 and 25 fit. All three have just room for two
  transactions of one tick, as 3600 s have for two of 32 s: one challenge at a
  refresh can let the lease run out, so the exception of `ShownIsBound` occurs. A 423 asks for
  `RegInt` again; another interval only repeats what the answers vary.
* *Loop.* With two timers one may be behind another; delay 0 takes the other branch of
  `tmr_start`, and delays shorter and longer than the longest sleep (1 and 3 around
  2) take both ways of choosing the sleep.
* *Buffers.* The numbers wrap in the middle of the packets. There are more packets
  than frames on top of those that wrap, so an overrun, a flush and a stale copy
  each happen before and after the wrap. Half of the circle is more than all packets and
the buffer, so that `Arrives` refuses none of the 9. The displacement is the largest that `NetworkAssumption`
  allows: with one more the buffer cannot restore the order. `LateMax` and `LossMax` keep
  their order relative to the displacement.
* *Phone.* Of two calls each may be incoming or outgoing and end before, after or while the
  other exists. With timeouts of one tick a timer is due after the first step of time, before
  or after any of the other thread's steps; the inductive invariant of `Phone_proof` was also checked with a
  ringing time of two (1.7 million states).
* *DNS.* With three queries one may fail while two others are moved, and with two servers a
  query may be moved, joined with one that waits, or run out of servers.

`sipsess`, `sipreg`, `jbuf`, `audio_receive` and `dns_client` do not check for
deadlock: a freed session or client does nothing more, and all packets arrive at
last. Nor does `main_loop`: when the SIP thread has ended, nothing happens any more. In
the other runs time always goes on.

Every property has a mutation in `PROJECT.json` under which TLC finds it
violated: for instance leaving out the reference for an unacknowledged answer
(`TermwaitImpatient`) breaks `RefsExact`, and acknowledging without the T4 wait
(`AckedGone`) breaks `RingsOnce`. A mutation is an operator next to the one it
replaces, marked "mutation:"; nothing else uses it.

### Fairness

* Time passes and due timers run (`re_main` polls timers in every turn).
  No fairness is given to any message, send, or wish of the user.
* In `ClientRequest` lookups are answered: the DNS client gives up on a query after
  its own retries.
* In `Sipsess` a request of a *terminated* session ends, an INFO ends, and the
  reply timers run. The first two are what `ClientRequest` shows: `RequestEnds`
  says that a cancelled request and every non-INVITE request ends although no
  peer answers. A re-INVITE or INVITE of a session that is not
  terminated gets no fairness: it may ring for ever. Nor does a BYE that is
  challenged again and again: that one is ended by `sip_request_loops`, whose
  verdict is the fair outcome "fail".
* In `Sipreg` time passes and a request ends (`RequestEnds` of `ClientRequest`), whether with
  its answer or without; the registrar need not answer.
* In `MainLoop` the SIP thread goes on, poll returns when its time is over, and a
  descriptor is not read for ever without a look at the timers (`for` over the
  descriptors in `fd_poll` ends). The GUI thread finishes `close` once it has begun.
* In `Phone` time passes, the SIP thread finishes what it has begun (`SipGoesOn`), and a due timer
  of a call runs: `re_main` looks at the timers in every round, but other events may come
  first, so that it is due again and again and not all the time (strong fairness). Nobody
  has to answer, hang up or handle a signal.
* In `DnsClient` what is under way is finished, and a query's timer expires.

### What the code does not do

**A call answered by itself** (finding, run `auto_answer`). `onCallIncoming` clears the Hold
box (`PhoneWidget.cpp:183`). If an earlier call left it checked, because a hangup by the user
does not clear it, this toggles it, and `on_checkBox_hold_toggled` answers whatever
rings. The account's answer mode is manual. `AnsweredWhenAsked` is violated in nine
states: the user checks the box, a call comes in, its signals are handled.

Four properties are stated in the modules and not among the runs' properties,
because the code does not guarantee them and nothing in the repository says that it does. Put in
a configuration, TLC refutes each.

* `BusyHasCall` (`Phone`): the user hangs up while the SIP thread is between the event of his call
  (a 180, an answer, an incoming INVITE) and `setState`. `hangup()` frees the call and sets
  `Idle`; then `setState` shows a call that is gone, and the phone stays busy until the next
  event or hangup. `OnlyCrossingLeavesBusy` is what does hold: no other order does that.
* `RingsOut` (`Phone`): if it is the first 180, the state is still `Idle`, so the hangup does
  not clear the ringing time either; when it is over `timerEvent` hangs up again, and with that
  ends nothing, or an incoming call that has just been appended. `OnlyCrossingEndsOther` is what
  holds.
* `DeviceStoppedFirst` (`AudioReceive`): `audio_stop` frees the player while
  `callback_output_f` still points to it; until the CLOSED event calls
  `resetCallbackPtr`, `timerEvent` calls into it. The mutex covers the pointers, not the
  player. In the model such a call does nothing.
* `CancelCloses` (`MainLoop`): a `re_cancel` that falls between `run`'s test of the
  interruption and `re_main`'s `polling = true` is overwritten; the loop then runs on,
  and `close` waits for the thread for ever (the signals only make poll return).
  `CancelHeeded` is what does hold: a cancel that comes during a round.

Two smaller things show in the models. In `DnsClient`, `send_tcp`'s `err` of a failed
server survives when the query joins a connection that is still being set up, so that
the query is told that all servers failed (`Joins`). And an answer to a query
that has been cancelled is an error of the connection it comes on, which is then
closed for the other queries as well (`ConnLost`).

### What the model makes coarser

* A call from the GUI thread into the stack is one step, and so is what a handler of the SIP
  thread does in it before it raises an event. Neither takes a lock, so lists and
  reference counts can really be torn by the other thread; the models show what
  goes wrong even without that. Time stands still while a timer of the stack is due.
* `UserAgent` sees media set-up, which call `hold` sends a re-INVITE for, and the numbers
  shown as nothing; the answer button is always enabled and the account registered.
* In `DnsClient` an armed timer may expire at any time, and what a user does inside his handler
  (cancelling another query while `tcpconn_close` walks its list, for instance) is left out. A change
  of the servers shows only in their number; that `dnsc_srv_set` also replaces the addresses,
  under connections that stay open, does not.
* A send either works or fails at once; a stream's queue is seen only through
  `TransportHandler`. A reliable transport is not in `InviteCall`.
* Allocation failures are left out, except where they are the same as a failed send.
* The 482 answer to merged requests, stateless requests outside `InviteCall`, and
  `sipsess_close_all` are left out.
* Message contents are reduced to the class of a response and, for the peer's
  INVITEs, the sequence number and whether an answer is awaited in the ACK.

## 4. The proofs

Each holds for every value of the constants that satisfies the named assumptions of the
modules, and TLC evaluates those in every run. The assumptions are types (numbers are
natural, timers positive) except where said below. Each proof has an inductive invariant,
which TLC found invariant on the run's instance first; the step is one lemma or one numbered
step for each action.

| module | theorem | states |
|---|---|---|
| `ClientTrans_proof` | `TypeCorrect`, `ReportedOnce`, `AlwaysArmed`, `SentSeldom` | `CtTypeOK`, `ReportsOnce`, `DeadlineArmed`, `TransmissionBound` |
| `ClientRequest_proof` | `RequestTypeCorrect`, `OutcomeOnce`, `NeverOrphaned`, `CancelCorrect`, `NoFailover` | `ReqTypeOK`, `UserToldOnce`, `RequestNotOrphaned`, `CancelNotLost`, `CancelStopsFailover` |
| `InviteCall_proof` (server transaction) | `ServerTypeCorrect`, `NeverStale`, `CancelTold` | `StTypeOK`, `HeldOrTimed`, `CancelToldOnce` |
| `InviteCall_proof` (handshake) | `RingsOnceOnly`, `EndsAgree` | `RingsOnce`, `SameOutcome` |
| `Sipsess_proof` | `TypeCorrect`, `RefsCorrect`, `FreedCorrect`, `ModifyCorrect`, `NoGlareCorrect`, `AwaitedCorrect`, `Refinement` | `SessTypeOK`, `RefsExact`, `FreedAtRest`, `ModifyNotLost`, `NoGlare`, `AnswerAwaited`, `KeepsPromise` |
| `Sipreg_proof` | `AlwaysPursued`, `NothingLeftBehind`, `ShownCorrect` | `Pursued`, `GoneIsUnbound`, `ShownIsBound` |
| `Phone_proof` (phone) | `BusyOnlyByCrossing`, `IncomingTimed`, `RingingCorrect` | `OnlyCrossingLeavesBusy`, `Timed`, `OnlyCrossingEndsOther` |
| `Phone_proof` (event loop) | `TimersAreInTime` | `TimersPrompt` |
| `AudioReceive_proof` (jitter buffer) | `FramesAreAccounted`, `PacketsInOrder`, `InTimeIsAccepted` | `FramesAccounted`, `PlayedInOrder`, `InTimeAccepted` |
| `AudioReceive_proof` (network to ear) | `CountIsExact`, `VoiceInOrder` | `BytesExact`, `SoundInOrder` |
| `DnsClient_proof` | `ToldAtMostOnce`, `NeverStranded` | `ToldOnce`, `NotStranded` |

**`ClientTrans_proof`.** `CtInv`
adds that no deadline runs for a transaction that does not exist (`NoIdleTimer`: it
would free one that has not reported), that only attempt 1 and the CANCEL are used
(`OneAttempt`: further attempts are the request layer's), and that there is no CANCEL
before the deadline of the INVITE is started again (`CancelFresh`: a second CANCEL would
reopen a transaction that has reported).
The model's `Fail` frees the record *after* the report, as `terminate` and `mem_deref`
do; the proof turns on `Reports` being exactly the states in which nothing was reported.
`SentSeldom` is a matter of time: `PacedInv` says when the next transmission comes, counted
from the first, and the deadline leaves room for so many. It assumes the ratios of `re_sip.h`
(`SourceTimers`: T2 = 8·T1, the deadline 64·T1), for every T1: with other ratios the counts
would be others.

**`InviteCall_proof`, the server transaction.** The invariant adds `UserHolds`: a
transaction is held exactly while it is unanswered, so a CANCEL that finds one unanswered finds its user
there, and the 487 takes his pointer away.

**`ClientRequest_proof`.** `ReqInv` says of every attempt that it can report only if it is
the current one (`Watched`), and that `provrecv` tells whether the current INVITE has heard a
provisional response (`Ringing`). The second is what `CancelNotLost` needs: a cancel
comes either after that response, and sends the CANCEL, or before it, and then
`response_handler` does. `NoFailover` is about steps and goes through all
callbacks; it needs no invariant.

**`InviteCall_proof`, the handshake.** `CallInv` relates the two ends through their clocks. The caller's next
INVITE comes at an odd multiple of T1 after the first (`Scheduled`), so at least T1 before his
deadline (`RepeatedInTime`). While the callee's answer is not acknowledged, his
transaction lives longer than any INVITE in the network and than the deadline of a caller who
has heard nothing; once it is acknowledged, the caller sends no INVITE any more and T4
outlasts the copies (`Absorbs`). So nothing is left when the transaction goes. This uses
`PromptAssumption`. `SameOutcome` needs that every datagram in the network was sent for a reason that still
holds (`Founded`), and that holds only because there is one session, so both are one
invariant.

**`Sipsess_proof`.** `SessInv` is a predicate on the one record (`Fine`), and there is a lemma
for each handler which says what it makes of a record of which less is known (`Steady`,
`Sound`): the handlers call each other in the middle of a step, when `Fine` does not hold.
Besides the properties it says that no timer or transaction survives the end (`Quiet`), that
`terminate` has run only when nothing but its BYE is left (`Over`), and where an accepted
peer or a told user can be (`Known`, `Told`). `Refinement` shows the step simulation: the
initial state of the session is one of `SessionPromise`, and every step is one of its events
or a stutter (`Carried`, `Heard`: what no handler takes back).

**`Sipreg_proof`.** `RegInv` says of each client that it waits for one thing (`Fit`) and that
the registrar has its contact only if the client knows it may (`Traced`); it needs no
assumption on the intervals. `LeaseInv` says that the lease outlasts the timer and the first
request that follows it (`Covered`), and that a lease just renewed is no older than the request
that renewed it (`Fresh`). `Covered` uses `LeaseAssumption`, which the code's own 3600 s
satisfy (3240 + 2 · 32 < 3600), and needs no bound on `LoopMax`: what a chain of challenges does
is the exception in `ShownIsBound`. With an interval below 640 s the account may also show
"registered" too long without any challenge.

**`Phone_proof`, the phone.** `PhoneInv` has, besides `OnlyCrossingLeavesBusy`, that every live
call is in the list (`Listed`), that an incoming one is timed or about to be told closed
(`Timed`, the safety half of `IncomingSettles`), and what the SIP thread still knows of its event's
call when it reaches `setState` (`SipInv`): only the user can have changed it since, by
hanging it up, and when a closed call is dereferenced the phone is idle. That last part
is why a closed call cannot leave the phone busy, and why the exception is one crossing
and not any. `RingingCorrect` needs in addition that
the ringing time is no longer than the age of the newest call (`Aged`, `LastAged`), and the
hypothesis `OneCall`: `MaxCalls` = 1, the `MAX_CALLS` of `ua.c:22`. With `MaxCalls`
= 2 TLC refutes the property: an incoming call may then be accepted behind one that rings, and the
ringing time of that one ends it.

**`DnsClient_proof`.** `DnsInv` says that an open TCP query is in exactly one place: on
one connection, once, or in one pending `send_tcp` (`Apart`, `Kept`). The lemmas about
`list_unlink` (`Unlinked`) and about what a closing connection leaves to be sent again are the
larger part of the proof.

**`Phone_proof`, the event loop.** `LoopInv` says that the list of timers is sorted by the time
left and has the timer of the network in it, and that no timer is ever more than `PollMax` late.
While the thread sleeps in poll, whose end was computed before it went to sleep, a timer
that was in the list then does not expire during the sleep; one that another thread
starts meanwhile can, but no timer falls below what is left of the sleep, less `PollMax`. The
lemmas `RemovedAt` and `InsertedAt` say what `list_unlink` and a sorted insertion make of a
list.

**`AudioReceive_proof`.** `JbInv` says that the frames are strictly ascending by the true number
of their packets, that all of them are younger than what was played, that what was played is
`JbMin` packets behind the newest, and that the last packet put is not left behind by the
network (`LastPut`). The code sees only sequence numbers: `SeqOrder` says that they order packets
as the true numbers do as long as these are less than half the circle apart. That much is an
assumption about the network, in the guard of `Arrives`; that a packet is overtaken by fewer than
`JbMin` others is one too (`NetworkAssumption`). `AudioInv` adds what happens to the decoded
frames: `Kept`, decoded or to be decoded, is in order and lies between the packet heard
last and the packet played last (`InOrder`), and every step only drops from its front or
adds something younger at its end (`Dropped`, `JoinKeeps`). `Exact` says that `cur_sz` is
the sum of what is left of the frames. The sum is a recursive function (`Upto`);
that it exists and is unique is shown by a smallest counterexample (`FirstPosition`), which
needs no induction theorem. `AudioAssumption` says, besides types, that `NoBuffer`, NULL, is
no buffer.

**Only model-checked:** liveness. The prover has no rule for fairness or `ENABLED`, so
`CancelledEnds`, `RequestEnds`, `AnswerSettles`, `AnsweredEnds`, `HangUpEnds`, `SessionGoes`,
`Leaves`, `CancelHeeded`, `IncomingSettles` and `QuerySettles` stay with TLC. Every
invariant and every action property of the passing runs, and the refinement, is also a theorem.

## 5. What is not modelled

The list of components in `PROJECT.json` gives the reason for each.

* *No control the properties depend on:* parsing, formatting and digests, hash tables and
  buffers, SDP (an offer is accepted or refused), RTP packet formats, codecs, echo
  cancellation, sound drivers, the layout of windows and the storage of settings. The
  vendored libraries (webrtc, speex, gsm, g722, portaudio) are by far the most lines
  of the repository, and signal processing throughout.
* *Not reached by the phone:* ICE, STUN and TURN, event subscriptions, call transfer, BFCP, HTTP,
  video, conference mixing, connection reuse over TCP and TLS.
* *Of modelled components:* the 482 answer to a merged request, `sipsess_close_all` and
  the order of `ua_close`, which run only when the program ends; allocation failures;
  the sending side of the audio, whose only shared state is the same kind of buffer;
  data races inside a call.

## 6. Plan

Order: the most important behaviour first. The modelling, steps 1 to 8, is done.

1. `ClientTrans`, `ServerTrans` (transactions), with proofs.
2. `ClientRequest` (request layer).
3. `InviteCall` (composition over a lossy network).
4. `Sipsess` refining `SessionPromise`.
5. `Sipreg` (registration and the registrar's lease).
6. `UserAgent` and `Phone` (calls and the phone's two threads), `MainLoop`.
7. `Jbuf`, `Aubuf`, `RtpStream`, `AudioReceive` (the received voice).
8. `DnsClient`.
9. Proofs of the SIP stack, of registration, the phone and the DNS client (section 4).
10. Proofs of the event loop, the buffers and the received voice (section 4).

All of it is done. What could come next: a dialog module beside `Sipsess`, the connections of
`sip_transp.c` under the transactions, and the sending side of the audio.
