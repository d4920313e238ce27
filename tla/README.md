# A formal model of rslinker

rslinker exposes services behind a NAT: a *server* listens on public ports, a
*client* keeps one control connection to it, and every visitor of a port is
joined, over a data connection the client opens, to a service on the client's
side. This directory models the program in TLA+, checks the models with TLC and
proves the core of them with TLAPS. Line numbers refer to the sources under
`src/`.

## 1. The system

| Component | State | Operations | Hard behaviour |
|---|---|---|---|
| Accept loop, `server/mod.rs` | the listener, `using_ports`, the leader of controllers | accept, `on_new_connection` | one failed accept ends it; each connection is its own task |
| Controller, `server/controller.rs` | `ports`, `heartbeat_interval`, `pending_sockets`, the monitor leader | `prepare` (accept_client, accept_config), `main_loop`, `cleanup` | several controllers share `using_ports`; awaits between check, insert and reply; a timer per pending socket outlives the controller |
| Monitors, `server/monitor.rs` | a listener per granted port | bind, accept and report, stop | told to stop, but nobody waits until they have |
| Leader/Employee, `utils/chat/mod.rs` | senders by employee, one report queue | hire, send_to, broadcast, fired, report | an employee reports to a leader that is gone |
| Client, `client.rs` | control connection, id, `links`, retry counter | connect, new_client, push_config, the two exec loops, reconnect | reconnecting races the server's noticing; `links` shrinks for good |
| Channels, `client.rs:325-571` | one data connection each | dial both sides, AcceptChannel, copy | fail without a word to the server |
| HTTP override, `client.rs:390-535` | `override_remote_buf`, `local_buf`, `is_request_line_send` | parse the first head, replace headers, forward, then copy | one `select!` reads both sides and writes within its branches; writes take part of a buffer |
| Request parser, `llhttp/` | the machine's state, spans, flags, `content_length`; the buffers of `RequestParser` | `execute`, callbacks | a read may end anywhere; a span continues in the next buffer |
| UDP relay, `server/mod.rs:137-157`, `client.rs:549-571` | two copies and the connection between them | read, write_all, time out | a stream carries datagrams; each copy writes within its `select!` |
| Framing, `protocol/mod.rs` | `r_buf`, `w_buf`, `size` | read_one, write_one, raw AsyncRead/Write | reads are cancelled by `select!`; a stream changes from frames to raw bytes |
| UDP table, `protocol/udp.rs` | a table from source address to channel | receive, accept, read, drop | removals are spawned by `Drop` and run late |
| Heartbeats, `client.rs:169-209`, `controller.rs:96-136` | an interval and a timeout | tick, send, wait | the timeout starts anew in every round of `select!` |
| Configuration and start-up, `config/`, `main.rs` | the file's tables, the map of links | resolve redirects, parse, start a task per client | one client or link that is no good among others |
| Transports, `protocol/{tcp,tls,kcp,quic}.rs` | sockets | connect, accept | third-party |

The parts interact in three ways. **Messages on the control connection**: the
client sends NewClient, PushConfig and Heartbeat; the server AcceptClient,
AcceptConfig and NewChannel. **Messages between tasks**: monitors report sockets
and errors to their controller, the accept loop hands data connections to the
controller they name, controllers broadcast "stop". **Shared state**: all
controllers share `using_ports` behind a lock; a controller and its timers and
channel tasks share `pending_sockets`.

What makes each part correct:

- *Registry of ports*: no port is granted twice; a granted port stays in
  `using_ports` until its holder gives it back; ports are not lost.
- *Handshake*: client and controller agree on the granted links; the handshake
  ends; the client meets no message it has a `todo!()` for.
- *Monitors*: nobody but the owner, or what is left of an ended owner, listens
  on a port; an ended controller's monitors stop; an Error report never names a
  monitor the leader has forgotten.
- *Visitors*: pending before announced; sent to the controller that holds them;
  joined or turned away in the end.
- *Framing*: whole messages in order, however cut and however often cancelled.
- *UDP table*: each datagram once, in order; entries and the receiving task go
  away.
- *Request parser*: it accepts a well-formed request wherever it is cut; every
  span that ends is the one that was begun; a length is what was written, and a
  head with two ways to tell its length is refused.
- *HTTP override*: the local service gets the visitor's head once, whole, with
  the user's headers, then the rest; its answers arrive in order and once.
- *UDP relay*: no byte is lost, repeated or moved; the relay goes on, or ends.
- *Heartbeats*: a client that is there is kept; the silence of one that is not
  has a bound.
- *Start-up*: a redirect replaces and invents nothing; a client asks for the
  ports of the links it can use; no client keeps another from starting.

`PROJECT.json` lists the hazards of the code at their lines, and the properties
that would catch each. Three have none, because what one would wish for is not
true of the code, or is certain to go wrong, and nothing in the repository
promises it: a client whose server end failed silently during the handshake
waits for good (client.rs:117), the server never forgets the reports and senders
of ended controllers (chat/mod.rs:52), and chunks that come with the head lose
their sizes (client.rs:507). Once the accept loop has ended (server/mod.rs:104)
no client connects again; what is shown is that visitors are turned away then.

## 2. Modules

```
Wire ──┬── Server ──┐
       └── Client ──┴── Rslinker ──┬── MCRslinker (runs)
       PortLeases ──────┘          └── RslinkerProofs
        (INSTANCE, the abstract registry)

LlHttp ── HttpChannel ──┬── MCHttp
                        └── HttpProofs ── HttpRequestProofs
Framing ────┬── MCFraming                 UdpTable ──┬── MCUdpTable
Heartbeat ──┼── MCHeartbeat                          └── UdpProofs
            └── ConnectionProofs (of both)
Startup ──┬── MCStartup                   UdpRelay ──┬── MCUdpRelay
          └── StartupProofs                          └── UdpRelayProofs

SequenceLemmas, used by ConnectionProofs, UdpRelayProofs, HttpProofs and StartupProofs
```

**Wire** is what both sides share. A control connection is a number, in the
order they are opened; each of its ends is `open`, `broken` (it will see an
error) or `closed`. `up` and `down` are the frames in flight, `data` says how far
the data connection of a visitor has got and `from` which controller id it
names. Writing to an end whose peer is gone succeeds once and is answered by a
reset (`ResetServerEnd`, `ResetClientEnd`). A closed peer is *not* noticed by a
reader: a read of zero bytes makes the code's framed reader ask again
(`protocol/mod.rs:237,246`), so no action stands for it. The `type` field of a
message is the tag of its enum; uuids are what they identify (a controller's id
is its connection, a pending socket's number its visitor).

**Server** has one action per stretch of a task between two awaits.
`phase[s]` is where the task of connection `s` stands:

| phase | code |
|---|---|
| `first` | `on_new_connection`, reading (`server/mod.rs`) |
| `hello`, `config`, `lock`, `reply` | `prepare`: AcceptClient is written; PushConfig is read; the write lock is awaited; the reply is written under it |
| `serve`, `notify` | `main_loop`: its `select!`; the await of NewChannel's write |
| `cleanup`, `done` | `exec` after the loop; the controller is dropped |

The phases `lock` and `reply` are apart because other tasks run between them: the
reply is written with the lock of `using_ports` held, and it may fail after the
ports were inserted. `Cleanup` is one action: after the lock is granted nothing in
it awaits. The broadcast that precedes it has no step of its own: a monitor may
stop as soon as the phase is `cleanup`. Dropping a controller drops its
connection, the unread reports of its monitors and its unread mail (`Cleanup`
does all of it), but not its timers, channel tasks and relays.

**Client** follows `exec`: `cphase[c]` from `connect` to `down`. `SessionEnds` is
the common end of a session with whatever result (`client.rs:214-240`); `Dial`
drops the old connection when the new one is there. `RecvNewChannel` contains the
`todo!()` (it ends the task). The client's heartbeat interval is untimed: a
heartbeat may be written whenever the last one has been read. (Heartbeat has the
times.)

**Rslinker** composes the three: `Next`, fairness, and all properties.

**PortLeases** is the abstract registry: a port is free, leased to a session, or
lost; a session is given its leases in one step, once; its leases end together.
"Lost" is in the abstraction because it is in the code: a controller whose reply
cannot be written never gives back what it inserted (`controller.rs:402-412`).

**Framing** is one direction of `AntiStickyStream`, byte by byte, with a base and
a width for lengths (256 and 8 in the code). `CancelRead` drops the read future
at any wait. On a `data` connection the first frame is followed by raw bytes
that bypass the buffers on both sides, as `AsyncRead for AntiStickyStream` does.

**UdpTable** is `protocol/udp.rs`: the receiving task, the table, UdpClients and
the removal tasks their `Drop` spawns. An error of the socket ends the receiving
task while the UdpServer is open (`ReceiveFails`, udp.rs:52). UdpClients in use
keep their senders, since they hold the table too; the monitor's `accept` hands
out what is queued and then panics (`AcceptPanics`, udp.rs:86). In Server this
is `MonitorFails`: a udp monitor that ends without a report.

**LlHttp** is the request parser. `cur` names the state of the generated C code
(`llhttp.c`, without its prefix), and each action is what one state does with
the byte at `p`; the gotos that test no further byte belong to the action. States
that spell out a keyword, letter by letter, are one state (`Keyword`), whose
progress survives the end of a buffer as the C code's `_index` does. `parser` is
`llhttp_t`, `request` the fields of `RequestParser` that its callbacks fill.
A span that is open at the end of a buffer is handed to its callback and begins
again in the next. Once `error` is set, `execute` does nothing. On some error
paths the C code ends the open span before it reports the error; here the parser
just fails, because the channel ends and what its callbacks collected is not
read again.

**HttpChannel** is the task around it. `phase` is where the task stands: `select`;
`execute` (the parser runs, one state at a time); `write_line`, `headers`,
`write_headers`, `head_end`, `write_local` (client.rs:467-511, between two
awaits each); `flush_local`, `flush_remote` (client.rs:515-529); `copy`
(`copy_bidirectional`); `ended`; `panicked`. What is written is counted in units
(a line, a header, a blank line, a byte of data), and a write takes any number
of them. Connecting and AcceptChannel are in Client.

**Heartbeat** has the client's interval and the controller's timeout in discrete
time. Time passes when nothing that is ready is left to be done, or the delays
allow for it: `MaxLate` and `MaxDelay` bound how late a heartbeat is sent and how
long it is on its way. Rounds that end for another reason restart the timer;
while the controller writes to the client, no timer runs.

**UdpRelay** is one UDP visitor's relay, from the `UdpClient` to the service and
back. A byte is a pair of its datagram and its place in it; the connection is a
stream of `Room` bytes per direction, read in pieces of at most `Chunk`. Both
copies write with `write_all` inside a branch of their `select!`, so a copy in
`write` reads nothing. `quiet` is the server's copy after its ten-minute timeout;
`ended` is a copy that failed.

**Startup** goes from the parsed file to running clients. A value is a record
whose field names its kind, so that a wrong kind is an error where serde or
`config/mod.rs` reports one. `main` is the main task, `task[i]` client `i`'s. Tables
are within tables; `Tables` are those that occur, and `Depth` says how deep each is
nested, which is what makes `Linked`, a function defined by recursion over them,
well defined.

Operators marked `\* mutant` are wrong versions of the definition after them;
no specification uses them. They document, for each property, a bug it catches.

## 3. Runs

All runs instantiate small sets, without symmetry. Every bound is a constant.
`CHECK_DEADLOCK FALSE` everywhere: the systems stop when clients are down,
sessions are used up and no visitor, datagram or byte is left.

| Run | Question | Instance |
|---|---|---|
| `registry` | Is a port ever granted twice or misreported? Who can still listen on a port after its owner changed? Does `using_ports` implement PortLeases? | two clients with heartbeats, one wants {p1}, the other {p1, p2}; two sessions; the second client reconnects; links and dialling fail, clients stop |
| `channels` | Is a claimed visitor always a pending one, at the controller named? Are reports and messages always expected ones? Are ports lost without a network failure? | one client, tcp and udp port, two visitors; monitors, channels, accept fail; two sessions |
| `liveness` | Are dead clients reaped, monitors stopped, handshakes ended, visitors settled? | one client, one port, one visitor, two sessions; links and channels fail, the accept loop may end |
| `framing` | Whole messages in order? Raw bytes accounted for? Does everything arrive? | binary bytes, lengths of two digits, all messages up to length 2, two of them, two raw bytes |
| `udp` | Each datagram once and in order? Do entries and the task go? | two addresses, three datagrams; the socket may fail |
| `http` | Are well-formed requests accepted, rewritten and forwarded once and whole, wherever cut? Do spans, lengths and answers come out right for any bytes? | five well-formed requests, cut anywhere; some nine hundred streams that bring every state of the parser every kind of byte; an HTTP/0.9 request followed by one of HTTP/1.1 |
| `heartbeat` | Is a live client ever given up? How long does a dead one hold on? | interval 1, timeout 10, heartbeats 2 late and 3 on their way; two other rounds, two ticks of blocked writes |
| `udp_relay` | Is every byte accounted for? Does traffic arrive, does the relay end? | datagrams of 0, 1 and 4 bytes, two and one answer, pieces of 2, buffers of 3, connections of 2 |
| `startup` | What do redirects change? Does each client ask for the links it can use? Does each start? | 3228 files and modes (45,044 states), `Tables` and their `Depth` those the files are built from: redirects that name configs with redirects, nothing, or no table; clients with any two links of a set; two clients |
| `eof` *(violation)* | controller.rs:121: does a controller end when its client has disconnected? | one client without heartbeats |
| `ssh` *(violation)* | README.md:58: can a service that speaks first be forwarded? | one message, two raw bytes |
| `udp_read` *(violation)* | udp.rs:92: is the `unwrap` of `recv` safe? | as `udp` |

Why the bounds are enough. The registry's steps concern two controllers at a
time, and what its properties say relates two; two sessions, of two clients or of
one that reconnects, give every order of their steps, with a monitor of the
first that lingers while the second is granted its port. One link of each
protocol and two visitors make announcements, claims and timeouts overlap. A
length of two digits in base two is the smallest in which a length can be cut in
the middle; two messages are needed for one to be read ahead with the other.
Three datagrams from two addresses are needed for an address to be reused after
a drop while another is in use.

In `http`, keywords are shortened (those that share a beginning still do) and
`MaxLength` is 15, so that one digit too many overflows in the multiplication
and another in the addition. The well-formed requests are cut at every byte; the
other streams within their last bytes, where the state and the byte they are
made for meet. Streams with bytes beyond ASCII are run with and without the log
line of client.rs:464. One request has three answers, which is what it takes for
a remainder to be in `local_buf` with one in front of it and one behind. In
`heartbeat`, interval, lateness and delays add up to one less than the timeout:
with one more, the assumption `PunctualAssumption` is false. In `udp_relay`, one
datagram fits into a piece, one is larger than the connection and the buffers,
and one is empty, so a copy can be stopped within a datagram in both
directions. In `startup`, two links are every pair that shares or does not
share a port and a protocol.

What the runs show: ports are never handed out twice, and *no* interleaving
loses a port unless a connection breaks while a reply is written. A UDP visitor
can lose its relay to a late removal, but only if its address was used before
(`OrphanNeedsReuse` holds, `ReadNeverPanics` does not). A UDP relay moves every
byte in order, and can be stuck in one state only, `Stuck`. An HTTP head is
forwarded once and whole for every cut: one line and one blank line at most, the
headers before the blank line and the data after it.

What the models have and no property denies, because the code is plain about it
and the repository promises nothing else:

- A reconnecting client can be refused a port by its own former session, which
  holds it until a heartbeat timeout or a reset.
- A failed bind of the server, or an unknown protocol, leaves a process that
  waits for Ctrl-C with nothing running. A `heartbeat_interval` of 0 panics in
  `tokio::time::interval` (client.rs:175).
- Redirects are not resolved inside arrays, and `[[client]]` is one.
- README.md's client examples have no `retry_times`, which config/client.rs:23
  requires, so they are refused; its QUIC server has a `tls_config` where
  main.rs:137 asks for `quic_config`.
- Only the first request of an HTTP connection is rewritten, and overrides
  replace headers that are there: they add none. Headers of one name in one
  read collapse to the last value. A second request in the same read loses its
  line. Chunks that arrive with the end of the head are forwarded without their
  sizes; trailers are merged with the headers. An HTTP/0.9 request never has its
  line sent, and if its blank line is cut between CR and LF, its headers are
  sent in front of the line of the request after it; RTSP and ICE lines go out as `HTTP/`. CONNECT and Upgrade end the
  channel. A binary body, or a character that is cut, in the first reads panics
  the task where the log line is formatted, and aborts the process below that
  log level. What a reply leaves in `local_buf` waits for the next reply or the
  end of the head.
- A UDP relay does not keep datagrams whole (`read_buf` of an empty `BytesMut`
  takes 64 bytes); after the end of its stream the server's copy sends empty
  datagrams until the visitor sends something; the client's copy ignores an
  end of stream.

### Fairness

Liveness is checked under `FairSpec`: weak fairness of each task's steps,
because the runtime polls a task whose future is ready, and of each branch of a
`select!` by itself, because `tokio::select!` polls its branches in random order
and a branch that stays ready is taken in the end. Timers fire
(`HeartbeatTimeout`, `PendingTimeout`). The kernel resets a connection sooner or
later when bytes reach a closed end. No fairness is assumed of failures, of
visitors, of a user stopping a process, or of a relay ending. In `Framing` the
reader's `read_buf` is strongly fair, since cancelled reads make it ready only
now and then; a `select!` that is run again and again will take it. In
`UdpTable` the spawned removals run and the receiving task sees its shutdown
message; the socket need not fail. In `HttpChannel` the task goes on where nothing is to be awaited but a
socket that takes bytes (`TaskStep`), and what the visitor has sent is read, in
the loop and in the copy; sockets need not fail and the local service need not
answer. In `UdpRelay` each branch of both copies, each write that can go on and
the timeout are fair; the connection need not break and nobody need send. In
`Startup` the main task and each client's task go on; nothing need fail and
nobody need press Ctrl-C. `Heartbeat` states bounds only, and needs no fairness.

## 4. Proofs

The assumptions on the constants are named and stand in the modules that declare
them. Most of them type the constants (`WireAssumption`, `ServerAssumption`,
`ClientAssumption`, `UdpAssumption`, `HttpAssumption`, `HeartbeatAssumption`,
`RelayAssumption`). `LlHttpAssumption` also says that the classes of bytes are
disjoint (letters and digits; ASCII, the bytes that begin a longer character and
those that continue one), that `Lower` maps letters to letters and that keywords
are made of ASCII: that is how ASCII and UTF-8 are. `FramingAssumption` says that the length of a message
fits into a length (a `Vec` cannot have 2^64 bytes, and the code writes 8).
`StartupAssumption` says that the tables of a file are nested to some finite depth
(`Depth` falls from a table to those within it, as it does in any parsed file) and
that arrays of links are sequences. `SpellAssumption` is about keywords: methods and
the names of headers are tokens, different ones are spelled differently, and no name
of a header the parser knows begins another.

`RequestsAssumption` says what a well-formed request is (`WellFormed`), for the
streams that `Requests` describes. The other theorems hold for every stream.
A method but CONNECT that the parser knows, a path or a scheme and a server (with
or without what follows it), a supported version, headers whose names are tokens
and differ whatever their case, values without control bytes. A Content-Length has
digits, and fits into the parser's counter. There is no Transfer-Encoding and no
Upgrade header, and the body, as far as it is there, is no longer than the
Content-Length says. What is left out is well-formed HTTP as well, and the code
treats it differently: an upgrade and CONNECT end the channel (HPE_PAUSED_UPGRADE),
a chunked body that comes with the head loses its sizes (a hazard of
`PROJECT.json`), headers of one name replace each other in the HashMap when one read
brings both, and a second request puts its headers among those of the first when one
read brings it too.

Heartbeat has one more, `PunctualAssumption`: an interval, the lateness and twice
the delay are less than the timeout. `NoPortIsLost` assumes that connections do
not break by themselves, which is what the property is about: with `"link"` in
`Faults` it is false (`Lost` in PortLeases). Nothing else is assumed: the theorems hold
for every number of clients, sessions, ports, visitors, addresses and
datagrams, every choice of faults, every stream of bytes and every cut of it.

| Theorem | Statement | Argument |
|---|---|---|
| `RslinkerProofs!TypeCorrect` | `Spec => []TypeOK` | types alone are not inductive: `NotifyClient` names the visitor it was told of, a client that reads or writes needs a connection, a retry counter must not be decremented at 0. `TypeInv` adds these (`ClientBound`, `ServerBound`); one step per action. Lemmas say what queues and messages contain. |
| `RslinkerProofs!RegistryInvariance` | `Spec => []RegistryInv` | inductive relative to `TypeInv`. `RegistrySteps` sorts all actions: three touch the registry, the others leave it alone or make a `HarmlessMove` of one controller. |
| `RslinkerProofs!PortsAreHeldOnce` | `Spec => []PortsHeldOnce` | a part of `RegistryInv`. On its own it is not inductive: it takes the lock (nobody else is in `reply`) for the check to be still valid when the reply is out, and the emptiness of `ports` before the reply for `Cleanup` not to free what is another's. |
| `RslinkerProofs!RegistryImplementsLeases` | `Spec => ImplementsLeases` | the lease of a held port is its holder, unique by `PortsHeldOnce`, so the `CHOOSE` of the mapping is determined (`LeasesAreHeld`). AcquirePorts is a Grant, Cleanup a GiveUp to Free, a failed WriteReply a GiveUp to Lost, a controller that fails earlier a Grant of nothing, everything else a stutter. |
| `RslinkerProofs!ErrorsNameHired` | `Spec => []ErrorNamesHired` | `MonitorInv`, of each controller by itself: before its reply is out nothing runs and nothing is reported; a running monitor's port is owned and known; an error in the queue is of a monitor that is dead and reported no other, so that firing one leaves the others known. |
| `RslinkerProofs!StaleListenersAreEnded` | `Spec => []StaleListenerIsEnded` | `MonitorInv` puts a running monitor's port among those its controller holds, unless that is gone; `PortsHeldOnce` says that nobody else holds it. |
| `RslinkerProofs!HandshakeInvariance` | `Spec => []HandshakeInv` | for each stage of a client, where its controller can stand and which frames can be on their way. Steps of the server and of the network carry every stage of their session over (`Carries`), a step of a client takes it from one stage to the next; no other client touches that session, because a session is opened once. |
| `RslinkerProofs!LinksAlwaysAgree` | `Spec => []LinksAgree` | the stage of a running client names the reply that it read, and its links are what that reply left. |
| `RslinkerProofs!ChannelsOnlyAnnounced` | `Spec => []OnlyChannelsAnnounced` | in the stages of a running client nothing but NewChannel is on its way to it. |
| `RslinkerProofs!NoPortIsLost` | `"link" \notin Faults`: `Spec => []NoPortLost` | by `HandshakeInv`, nothing unread is on its way to a client whose request is being answered, so its going away cannot break the connection before the reply is written (`RepliesGoOut`). |
| `RslinkerProofs!ClaimedVisitorsArePending` | `Spec => []ClaimedIsPending` | `VisitorInv` follows a visitor from the monitor through the reports, the announcement and the data connection: it is in one place at a time and always with the controller whose monitor accepted it. That a channel names the id its announcement came with is `HandshakeInv`'s. |
| `UdpProofs!UdpTypes` | `UdpSpec => []UdpTypeOK` | with `UdpInv`: clients are made in order, an entry of the table is the latest client of its address, and only what is gone has a removal task. |
| `UdpProofs!OrphansReuseAddresses` | `UdpSpec => []OrphanNeedsReuse` | from `UdpInv`: a removal that takes the entry of `g` was spawned for an earlier client of the same address. |
| `UdpProofs!DatagramsOnce` | `UdpSpec => []DatagramsOnceInOrder` | what each client was given is a history (`History`); `Spread` says that histories ascend and that each datagram so far is in exactly one of them. A new datagram is greater than all and goes to one. |
| `HttpProofs!SpansFit` | `Spec => []SpanFitsState` | `Good`, of a state and the parser's fields: the open span is the one the state ends, and the flags and header states fit it. Lemmas carry it through each helper of the machine (`Move`, `Eat`, `EndSpan`, `Fail`, ...); then one step per state. The end of a buffer keeps the state. |
| `HttpProofs!OneWayToTellTheLength` | `Spec => []NeverBothLengths` | the other half of `Good`: both flags are never set, nor one with the other's header at hand past the check of its name, so every order and spelling of the two headers is refused. |
| `HttpProofs!RepliesArriveInOrder` | `Spec => []RepliesInOrder` | what was written and what is buffered make up what was read, through partial writes; the buffer is empty when the copy begins, which is what the flush is for. |
| `HttpProofs!HttpTypes` | `Spec => []HttpTypeOK` | `TypedInv`: a span lies in what was received, and the parser has a version only after method and url (`AfterMethod`), so the line that client.rs:469-476 unwraps together is there. One lemma per helper of the machine, then one step per state. |
| `HttpProofs!OneHeadIsForwarded` | `Spec => []OneHead` | `HeadInv`: as long as the loop runs, nothing but one line and headers are forwarded, `is_request_line_send` says whether the line is among them, and it is as soon as its version is known; the blank line and the data leave the loop, and what the flush leaves for the copy is empty (`Orderly`, `HasLine`). |
| `HttpProofs!CallbacksNeverAbort` | `Spec => []CallbacksDecode` | `DecodeInv`: while lines are logged, each read has been decoded, and no span ends between the bytes of a character, because the states end spans at ASCII bytes and at the ends of reads. |
| `HttpProofs!LengthsAreAsWritten` | `Spec => []LengthIsAsWritten` | `CountInv`: `content_length` is 0 unless a length was read, and its flag set, or a body is being consumed (`Counted`); the buffer of a value is empty outside values; so the first digit starts at nothing, and each adds itself (`NumberOfOneMore`), cut or not. `~Overflows` is what makes the remainder of 64 bits the sum itself. |
| `HttpRequestProofs!WellFormedIsAccepted` | `Spec => []RequestsAccepted` | `RequestInv`, with `TypedInv`, `CountInv` and `HeadInv`: where in the request the parser stands (`Reading`: a place in the line, in the k-th header, or behind the head) tells its state, its fields, and what the callbacks have got together with what the open span will bring them (`Heard`), which is the same wherever the reads cut. A lemma for each state says that the byte that comes next there takes it on to the next place, and none to an error. |
| `HttpRequestProofs!HeadIsForwarded` | `Spec => []HeadForwarded` | the other half of `RequestInv`: in the loop, what is forwarded is the line and as many headers as the loop has taken (`Taken`, `Sent`), and the fields hold those read since (`HeadersRead`), each once because no two are equal (`HowMany`); so a head that is complete has sent them all. Behind the loop, what is forwarded grows with the body, a byte at a time (`HeadSent`). |
| `ConnectionProofs!HeartbeatTypes` | `Spec => []HeartbeatTypeOK` | one step per action; no round waits longer than the timeout. |
| `ConnectionProofs!LiveClientsAreKept` | `Spec => []LiveClientKept` | `OnTime`: while the client is there, the round has waited no longer than since its last heartbeat could have been sent, plus what is on its way; with `PunctualAssumption` the timer cannot expire. |
| `ConnectionProofs!SilenceIsBounded` | `Spec => []SilenceBounded` | `SilenceAccounted`: the silence is made of full rounds, the present one and the time in writes. |
| `ConnectionProofs!FramingInvariance` | `FramingSpec => []FramingInv` | some messages are unread: those read and those unread make up those sent, and the buffers of both sides with the bytes between them are the unread messages' stream from where the reader stands (before a length, or behind it), and then the raw bytes. A cancelled read moves nothing; `ReadSize` takes the length that was written (`LengthsSurvive`: `Decode(Encode(n)) = n`, for every base and width). |
| `ConnectionProofs!MessagesAreWhole` | `FramingSpec => []WholeMessagesInOrder` | from `FramingInv`: what was read is a beginning of what was sent. |
| `ConnectionProofs!RawBytesAreKept` | `FramingSpec => []RawAccountedFor` | a part of `FramingInv`: a data connection has one message, so what is behind it is raw. |
| `StartupProofs!OwnIsKept` | `Spec => []RedirectsKeepOwn` | the recursive `Linked` obeys its equation (`LinkedIs`: functions on the tables up to each depth exist and agree, by induction on the depth); so each table keeps its own, and so do those nested in it (`NestedPairs`, by induction on the level). |
| `StartupProofs!LinksServed` | `Spec => []LinksAsConfigured` | `LinksInv`: after each link the map serves the links before it that were not passed over (`LoopOf`); a link inserted is the last of its port (`InsertedServes`), and only accepted files get that far. |
| `UdpRelayProofs!RelayInvariance` | `Spec => []RelayInv` | both directions are one flow, so each kind of step has one lemma: handed in, taken by the writer, written in part, read in a piece, lost with the connection. `Whole` holds while both copies work, `Begun` always. |
| `UdpRelayProofs!NoByteIsLost` | `Spec => []BytesAccounted` | from `RelayInv`. |

A proof can find what a run missed. `OneHead` once asked that nothing be forwarded
before a line was: its invariant could not be proved inductive, and the step that
broke it is a run of the program. A keep-alive `GE *` of HTTP/0.9 whose blank line is
cut after its CR has its headers sent before the version of the next request is
known. The property now says what the code does keep, and the `http` run has that
stream.

Inductions over numbers (how long a sequence is, how many digits a length has) use
`SetInduction` of SequenceLemmas: a set with 0 and with n + 1 for every n in it has
every number. It follows from the library's least elements of well-founded sets,
and no predicate is passed. With it come the existence of functions defined by
recursion and what FlattenSeq does to appended and joined sequences.

Every invariant that a run checks is proved. The inductive invariants were given to
TLC first, `RequestInv` on all streams of the `http` run. Only model-checked: the
liveness properties, because fairness and ENABLED are out of the prover's reach.

## 5. Not modelled

- Transports other than as connections that work or break: TLS, KCP and QUIC are
  adapters to libraries.
- Of llhttp, what the program never uses: responses, lenient flags, callbacks
  that pause or fail, `llhttp_finish`, resume and the other setters of `api.c`.
  The lookup tables are sets of bytes.
- Of start-up, the words of the command line, default paths, the log level, the
  syntax of TOML and the ranges of integers.
- The relays of tcp channels, which are tokio's `copy_bidirectional`: they start
  and end. `LinksAgree` and the rest of Rslinker have heartbeats without times.
- Deserialisation of messages, logging, `utils/` beyond Leader and Employee.
- Restarts of the server: it keeps nothing on disk, so a restart is a new system
  with clients in `retry`.

## 6. Plan

1. Control plane: Wire, Server, Client, Rslinker, PortLeases; proofs of types,
   registry, refinement and monitors. *Done.*
2. Framing; UdpTable and its proofs. *Done.*
3. LlHttp, HttpChannel and proofs of spans, lengths and answers. *Done.*
4. Heartbeat and its proofs; UdpRelay; Startup. *Done.*
5. Proofs about the handshake, links and visitors; about the types, the head and
   the callbacks of the http channel; about Framing and the UDP relay. *Done.*
6. Lengths of bodies, with `SetInduction` over the digits; Startup with recursive
   functions for its redirects, and its two safety properties. *Done.*
7. Whole requests: `RequestsAccepted` and `HeadForwarded`, for any cut of the
   well-formed requests. *Done.*
8. **Framing** in both directions at once, with the write of a heartbeat
   cancelled by the client's `select!`.
