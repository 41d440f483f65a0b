# Verification of STUN-for-android-demo

TLA+ models, TLC configurations and TLAPS proofs for the program in `src/`: a
STUN server and client derived from STUNTMAN, and the peer-to-peer file sharing
that was added to the client. Every definition is translated from the source;
`PROJECT.json` maps each one to the lines it stands for.

## 1. Inventory

| Part | State | Operations | Interacts with | What is hard | Modelled in |
|---|---|---|---|---|---|
| P2P file transfer (`client/clientmain.cpp`, `SharedFileBuffer`, `FileBlock`) | read and write buffers, two positions, block count, one send thread | eight datagram handlers, the send thread's loop | remote peers over UDP | two threads share a position; loss, duplication, reordering; double delete | `P2PTransfer`, `FileCopy` |
| Rendezvous (`clientmain.cpp`: register, fetch, doConnect) | list of peers, try count | send, wait, drop, retry | application server, peers | shares the socket with peers' datagrams; nothing is sent twice | `Rendezvous` |
| STUN client logic (`stuncore/stunclientlogic.cpp`, `stunclienttests.cpp`) | test index, send count, time of last send, results | `Initialize`, `GetNextMessage`, `ProcessResponse` | driver loops | late replies, retries, order of tests | `StunClientLogic` |
| STUN client drivers (`UdpClientLoop`, `TcpClientLoop`) | socket, last destination | send, receive, time out | logic, NAT, server | NAT state left by earlier tests; new socket per TCP request; partial sends | `StunClient`, `TcpRequest` |
| TCP server thread (`server/tcpserver.cpp`) | two connection tables, state per connection, exit flag, pipe | accept, receive, write, close, sweep, stop | poller, pool, clients, stopping thread | edge-triggered events, stale events, limit, stop; requests in pieces | `TcpStunThread`, `PollServer`, `TcpRequest` |
| Connection pool (`server/stunconnection.cpp`) | free list | get (grow), release | TCP server thread | objects lost on error paths | `TcpStunThread` |
| `CEpoll` (`networkutils/polling.cpp`) | fetched events and index | add, remove, change, wait | kernel, TCP server thread | events of removed descriptors | `TcpStunThread` |
| `CPoll` (`networkutils/polling.cpp`) | array, rotation, unread count | the same | the same | positions after a remove, unread count, rotation | `PollServer` |
| `CTCPServer`, UDP server (`stunsocketthread.cpp`, `server.cpp`), `main.cpp` | sockets, threads, exit flags, rotation | initialise, start, stop, receive loop | message handler, kernel | stop by a datagram to itself, partial start, sockets shared by threads | `StunServer` |
| Message handler (`stuncore/messagehandler.cpp`) and authentication (`server/sampleauthprovider.cpp`) | none; nonces | request to response or error, challenge | servers | challenge exchange, nonce age, which socket answers | `MessageHandler`, `SampleAuth` |
| Message reader (`stuncore/stunreader.cpp`) | parse state, attribute index | `AddBytes` | servers, client | fragmentation, claimed lengths | `StunReader`, `TcpRequest` |
| Hash tables (`common/fasthash.h`) | chains, free list, index | insert, remove, lookup by index | TCP server, adapters | index maintenance under remove | `FastHash`, `MultiMap` |
| Builder, buffers, sockets, addresses, adapters, option parsing, logging | | | | | not modelled: encoding and I/O |

What makes each part correct: the transfer delivers the announced file block by
block and ends; the client reports what is true of the NAT, and always reports;
the TCP server handles every event, disconnects idle clients, respects its
limit, loses nothing and can be stopped; the reader gives a verdict that does not
depend on how a message was cut; the handler answers success only to the
authorised, from the socket that was asked for and under its true address; the
hash tables are bounded maps; the server process ends when told to, from
whatever state its start left it in; and peers that found each other connect. `PROJECT.json` lists, under `hazards`,
what could go wrong and is hard to test, each with the properties that cover
it.

## 2. Modules and their correspondence to the code

### `FileCopy`, `P2PTransfer`, `MCP2PTransfer`, `P2PTransferProofs`

`P2PTransfer` starts where `initReceiveThread` does: each peer has sent its
ready request to the peer it found and asked the application server to relay
`doConnect`. The locals of `receiveThreadFunction` are functions from peers
(`fileReadBuff` is `loaded` and `fileRead`, `currentfileBlockPosition` is `pos`,
`currentWritefileBlockPosition` is `curWrite`, `fileWriteBuff` is `writeBuff`
together with what has been written). One action per branch of the receive
loop; the send thread has two steps, reading `*pos` and sending that sector,
because the receive thread changes the position between them. The first "ready"
answer makes the receive thread ask its user for a file name and block in
`scanf` (`clientmain.cpp:695`): `typing` says so, nothing is received meanwhile
while the send thread goes on, and `SendRequestFileInfo` is the rest of that
handler, once the name is typed. The process may
be aborted by the second `delete` of `fileWriteBuff` or go on: undefined
behaviour is a choice. A peer that serves the path it is downloading to loads
what has reached the disk so far.

The network is a set of datagrams. A datagram of a type in `Transient` can be
lost and is consumed or kept by its delivery; the others stay deliverable,
which allows loss (never delivered), delay, duplication and reordering with few
states. `asked` is history: which peer the file name goes to.

`FileCopy` is the abstract promise: a file is announced to a peer once and its
copy grows by the next block. `P2PTransfer` implements it with
`source <- Source`, `copy <- written`.

### `StunClientLogic`, `StunClient`, `StunClientProofs`

`StunClientLogic` has the class: one action per iteration of the loop in
`GetNextMessage` (`PreRunCheck`, `NextTest`, `StillWaiting`, `NotifyTimeout`,
`GetMessage`, `ResultsReady`) and `ProcessResponse`. `call` says whether the
class is inside `GetNextMessage` or what it returned. Time is counted in ticks
from the last send, and is read once per call as in the code. The five test
objects are the elements of `Test`. `sends` is history.

`StunClient` adds the two driver loops, the server's binding response and a NAT
with any of the mapping and filtering behaviours of RFC 4787 (outside the
repository). An endpoint is a record of what the NAT makes it depend on, so
that two mapped addresses are equal exactly when the NAT would make them equal.
UDP requests and replies stay deliverable for ever.

### `TcpStunThread`, `MCTcpStunThread`, `TcpStunThreadProofs`

One thread, its pool and `CEpoll`. Per descriptor: `_state`, the table the
connection is in, the unread bytes (`empty`, `data`, `eof`), whether the send
buffer is full, and the time since accept. The two tables and their swap are
`table` and `newTable`. `pending` is `CEpoll`'s array of fetched events, which
`Remove` does not look at; `ready` are the edge-triggered events epoll has not
reported. The handlers are operators that give the set of connections they may
leave behind, since parsing, processing and sending can each succeed or fail;
`AcceptConnection` includes the first read. Accept returns any unused
descriptor, so that descriptors are reused while events of their previous
owners are pending. `Stop` has three steps in another thread.

Not in this model: running out of memory or descriptors and a failing
`epoll_wait`. The bytes of one request and response are in `TcpRequest`.

### `MultiMap`, `FastHash`, `MCFastHash`, `FastHashProofs`

`MultiMap` is the promise of the fixed-capacity tables: a bounded map in which
inserting a key again shadows the earlier value and removing uncovers it.
`FastHash` is `FastHashBase` with its arrays: the nodes, the `pNext` links that
hold both the bucket chains and the free list, and the circular index, which is
repaired when its first or last entry goes and rebuilt by the next
`LookupByIndex` when one goes from the middle. `Chain` follows the pointers, at
most as often as there are nodes. The table implements `MultiMap` with
`stack <- Stack`: of the nodes met along the chain of a key's bucket, those that
carry the key (`Among`), and their values. The hash function and the width are
parameters.

### `MessageHandler`, `SampleAuth`

`MessageHandler` is `CStunRequestHandler` as operators: `ProcessRequest` gives
the response (kind, error code, addresses, the role it leaves from, where it
goes) to a request, the server's addresses and the provider's answer.
`SampleAuth` is the two providers. A nonce is its time and a tag for what was
signed; hashes are injective. A key is what a message-integrity attribute was
computed with.

### `StunServer`, `MCStunServer`, `StunServerProofs`

The server process. `main` initialises, starts, waits for the signal, stops and
releases a `CStunServer` or a `CTCPServer`; any socket or thread can fail to
come up. Stop has the code's three passes (flags, datagrams to wake the
threads, joins). A UDP thread blocks in `recvfrom` on one socket or selects on
several and takes the next ready one in rotation. The kernel holds `Backlog`
datagrams per socket and drops others, the wake-up datagram included. What a
thread answers is `Answer`, from `MessageHandler`. The class allows one thread
per socket (`fMultiThreadedMode`); `main` never asks for it, and it is checked
for users of the class. The body of a TCP thread is `TcpStunThread`; here it
runs until its exit is requested.

### `StunReader`, `TcpRequest`, `MCTcpRequest`, `TcpRequestProofs`, `BoundedInduction`

`StunReader` is `AddBytes`: a record of the parse state and of the bytes in the
stream, with `ReadHeader`, `ReadBody` (`ReadAttribute` is one turn of its loop,
`ReadAttributes` all of them), the bytes needed, attribute lookup (the last
attribute of a type is the one found) and the position of the integrity
attribute. `TcpRequest` composes it with `MessageHandler` and `SampleAuth` on
one connection: `TcpClientLoop`'s sends and reads on one side,
`ReceiveBytesForConnection`, `WriteBytesForConnection` and `ConsumeRemoteClose`
on the other, any number of bytes at a time. A client that is challenged keeps
the nonce; a client may go away at any point, and the thread may close the
connection under the exchange: `SweepDeadConnections` once it is in the old table
(`old`), whatever it is doing, and `Stop`. Messages are lists of attributes
with a type and a length, whole or malformed; `MessageAssumption` says that the
attributes of a message cover its body (`BytesUpTo` sums them), which is how
bytes are turned into a list at all. `WellFormed`, the reference the reader is
compared with, asks for a number of whole attributes that fill the body.

### `PollServer`, `MCPollServer`, `PollServerProofs`

`CPoll` (the poller without epoll) under the calls `CTCPStunThread` makes: the
vector `fds`, the table from a descriptor to its position (a `FastHash` in the
code, here a map, as `fasthash` justifies), the unread count and the rotation.
`Init` of the thread is in steps: the poller is created, the listening sockets
are added one by one, then the pipe (`AddPipe`). `Remove` moves the last element
into the hole. The handlers of `TcpStunThread`
are reduced to what they do to the poller: leave the connection, change its
event set or close it. `poll()` is level-triggered and external.

### `Rendezvous`, `MCRendezvous`

The end of `UdpClientLoop`, `doFetchP2pServer` and the handshake handlers of the
receive thread. Everything arrives in one inbox per peer, late STUN replies and
the other peer's requests included, and each try of `doFetchP2pServer` consumes
one datagram, whatever it is. The application server is external: it remembers
who has registered, lists the others and passes `doConnect` on. `P2PTransfer`
goes on where this ends.

## 3. Runs

| Run | Bounds | Shows |
|---|---|---|
| `p2p_safety` | 3 peers (two ask the same one), 2 names, files of 0 to 2 blocks | in-order delivery, sender and receiver in step, deletion only when complete, no use of missing buffers, the inductive invariant, refinement of `FileCopy` |
| `p2p_liveness` | 2 peers, one file of 2 blocks, sectors and acknowledgements lost and repeated | a started transfer ends, unless the serving peer's user never answers the prompt |
| `p2p_requested` (violated) | as `p2p_safety` | the second requester gets the first one's file under its own name |
| `stunclient_tests` | every NAT, server with or without alternate address, udp/tcp, basic/full, timeout of 2 ticks | soundness of the reports, retries, classification made once, completion |
| `tcpserver_safety` | 2 listening sockets, limit 2, 4 descriptors, sweep period 1 tick, a server nobody stops | no lost wake-up, bounded overrun, pool conserved, only old connections swept |
| `tcpserver_liveness` | 2 listening sockets, limit 1, 2 descriptors, with Stop | connections end, Stop returns and leaves nothing |
| `fasthash` | capacity 3, 2 buckets, 3 keys, 2 values | no node lost or shared, the index exact, refinement of `MultiMap` |
| `udpserver` | 8 configurations (one, two or four sockets, one or several threads, UDP and TCP, bound to one or every interface, advertised addresses), 2 datagrams per socket | threads own open sockets until joined, answers leave from the right socket under its true address, no socket starves, `main` returns |
| `tcprequest` | header of 4 and attribute header of 2 bytes, bodies to 16, 4 attributes, 2 exchanges, clock to 1 | reads fit the buffer, the verdict is independent of the pieces, success only for the authorised, the whole response arrives unless the client leaves, outlives a sweep or the server stops |
| `longterm` (violated) | same, long-term provider | a fresh nonce and right credentials are refused |
| `pollserver` | 2 listening sockets, limit 2, 2 descriptors, no room in the poller to spare | table and vector agree, no event lost or stale, no listening socket reported at the limit, nobody passed over |
| `rendezvous` | 2 peers, 2 tries, a stray STUN reply each, network lossy or not | the search ends, and on a network that loses nothing peers that found each other are not both left waiting |

The bounds are enough for the cases of interest: three peers are the least with
which one serves, downloads and has a second requester; two blocks are the least
with which a late sector or acknowledgement differs from the current one; two
listening sockets are the least whose events are fetched together beyond the
limit, and of four descriptors three hold the connections that then exist and
one shows that there is never a fourth. With the two descriptors of `pollserver`
there can be no third connection, so that the first conjunct of `EventsCurrent`
is shown by the theorem only; the run checks the reason for it, that a
listening socket is never reported at the limit. A sweep
period of one tick separates young connections from old ones.
A table of capacity 3 is the least in which an entry goes from the middle of the
index, and two buckets for three keys give chains with different keys. The sizes
of the STUN format are scaled down, the code only adds and compares them; the
scaled limits are met exactly and exceeded by the messages of `MCTcpRequest`.
Two tries are the least of which a foreign datagram can consume one and leave
one. `Spare = 3` is less than the code's 5: two listening sockets (of up to four)
and the pipe leave no room, so that a leak in the poller would show.
`tcpserver_safety` leaves Stop out (`ServingSpec`), which only ever closes
connections; `tcpserver_liveness` has it. Symmetry (listening sockets and
descriptors) is used only in runs without liveness.

The violated runs are disagreements between the code and what a comment
says; `findings` in `PROJECT.json` quotes both sides. Other
disagreements are stated by the passing properties, which say exactly how far
the code goes:

* `FilteringSound` and `MappingSound` have exceptions to the comments at
  `stunclientlogic.h:52` and `:45`: an address-dependent filter that an earlier
  test opened is reported as endpoint independent, and TCP without a fixed local
  port, with a new socket for every request, misreports the mapping.
* `OverrunBounded`: over `CEpoll`, listening sockets whose events were fetched
  together with the one that reaches the limit still accept, so `--maxconn`
  (`resources/stunserver.md:133`) is exceeded by up to one connection per other
  listening socket. Over `CPoll` it is kept exactly (`EventsCurrent`).
* `EventsAccounted` is an inequality: `ASSERT(_unreadcount == 0)` in `CPoll` can
  fail after a `Remove`, harmlessly.
* The TCP loop's assertion that the logic is never "still waiting"
  (`clientmain.cpp:364`) can fail, since `Initialize` turns a timeout of 0 into 3
  seconds (`stunclientlogic.cpp:91`): after a response that is not accepted, as
  when the server closes early, the loop asserts or ends with that error.
* `ExchangeCompletes`: a client that reads slowly does not get the whole response.
  A sweep closes every connection of the old table, a transmitting one too
  (`tcpserver.cpp:775`), and so does the end of the thread. The property says that
  nothing else does: a connection that is cut short has outlived one sweep
  already, or the server has been stopped.
* `TransferEnds`: while the receive thread waits in `scanf` for its own user, it
  takes no acknowledgement and its send thread repeats the same sector; if the
  user never types, for ever.

### Fairness

* `P2PTransfer`: the send thread is scheduled (weak fairness). It resends every
  50 ms and every copy is acknowledged, so a network that delivers some of
  infinitely many copies gives strong fairness of receiving each sector and each
  acknowledgement, as long as the receive thread is at `recvfrom`. Nothing is
  assumed of datagrams sent once, nor of users: one who is asked for a file name
  may never type it, and `TransferEnds` makes an exception for that.
* `StunClient`: the UDP loop never waits for long (weak fairness) and the clock
  advances (strong fairness, since it is read only between calls). Nothing is
  assumed of network, server, or the blocking TCP loop.
* `TcpStunThread`: the thread is scheduled, the clock advances and a Stop that
  was called goes on (weak fairness). Clients may do nothing for ever.
* `StunServer`: `main` and every thread are scheduled (weak fairness). Nothing is
  assumed of datagrams or of the signal.
* `TcpRequest`: the kernel moves bytes, a client that stays goes on, and the
  server thread runs (weak fairness). A client may leave at any time, and a sweep
  or a stop may or may not come; a client that stays is not assumed to be faster
  than the sweep.
* `PollServer`: the thread is scheduled (weak fairness of `Run`).
* `Rendezvous`: every behaviour is finite, and weak fairness of `Next` says that
  it is run to its end; which datagrams are lost is left to the network.

## 4. Proofs

`P2PTransferProofs` proves, for every set of peers, files, contents, targets and
every choice of `Transient`, assuming only `ConstantsAssumption` (the constants
have their types): type correctness, the four safety invariants of
`p2p_safety`, and that `P2PTransfer` implements `FileCopy`.

None of the four is inductive: whether the next sector may be written depends on
what datagrams still in the network say. The invariant `TransferInv` therefore
has, besides the two ends, what each datagram means however late it arrives
(`DatagramsTrue`): a file name comes from a peer whose `asked` is the receiver;
a file description has the size of the buffer it announces; a sector in flight
has an index at most `pos` and the data of that block, and goes to the peer the
send thread serves; an acknowledgement is of a block already written. With
`KnowsFile` (a peer whose user is being asked knows whom to ask, one that knows a
size knows the right one, and the announced buffer never changes again), `SenderInv` (`pos <= curWrite <= pos + 1`) and
`WriterInv` (what is written is a prefix of that buffer) it is inductive. One
lemma per handler shows that it is preserved; the properties follow from it.
For the refinement, one lemma per handler shows that `Source` and `written`
change as in `FileCopy` or not at all.

`TcpStunThreadProofs` proves every safety property of the two `tcpserver` runs,
for any finite sets of listening sockets and descriptors, any limit, sweep
period and growth of the pool (`ServerAssumption`). `NoLostWakeup` is not
inductive without `TablesInv` (the open connections are those in a table) and
the lemma that every handler leaves a connection settled (`Settled`: closed, or
with nothing left that an edge would have to report). `OverrunBounded` needs
`LimitInv`, which counts a fetched listen event as the connection it stands for:
`Open` and the outstanding listen events together stay below the limit plus the
number of listening sockets. `SweepsOnlyOld`, an action property, needs `AgeInv`:
a connection in the old table is at least as old as the last sweep. `EventInv`
says that an event is held only while it is handled.

`StunServerProofs` proves that no socket is closed under a running thread and
that every answer is true, for any set of configurations `main` can build and any
backlog (`StunServerAssumption`: the primary socket is always asked for, and
binding to every interface means one socket).
`ServerInv` follows `main` through its control points: which threads have an
object and own their sockets (`ThreadInv`), which kind of server runs
(`KindInv`), what has come up before the threads are started (`StartInv`), and
that no started thread is forgotten when the joins are done (`StopInv`).
`AnswersAreTrue` then is a fact about `MessageHandler` alone (`AnswerTrue`).

`PollServerProofs` proves the three invariants of `pollserver` for any number of
listening sockets and descriptors, given `PollAssumption` (the descriptors are
different, `Spare` exceeds the listening sockets). One lemma for each operation
of `CPoll` says what it does to a consistent poller (`PollOK`: the table has
every descriptor of the vector at its position and nothing else). `PollInv` says
what is registered at each point of the thread, between the steps of
`SetListenSocketsOnEpoll` as well (`Listening`), and `ControlInv` that the
listening sockets are registered exactly below the limit when an event is
fetched, which is why an event can be neither stale nor of a listening socket
at the limit.

`StunClientProofs` proves every safety property of `stunclient_tests`, for any
timeout and every NAT (`TimeoutAssumption`). That a report is sound depends on
replies that may still be in the network: `NetInv` says that every request and
reply carries the addresses the NAT gave it when its test ran, and that
the alternate address was contacted only behind a NAT on which this does not
matter to the filtering tests. `ProgressInv` ties the test index, the send
counts and the completed tests, `ResultsInv` says what the results hold of
each test that is or is not completed, `MappingInv` what the mapped addresses
seen so far mean, `DestInv` when the driver may still be sending to the
alternate address. Every completion of a test, by an answer, by its last
timeout or by its pre-run check, is one lemma (`CompletionInv`), from which
`ClassifiedOnce`, an action property, follows too.

`TcpRequestProofs` proves the three invariants of `tcprequest` for any sizes of
the format, any messages, passwords and number of exchanges, given
`FormatAssumption`, `MessageAssumption`, `ExchangeAssumption` and
`AuthAssumption`. Its core is `ReadBodyExact`: the loop of `ReadBody` accepts a
body exactly when `WellFormed` does. One direction is that the loop, wherever it
stops, has consumed a prefix sum of the attributes; the other that prefix sums
grow strictly, so that the loop cannot step over the end of the body. Then
`AddBytesExact`: given no more than it asked for, a reader keeps the verdict on
all its bytes. The invariant adds to the properties that messages are ones the
wire can carry (`WireInv`) and that a connection stops receiving once its reader
has come to a verdict (`ReceivingInv`). `AuthorisedOnly` follows from a fact
about the providers and the handler (`Authorised`).

`FastHashProofs` proves the three properties of `fasthash` for every capacity,
width, set of keys and hash function (`TableAssumption`: the sizes are positive,
hashes are numbers). `NodesPartitioned` speaks of what following the pointers
meets, which no step preserves by itself: a pointer that is changed could
redirect any chain that passes through it. The invariant `Inv` therefore says
that *there are* sequences of nodes, one for each bucket and one for the free
list, that the pointers spell out (`Linked`), that share no node (`Apart`) and
leave none out (`Covers`), and whose nodes hold an entry of that bucket, or none
in the free list (`Filled`). That `Chain` computes these very sequences is
`HeapChain`. `Insert` and `Remove` are then one operation, moving the i-th node
of a chain to the front of another (`IsMoved`), and one lemma, `HeapMoved`, says
that the assignments of either carry it out. `Counted` ties the size to the
nodes in use, and a valid index is a `Ring`: the slots from `indexStart` on, modulo
the capacity, hold that many different entries, hence all of them (`RingOnto`).
For the refinement, `Among` is followed through the move: a node put in front
comes first among its key's nodes and leaves those of other keys as they were
(`AmongPush`), the one `Find` stops at was the first (`AmongDropFirst`), and its
leaving changes no other key's nodes (`AmongDropOther`). That an insertion finds
room in the abstract map is a count: its entries have nodes of their own
(`EntriesBound`), and one node is free.

`BoundedInduction` has the little induction over numbers that the loops of the
reader and the chains of the table need, in a form without operator parameters:
induction up to a bound over a set (`UpTo`), and that a function defined step by
step exists (`StepFunction`).

Only model-checked: all liveness properties, `RendezvousConnects` among them, as
fairness is outside the prover's reach; and the two violated runs, which are
counterexamples. Every safety property of the passing runs, invariants, action
properties and refinements, has a theorem.

## 5. Plan

Done: all modules of section 2, and a theorem for every safety property of the
passing runs.

Left: of what the runs check, nothing that the provers reach. The parts worth
modelling next are those of section 6 that carry logic of their own, the message
builder first.

## 6. Not modelled

* Byte-level encoding (`stunbuilder`, `datastream`, `buffer`), the differences of
  the legacy (RFC 3489) format, the fingerprint checksum and the reader's address
  getters: sequential conversions without state of their own.
* Socket, adapter and address wrappers, host name resolution, option parsing,
  logging, reference counting, the unused share list and the Android build: pure
  I/O, or sequential code with nothing to interleave.
* `fasthash.cpp` (hash functions and the choice of a prime width): parameters of
  `FastHash`.
* Failing file I/O in the transfer and memory exhaustion in the servers. `Init` of
  the TCP thread refuses 100000 connections (`tcpserver.cpp:244`), which the
  documentation allows: a boundary for a unit test.
* `boost/` is vendored. It is about nine tenths of the repository's C++ lines, so
  the map's share of all lines is small; of the program's own lines, some eight
  to nine thousand, the map covers the parts that have state or make decisions.
