# Verification of ZRH_RtspServer

TLA+ models of the RTSP server in this repository, the TLC runs that check them, and
theorems proved with TLAPS. Paths such as `RtspServer.cpp:116` are to the files under
`src/src` and `src/include`.

Contents: [the system](#the-system), [the modules](#the-modules),
[how the models relate to the code](#how-the-models-relate-to-the-code),
[the runs](#the-runs), [fairness](#fairness), [what the runs disagree with](#findings),
[the proofs](#the-proofs), [what is only model-checked](#what-is-only-model-checked),
[what is not modelled](#what-is-not-modelled), [the plan](#the-plan).

## The system

`main.cpp` builds one media session, "test", with two tracks (an H.264 and an AAC file),
a pool of four threads and one event loop, and never comes back from the loop. Two kinds
of threads run: the **loop thread**, which does everything to do with sockets, timers and
requests, and the **pool threads**, which only fetch frames from the files. What makes the
system hard is (1) edge-triggered epoll with one `accept` or `recv` per event, (2) raw
pointers between events, connections and tracks whose targets are destroyed in the middle
of a session, (3) the batch of events of one `epoll_wait`, handled after the world has
changed, (4) frames fetched by four threads at once, and (5) `struct epoll_event`,
`is_tcp_` and others that are used uninitialised.

| Component | State | Operations | Talks to | What makes it correct |
|---|---|---|---|---|
| RtspServer | `fd2conn_`, `disconnect_list_`, the close trigger | `handleRead` (accept), `handleDisConnect`, `handleCloseConnect` | Scheduler (events), RtspConnection (owns, callbacks) | each connection disconnected at most once and then destroyed; who owns a descriptor is never in doubt |
| RtspConnection | `rbuf_`, `session_name_`, `rtp_conns_`, `is_tcp_` | `handleRtspRequest`, six handlers, destructor | MediaSession (adds and removes pointers), RtspServer (callbacks) | every request is read; nothing of it is left on a track when it is destroyed |
| RtpConnection | `is_tcp`, alive, sockets | construction (TCP, UDP), `SetAlive`, `SendFrame` | sockets, MediaSession | sends only while it exists and is alive |
| MediaSession, MediaSessionManager | a list of RtpConnection pointers per track | `AddRtpConnection`, `RemoveRtpConnection`, `handleSessionSend`, lookup | Sink (callback), RtpConnection | a track's list holds exactly the living RtpConnections set up for it |
| EpollPoller | `fd2event_`, `fd2timer_`, `events_` | `AddIOEvent`, `RemoveIOEvent`, `Poll` | kernel, event objects | an event reaches the owner it was for; none is forgotten |
| Scheduler, TimerManager | trigger queue under `latch_` | `loop`, `AddTriggerEvent`, `StartTimer` | EpollPoller | triggers run before the next `epoll_wait` |
| Event objects | callbacks and a pointer to their owner | `handleEvent` | their owner | (as EpollPoller) |
| H264MediaSource, AACMediaSource | `frames_` under `mutex_`/`cv_` | constructor, `ReadFrame`, `CacheFrame`, its task, `GetFrameFromFile` | ThreadPool, RingBuffer, Sink | one reader of a file; frames in order, none lost; `ReadFrame` comes back |
| ThreadPool | `tasks_`, `stop_` under `queue_mutex_`/`condition_` | constructor, worker loop, `enqueue`, destructor | its users | each task runs once; no lost wakeup; the destructor waits for every task and returns |
| Sinks | packet buffer, sequence number, timestamp | `handleTimeout`, packetizers | source, MediaSession | packets reassemble to the frame |
| RingBuffer | two arrays, file, iterator | iterator arithmetic, refill | sources | the bytes of the file in order |
| SocketHelper | none | wrappers of system calls | kernel | |
| main | none | start-up | all | |

The hazards of this code, each at its line with the properties that watch it, are listed
in `PROJECT.json`.

## The modules

| Module | Models | Code it stands beside |
|---|---|---|
| `Kernel` | external: clients, TCP, descriptors, epoll's interest and ready lists | what the calls in the code rely on |
| `EpollPoller` (EXTENDS Kernel) | `AddIOEvent`, `RemoveIOEvent`, the `epoll_wait` and the growth of `events_` | `Poller.cpp` |
| `MediaSession` (EXTENDS Kernel) | the pointer lists of the two tracks | `MediaSession.cpp` |
| `RtspConnection` (EXTENDS both) | the handlers, `RtpConnection`, `handleDisConnect`, the destructor | `RtspConnection.cpp`, `Rtp.cpp` |
| `RtspServer` (EXTENDS RtspConnection) | the whole loop thread: composition, specification, properties | `RtspServer.cpp`, `Scheduler.h`, `Poller.cpp` |
| `ConnLifecycle` | abstract: what the server promises about connections; RtspServer implements it | |
| `FrameCache` | prefetching: sources, pool threads and `ReadFrame` | `H264MediaSource.cpp`, `AACMediaSource.cpp`, `Sink.h` |
| `ThreadPool` | the pool with its mutex and condition variable | `ThreadPool.h`, `ThreadPool.cpp` |
| `TaskPool` | abstract: what a pool promises; ThreadPool implements it | |
| `RingBuffer` | two arrays filled in turn with the chunks of a file, and iterators over them | `RingBuffer.cpp`, `RingBuffer.h` |
| `MediaSource` (EXTENDS RingBuffer) | what the two kinds of source share: the ring buffer and what `GetFrameFromFile` returned | `MediaSource.h` |
| `H264Source`, `AACSource` (EXTEND MediaSource) | their `GetFrameFromFile`: the scan for start codes, and the chain of ADTS headers | `H264MediaSource.cpp`, `AACMediaSource.cpp` |
| `Sink` | sequence number, timestamp, the packet buffer with what lies in it | `Sink.h` |
| `H264Sink`, `AACSink` (EXTEND Sink) | a frame as one RTP packet or as fragments; a frame behind its AU header | `H264MediaSink.h`, `AACMediaSink.h` |
| `MediaPath` (EXTENDS all of these) | a file of either kind on its way to a client, with lost packets; the client is external | `Sink.h` |
| `RequestBuffer` | the bytes of a connection: `recv`, the growing `rbuf_`, the parser, an answer | `RtspConnection.cpp` |
| `RequestDialogue` | abstract: what answers a client may get; RequestBuffer implements it | |
| `MCRtspServer`, `MCFrameCache`, `MCMediaPath`, `MCRequestBuffer` | request scripts and files for TLC | |
| `RtspServerProofs`, `RtspRequestProofs`, `RtspPlayProofs` (each EXTENDS the one before) | theorems about the loop thread: the loop and its connections, requests, players | |
| `FrameCacheProofs`, `ThreadPoolProofs`, `RequestBufferProofs`, `MediaPathProofs` | theorems about the module each is named for | |
| `MediaFileProofs` (EXTENDS `MediaPathProofs`) | theorems about what the sources return of a file | |

`FrameCache` uses the pool as `TaskPool` describes it: a queue, from which an idle thread
takes the oldest task. That the pool's own mutex and condition variable amount to this is
what `ThreadPool` is checked and proved for. In the same way `RtspServer` takes a request to be
read whole, with Transport lines of others beside it, and `RequestBuffer` has what this
stands for: how the bytes come in, and which of them the parser sees.

## How the models relate to the code

**RtspServer.** `pc` is where `Scheduler::loop` is: running triggers, about to wait, going
through the events of a batch, or blocked in the second `read` of `handleRtspRequest`.

| Action | Code |
|---|---|
| `HandleCloseConnect` | the close trigger: assert, `~RtspConnection` of each listed connection, clear |
| `NoTriggerLeft`, `Wait`, `Turn` | trigger queue empty; `epoll_wait` and the doubling of `events_`; end of the batch |
| `HandleRead` | accept, `RtspConnection::RtspConnection`, `AddIOEvent`, `fd2conn_` |
| `ReadCallback` | `handleRtspRequest`: one `recv`, then a handler or the disconnect callback |
| `ReadMore` | its `read` after a `recv` that filled the buffer (`RtspConnection.cpp:328`) |
| `HandleTimeout` | the timer branch of `Poll`, `handleTimeout` of the sink, `handleSessionSend` with the `send` to each receiver |
| `Connect`, `Send`, `Shut`, `Abort`, `Drain`, `Expire` | clients and timers, at any moment |

Abstractions, all of data: a request is a record of the fields the handlers read (method,
session name, track, transport); a pointer to an RtpConnection is the pair of its client
and its index in `rtp_conns_`; a track's list is a set; the mask of an uninitialised
`epoll_event` is one of four kinds; the entry under -1 that a failed `accept` leaves in
`fd2conn_` is left out, since nothing reads it. The order in which a batch is handled is
free in the model: epoll's order is not the code's choice. Sockets are blocking: packets may
fill the buffer of a client that has stopped reading (`full`), and a step that writes to it,
packet or reply, cannot be made until the client reads (`Drain`) or resets; since the loop
has no other way to come to the end of its batch, everything waits with it. A handler that waits in its `Write` is
one step that is made late, rather than two. `disconnect_list_` is worked off in one step: nothing runs between two of
its destructors but kernel events, which only add descriptors to `ready` and commute.
Undefined behaviour is kept as such: `process` becomes `"segv"` for the null session of a
DESCRIBE, `"undefined"` for a packet through a dangling pointer; the read of
`rtp_conns_[1]` with one element may name any pointer; `is_tcp_` before any Transport line
is either. Checks that follow such a state are not made: the process has ended
(`Ended`).

**FrameCache.** Each step is the code between two points where threads meet: the mutex
of a source, its condition variable, the queue of the pool. `loop` is the main thread in
constructors (`Prime`), then in `handleTimeout` and `ReadFrame`; `worker` is each pool thread. A frame is its
number in the file. `Cache` ends with the unlock and `Notify` is a step of its own, as in the code, where the
lock's scope ends before `notify_all`. That a spurious wakeup (`WakeSpuriously`) may
happen at any time is part of the model.

**RingBuffer** has no variables: a ring buffer is a record (`ring` in `H264Source`), and an
operation that reads the file returns the new record beside its result. This is what makes
the look-aheads visible: `*(it + 2)` is `Advance` followed by `ByteAt`, and `Advance` reads a
chunk when it passes the end of an array. `Compare` evaluates `&&` from left to right and
stops at the first difference, because how many looks are made decides how many chunks are
read. `Differ` and `Same` are `operator!=` and `operator==` as they are written, and are not
each other's negation. A byte is a number, and only 0 and 1 are told apart by the code.

**H264Source.** A call of `GetFrameFromFile` is `Call` (to the loop), a `Scan` per turn of the
loop and `Return`; calls exclude each other (`FrameCache!OneReader`). **AACSource**: a call is one
step. `Sync` and `Lengths` are what `parseAdtsHeader` reads of a header; the 7 bytes of a header
are two cells, the sync word and the length. A frame is copied through a raw pointer: past the end of the array
it gets `Beyond`, the bytes that happen to lie there (`Through`). **H264Sink**: `SendFrame`
is `sendFrame` with all its packets; the bits of the FU bytes are the fields `start` and `end`,
and `Stray` is the byte from behind the frame that the last fragment ends with. **AACSink**: one
packet, `AuHeader` cells longer than the frame. **MediaPath**
sends each frame as soon as it was taken: that frames are sent in the order in which they
were taken is `FrameCache!InOrder`. The client follows RFC 6184 and RFC 3640. The packets of a
frame arrive one by one (`Arrive`), in order, and each is received (`Receive`; `Join` for
a fragment, `Complete` for the frame it ends) or lost (`Lose`); all have arrived before
the next frame is taken or sent, since what is in flight changes nothing at the server.

**RequestBuffer.** `Recv`, `ReadMore` and `Handle` are the three parts of `handleRtspRequest`;
between them the network may deliver more. The stream is a sequence of cells, each some bytes of
a line (the method, the rest of the request line, the name of a header, its value, a line without
meaning to the parser), and a segment may end behind any of them. A value carries the number of
the request it came with, which is how a header that is not the request's own is seen.
`Terminated` is `rbuf_[n] = 0`. It ends one line for the parser (`c_str()`), not the stream that the
parser reads lines from, which is all of `rbuf_`: what was read long ago is parsed again, but for
the one line with the 0 in it. Two variables are there for the properties only:
`missed` (what was read where the parser does not look for a request) and `far` (how far headers ever reached).

**ThreadPool.** The same grain: `OwnerLock`/`Push`/`NotifyOne` are `enqueue`,
`OwnerLock`/`Stop`/`NotifyAll`/`Join` the destructor, `Lock`/`Test`/`Run` the loop of a
worker, `wait` giving up the mutex within `Test`. One thread enqueues: no task of this
program enqueues another, and all calls come from the main thread.

## The runs

All bounds are CONSTANTS, but for one state constraint (`FewAtOnce`, run `odd`). `Clients`: each connects once, so
two clients give every pair of interactions and, since descriptors are freed and taken
again, reuse of a descriptor. `Fds`: two, so that two clients, or one client with UDP
sockets, exhaust the table. `MaxUnread` bounds requests in flight. `Ticking` bounds the
timers that run, `Slow` the clients that may stop reading. `Scripts` are the sequences a client may send.

| Run | Question | Bounds |
|---|---|---|
| `odd` | No connection twice on the list, the trigger queued when it must be, events only to their owner, no descriptor lost, whatever clients send and whenever they close | 2 clients, 2 descriptors, 4 short scripts that reach every branch of every handler but PLAY, all four masks, the blocking `read`, no timer (`play` has one), `events_` of one element at first; a second client only while no mask has a stray EPOLLONESHOT or was refused and the loop is not in that `read` (`FewAtOnce`) |
| `play` | Normal playing: pointers on the tracks are exactly of the living, every request is read, every closed connection destroyed; the server implements `ConnLifecycle` (safety and liveness) | 2 clients, which set up track 0 then 1, or nothing; patient (below); one of them may stop reading |
| `frames` | One reader per file, order, one task per frame taken, `ReadFrame` returns | 2 sources of 5 and 2 frames, cache of 3 (8 in the code), 3 workers (4): a file longer than the cache and one shorter, and more workers than sources |
| `pool` | No lost wakeup; implements `TaskPool` (safety and liveness) | 3 workers, 4 tasks: more tasks than workers and more workers than tasks both occur |
| `requests` | What is parsed is what was read; answers go to requests that were asked, once, in order, with their own headers; what is dropped, and nothing else, stays unanswered; implements `RequestDialogue` | 3 scripts of two requests, both of which may be on their way at once, and one RTCP packet among them; segments cut anywhere; `rbuf_` of 5 cells (1024 bytes) at first, which one request fills exactly and the others make grow, twice when two arrive together |
| `media` | Files are cut into their frames, and the scan for the next one comes to its end; the packets of a frame, some of them lost, reassemble to it or to nothing; timestamps tell pictures apart; no frame is made up; packets fit their buffer | chunks of 12 bytes (1 MB), packets of 3 (1400), sequence numbers modulo 4 (2^16), up to 8 frames; films of 1 to 4 NAL units of 2 to 7 bytes with either start code, recordings of ADTS frames that fill one to three chunks, with frames over the end of a chunk; up to 3 packets lost, one fewer than the modulus: with 4 the numbers come around, and a client without another sign of loss joins what does not belong together |
| `accept`, `order`, `one_setup`, `sigpipe`, `end_of_file`, `chunk` | one finding each (below) | smallest instance that shows it |

The numbers of `media` keep the proportions that matter: a frame takes one, two or three
packets, with and without a remainder; a file takes one to three chunks, so that the frames
and their first bytes lie in both arrays and each array is filled again; sequence numbers
wrap around. Its films (`ClearMovies`) are the 718 of 11,110 short ones that satisfy `Film`: no full
chunk ends with a zero (`chunk` shows what the code does with one there), each start code lies in
one chunk and not at its end, and a unit with its code is no longer than a chunk, as 1 MB demands
of the code; nothing in a unit looks like a start code, and none ends in a zero, which is so of every
H.264 unit. That each NAL unit but a parameter set is a picture is what the code assumes.
The 80 recordings satisfy `Recording`: up to 7 frames, with no header over or at the end of a
chunk, since there `parseAdtsHeader` reads a chunk it should not, as in `chunk`. Frames over the end of
a chunk are in them, as in `data/jay.aac`, where it happens twice. `Film` and `Recording` are also the
hypotheses of the theorems about files.

`odd` uses symmetry of clients and descriptors (no liveness is checked
there, no script names a client, and the constraint names none). In `play` and the runs of findings there is none.

Properties, by what they guard:

- `DisconnectedOnce` (the assert of `handleCloseConnect`), `TriggerWhenListed` (the comment
  "only needs adding once"), `BatchOwned` (no event to a newcomer or to `fd2timer_.end()`),
  `DescriptorsAccounted` (kernel, `fd2conn_` and `fd2event_` agree).
- `NoDanglingRtp`, `StaysRegistered` (an action property): the two directions in which the
  pointer lists of the tracks can go wrong. They hold for clients that set up both tracks in
  order, or none, and for no others; the runs `order` and `one_setup` show why.
- `RequestsRead`, `Reaped`, `ImplementsLifecycle`: liveness and refinement of the loop.
- `OneReader`, `InOrder`, `Replaced`, `FramePlayed`: the frame cache.
- `NoLostWakeup`, `ImplementsTaskPool`: the pool.
- `Received`, `NoDataForgotten`, `OwnHeaders`, `ImplementsDialogue`, `Answered`: the request
  buffer. `OwnHeaders` has a condition, because the code has: the 0 behind the request keeps out
  one line of what was read before, and a longer request whose header starts further on leaves
  it for the next. `Answered` lists what stays without an answer: a request that is not the first in
  `rbuf_` or came without its whole first line, and a request that fills `rbuf_` to its last byte, until more comes.
- `FramesOfFile`, `NothingLeft`: the ring buffer and the reading through it, against the list of
  frames the file was made of; an AAC frame over the end of a chunk must have the right length, and its
  beginning right (`AsReturned`: what the raw pointer reads past the array is not the file's). `NothingAdded`: there is no look at the
  end of the file, and after it a source returns frames only where what an earlier chunk left in the array
  goes on with a start code, or a zero that becomes part of one (`StaleStart`). `PacketsFit`: the buffer for a packet.
  `ScanNearsEnd`: the variant of the loop that looks for the next start code, which runs with the source's mutex held.
  `Reassembled`, `PicturesApart`: the packets, against what the client makes of them.

Each property has a mutant in `PROJECT.json`: a wrong variant of one definition (kept
beside it and marked "Wrong variant"), under which TLC finds the property violated.

## Fairness

`RtspServer!FairSpec` is weak fairness of the loop's steps together: the operating system
keeps running the loop thread; and of `Drain`, client by client: whoever stopped reading reads
on some day. Without the second, TLC shows what one client that does not read does to all:
`RequestsRead` and `Reaped` fail. What clients send and when, and timers, are not fair. Two switches limit what
liveness is claimed for, because the code gives no more:

- `Patient = TRUE`: a client closes only after its requests were read. A client that closes
  with a request unread spends its last edge on the request: `recv` returns the request,
  no second `recv` is made, and the 0 that would disconnect it is never seen. `Reaped` is
  false for such clients.
- `MayFill = FALSE`: a `recv` of exactly `buf_size_` bytes is followed by a `read` that
  blocks for as long as the client stays silent, and the loop with it. `MayFill = TRUE` is
  checked for safety in `odd`.

`RequestBuffer!FairSpec` is weak fairness of `handleRtspRequest` and of TCP; the client may
stop at any time.

In `FrameCache` and `ThreadPool` every thread is weakly fair, and timers, spurious
wakeups and the owner's calls are not. Nothing says that a free mutex is granted to
a particular thread as long as another wants it too: weak fairness per thread suffices
for the properties checked.

## Findings

Runs with `expect: violation` show what the repository says of the program and the code
does not do.

- `accept`: two connections that arrive before one `epoll_wait` make one edge, and
  one is accepted; the other waits until a third client connects.
- `order`: SETUP of track 1, then of track 0, then TEARDOWN: the destructor looks for
  each pointer on the wrong track and removes neither; both are freed.
- `one_setup`: with a single SETUP the destructor reads `rtp_conns_[1]`; what lies there
  may be another client's RtpConnection, which is then taken off track 1.
- `sigpipe`: a send after the peer's reset raises SIGPIPE, which ends the process; the code
  logs the failed send and means to go on.
- `chunk`: each look-ahead over the end of a chunk reads the next chunk of the file again, into
  the same array. One zero in the last byte of a chunk is enough: the two looks at the byte
  after it, and the `++it` that follows, read three chunks, of which two are lost. A start
  code there is worse: the next call looks for it with the wrong chunk behind it, does
  not find it, and the stream stands still (`NothingLeft` would fail).
- `end_of_file`: past the last frame nothing is cached and `ReadFrame` waits for ever, on the
  thread of the event loop.

## The proofs

All theorems hold for every value of the constants that satisfies the named assumptions
(`KernelAssumption`, `PollerAssumption`, `SessionAssumption`, `ServerAssumption`,
`CacheAssumption`, `PoolAssumption`, `BufferAssumption`, `RingAssumption`, `SinkAssumption`,
`AACSinkAssumption`, `BeyondAssumption`, `FileAssumption`, `PathAssumption`), which TLC evaluates in the runs: any number of
clients, descriptors, workers, sources, frames and tasks, any scripts, any files.

Some theorems need more, and say so in an ASSUME of their own. The code does not enforce these
conditions; each is true of an instance that TLC checks:

| Hypothesis | Says | Needed for | True in | Without it |
|---|---|---|---|---|
| `OrderlyPlayers` | a client waits for the answer to a request before it sends the next, none of which fills `rbuf_` to the last byte; its OPTIONS name the session there is and its SETUPs no track there is not; it sets up each track at most once, and track 1 only after track 0 | `NoDanglingRtpHolds` | `play` (`PlayAssumption`) | run `order` |
| `WholePlayers` | in addition, it closes only after its requests were read, its script ends and every TEARDOWN comes with both tracks set up or none, and no uninitialised mask asks for EPOLLOUT, which reports a connection with nothing to read | `StaysRegisteredHolds` | `play` (`PlayAssumption`) | run `one_setup` |
| `OneLine`, `WellFormed` of every request | one request line; a CSeq, and a value behind every header | `RefinesDialogue`, `OwnHeadersHolds` | `requests` (`RequestAssumption`) | a second request line in one request may be answered as well; a header without its value takes the next cell |
| `MaxLost < SeqMod` | fewer packets are lost than there are sequence numbers | `ReassembledHolds`, `PicturesApartHolds`, `FilmTypesHold`, `RecordingTypesHold`, `UnitsArrive` | `media` (`LossAssumption`) | `Reassembled` fails with `MaxLost = SeqMod` |
| `Capacity > 3` | a chunk is longer than the start code looked for in it | `FilmTypesHold`, `ScanNearsEndHolds`, all of MediaFileProofs | `media` (`LossAssumption`) | the code's 1 MB satisfies it |
| `Film` or `Recording` of every movie | the units of a file lie in the chunks as described under [The runs](#the-runs) | all of MediaFileProofs | `media`, by the definition of its files | run `chunk`, where one full chunk ends with a zero |
| `AuHeader + Len(m[i].bytes) <= Room` | an AAC frame and its AU header fit the buffer for a packet | `RecordingsFitHolds` | `media` (`AdtsFrames`) | `AACMediaSink::sendFrame` copies a frame of any length into a buffer of 1400 bytes |

**RtspServerProofs** proves `DisconnectedOnce`, `TriggerWhenListed` and `BatchOwned`.
None of them is inductive. A handler may list its connection only because no listed
connection has an event left in the batch; this holds because a batch is fetched only when
the list is empty; an event has an owner because epoll watches only what `fd2conn_` holds;
and a newcomer cannot take the descriptor of an event in the batch because a watched
descriptor is in use. `LoopInv` says this in four parts: `LoopTypes`, `Watched`, `ListInv`,
`PhaseInv`. There is a lemma per group of actions; `RequestEffect` says once what a handler
may do to the variables of the invariant.

Its second half proves `DescriptorsAccounted` and that every step of the server is a
step of `ConnLifecycle` or none of it (`RefinesLifecycle`). `LoopInv` knows what a
descriptor is used for and not which clients are where; `OnceInv` adds that a client that has connected is
in one place only, in the backlog or on one descriptor. `StepEffect` says what a step may do to the four
things the abstract state is made of; `GoneSteps` and `ListedSteps` which abstract step that is.

**RtspRequestProofs** proves `TypeOK` of RtspServer through all six handlers. The types alone
are not inductive: a handler reads the request at the place `taken` of the script, so `ReadSent` has to say
that no more was taken than was sent, also while the loop is between `recv` and the `read` after it.

**RtspPlayProofs** proves the two directions in which the pointer lists can go wrong, for
players (see the table). `PlayInv` ties what is on a track to what `rtp_conns_` holds and to what the client has asked
so far: a pointer on track t is at the index at which `~RtspConnection` looks for it, and
`rtp_conns_` has as many elements as tracks were set up. `StayInv` adds that a connection on
its way out has not exactly one, so that the destructor reads no element that is not there.

**FrameCacheProofs** proves `TypeOK`, `OneReader` (by `ReaderLocks`: whoever reads a file
holds the mutex of its source) and `InOrder` (because only a reader moves the position, and
appends under the same mutex; `NumberedTail` and `NumberedAppend` are what happens to a
queue of consecutive numbers), and `Replaced`. For this the frames a source has outstanding are
kept as an account (`Account`): to be primed, queued, being fetched, cached, and in the
hand of `ReadFrame`. A step moves one from one place of the account to the next; only a reader that finds the
end of the file drops one. `CountAppend`, `CountTail` and `FetchingTurns` are what the steps do to the two that are cardinalities.

**ThreadPoolProofs** proves `NoLostWakeup` and that every behaviour of the pool is one of
`TaskPool!Safety`. The invariant is `MutexInv` (who holds the mutex is in a critical
section), `StopInv` (a worker returns only after `stop_`, with an empty queue) and
`QueueInv` (the queue is the interval of numbers not taken, and what runs was taken
before). `NoLostWakeup` is preserved since a worker goes to sleep only on an empty
queue, and a task is in the queue only after a push whose notification is still to come or
was spent on a waiting worker, if there was one.

**RequestBufferProofs** proves `Received` and `NoDataForgotten` for every script, every size of
`rbuf_` and every way to cut the stream. `NoDataForgotten` speaks of the time between two calls
and needs `Emptied`, which speaks of the time during one: data is left in the socket only if the
last read filled `rbuf_`, in which case the loop reads again, or if it came after that read, with
an edge of its own. `ConcatStarts` is why a doubled buffer still starts with what was read.
`TypeOK` follows with what the parser keeps (`ParsedInv`); its core is that the parser finds a last header line where there is one.
`RefinesDialogue` is the whole of `ImplementsDialogue`: requests come out of the socket in the order in which they
were asked, a call answers only the one it has read first, and so what is still to be read is later than
every answer (`OrderInv`). `OwnHeaders` needs `FarInv`, that no header lies in `rbuf_` behind `far`: a request whose
CSeq reaches as far is behind everything that calls before it left (`AloneSeen`).

**MediaPathProofs** proves what the sinks do to a frame, for every file, packet size and
modulus: `Reassembled`, `PicturesApart`, and for H.264 files `PacketsFit` and `TypeOK`. `SourceInv` says that
what a source returns are bytes, and not none. `SentInv` says what is on its way: consecutive numbers (`Numbered`), and one whole frame or its n
fragments, of which fragment i has the bytes from `UptoOf(i - 1)` to `UptoOf(i)`, the first the start bit and the last the
end bit (`FragmentsOf`, by the remainder of the length). The client keeps a frame it has not all of
across any number of losses; `PartialInv` says why nothing wrong comes of it: if d packets were
lost since, the number it expects is d short of that of the next packet, and for 0 < d < SeqMod the two differ
(`NotAround`). `LosslessInv` is the case of no loss, `SentTimes` and `TimeInv` that timestamps stand still at parameter sets only,
and `InsideInv` that no iterator over an H.264 file stands behind the end of an array.
`ScanNearsEnd`, an action property, follows with `ScanInv` (the last chunk ends inside an array; nothing else
moves while a call scans) from what look-aheads may do to the ring buffer: all those from one place read into the array
it is not in (`ReadInto`), so `end()`, once it is known, lies before the iterator, not behind (`NextTurn`). This is so
however many chunks the looks skip: the run `chunk` shows that the frames are wrong then, the theorem that the loop still comes back.
An ADTS header may say any length, also one that leads behind the array or exceeds the buffer for
a packet: for audio, `TypeOK` and `PacketsFit` need to know the file, and follow in MediaFileProofs.

**MediaFileProofs** proves `FramesOfFile`, `NothingLeft` and `NothingAdded`, for files of any
number of units and chunks, and for audio `PacketsFit` and `TypeOK`. The argument has four parts.
(1) *What the bytes of a file are.* `FileOf` is a fold; that unit i lies at `StartOf(m, i)`, code and bytes, is
shown by induction over the units (`SetInduction`: the library's theorems take an operator, but
the least element of a set of numbers that is missing from another needs none).
(2) *What the arrays hold.* `Window` says which two chunks of the file they are after any number of reads, which of
them is the newer, and where `end()` is. `StepInside` and `StepAcross` are what `Advance` does to it.
(3) *What a look sees.* A place of the window has the byte of the file (`Spot`). The look for a start
code makes its second look only behind a zero, its third behind two; since a full chunk does not end with
a zero, none of them passes the end of the newer chunk, and so none reads (`Scans`).
(4) *`ReadingInv`*, which TLC has checked on the files of `media`: between two calls `begin()` is at the next unit, which
starts in the newer chunk; within a call the iterator is inside that unit, and at most one chunk was read since,
not into the array that has the start of the unit, because a unit is no longer than a chunk. `CallStep`, `ScanStep`,
`ReturnStep` and `AudioStep` preserve it. They rest on `ReturnsUnit` (a call that comes to the next start code, or
to the end of the file, returns the unit) and `GoesOn` (a turn of the loop elsewhere only moves the iterator).
Behind the last unit the arrays still have what was read before; when that looks like the start of a unit
(`StaleStart`), the code takes it for one, and nothing is claimed of what it returns.
`UnitsArrive` puts this together with what the sinks and the client do: a client that loses no packet has
the units of the file, and one that loses some has, short of `StaleStart`, no other frames. It is the one theorem about the whole way from the file to the client.

## What is only model-checked

- Liveness: `RequestsRead`, `Reaped`, `FramePlayed`, `Answered`, and the liveness parts of
  `ImplementsLifecycle` and `ImplementsTaskPool`. Temporal reasoning under fairness is beyond the
  installed provers.
- `PacketsFit` and `TypeOK` of MediaPath for audio files once something stale was taken for a header
  (`StaleStart`): what its length field says is then whatever lies there. In the files of `media` it does
  no harm.

## What is not modelled

- A file that cannot be opened; frames longer than a chunk, which overwrite their beginning.
- The garbage in `local_rtcp_port_`; that a `bind` to it may fail, and exit, is modelled.
- The pace of the tracks. The timer of a track stands still while the loop is held up, and the
  expirations it missed are read and dropped (`Poller.cpp:154`). The AAC source asks for 96 frames
  a second, a timer of 10 ms; its frames are 21 ms long, by the 1024 / 48000 s that the sink
  advances the timestamp and the header of `data/jay.aac`, so audio leaves at twice its speed. No
  document promises a pace, and both numbers are constants.
- How many bytes of a packet a client with a full buffer has already got: `send` returns when all
  are in the buffer.
- `UpdateIOEvent`, `RemoveTimerEvent`, `StopTimer`: called by nothing that runs.
- SDP and reply texts, byte order, logging; the tests and the build, which assert nothing.

## The plan

1. Done: the event loop and its connections; clients that stop reading; prefetching; the pool; the
   way of a video or audio file through ring buffer, source, sink and packets; the request buffer.
2. Done: theorems for every safety property and every refinement the runs check.
3. Left: `FrameCache` and the loop composed, so that `end_of_file` is seen by the clients.
4. Left: a ring buffer as it was meant to be as an abstract specification. What it would say, a
   window on the file, is `Window` in MediaFileProofs; the sources keep to it on the files of
   `Film` and `Recording`.
