# Verification of IMServer

TLA+ models of IMServer, a chat server built on a vendored copy of the muduo
network library, with the TLC runs that check them and the TLAPS proofs of what
matters most. Paths below are relative to `src/IMServer/src/`.

## 1. The system

| Component | State it keeps | Operations | Talks to |
|---|---|---|---|
| `main.cpp`, `MysqlBusiness`, `MysqlTool` | connection handle, the table descriptions | connect, check and create database and tables, query and execute with one retry | MySQL, `UserManager` |
| `UserManager` | `_cachedUsers` (a list), `_currentUserId` | `init`, `getUserInfoFromCached`, `getUserInfoFromDB`, `addUser` | `MysqlManager` |
| `IMServer` | `_mapClientSession` | `OnConnection`, `OnClose`, called back by muduo | `TcpServer`, `ClientSession` |
| `ClientSession`, `BinaryReader`, `BinaryWriter` | session id, `_seq`; a reader or writer per packet | `onRead` cuts packets, `process` dispatches, the handlers answer | `TcpConnection`, `UserManager` |
| `muduo/net/EventLoop` | `quit_`, `pendingFunctors_`, the eventfd, `callingPendingFunctors_` | `loop`, `queueInLoop`, `quit`, `wakeup`, `doPendingFunctors` | every other muduo class |
| `muduo/net/TcpServer`, `TcpConnection`, `Channel`, `Acceptor` | `connections_`; per connection state, channel events, output buffer | accept, read, write, `send`, `shutdown`, `forceClose`, close, destroy | `EventLoop`, the poller, user callbacks |
| `muduo/net/Buffer` | a vector, reader and writer index | append, retrieve, prepend, unwrite, shrink, `readFd` | `TcpConnection` |
| `muduo/net/TimerQueue` | `timers_`, `activeTimers_`, `cancelingTimers_`, the timerfd | `addTimer`, `cancel`, `handleRead`, `reset` | `EventLoop` |
| `muduo/net/Poller` (epoll, poll), `Channel` | `channels_`, `pollfds_`, the kernel's interest set, `index_` | update, remove, poll, dispatch | `EventLoop` |
| `muduo/net/EventLoopThread(Pool)`, `base/Thread`, `CountDownLatch` | `loop_`, `loops_`, `next_`, `tid_` | start, hand out loops, destroy | `EventLoop` |
| `muduo/net/Connector`, `TcpClient` | connector state, retry delay, `connect_`, `connection_` | `connect`, `stop`, `disconnect`, retry, restart | `EventLoop`, `TcpConnection` |
| `muduo/base` queues and `ThreadPool` | a deque, two conditions, `running_` | `put`, `take`, `run`, `stop` | |
| `muduo/base` `AsyncLogging`, `LogFile` | two buffers in front, a vector, two spares; the file | `append`, the logging thread, roll, flush | the disk |
| `muduo/net/http`, `inspect` | parser state per connection | `parseRequest`, `onRequest` | `TcpConnection` |
| `muduo/net/protobuf`, `protorpc` | the input buffer; `outstandings_` | `onMessage`, `CallMethod`, answers | `TcpConnection` |
| `jsoncpp` | a tree of values; the reader's stack of nodes and its errors | operators of `Value`, three writers, `Reader`, iterators, `Path` | `ClientSession` |

One thread runs IMServer: it never calls `setThreadNum`, so `TcpServer`'s pool
is empty and all callbacks run in `main`'s loop. Concurrency is still real there
in three places: other threads may call `queueInLoop` and `quit`;
peers and the kernel act between any two steps of the loop; MySQL may lose a
connection, and the process may be killed, between any two calls. The rest of
the library (loop threads, pools, the log, connections used from other threads)
is concurrent by purpose; HTTP, protobuf and RPC are in the tree and not linked
into the server.

What is hard, by component (PROJECT.json lists each hazard at its line):

* EventLoop: a functor or `quit` arriving between the drain and `poll`, in two
  steps (push, then eventfd write); order and exactly-once across the swap;
  functors that queue functors.
* TcpServer and TcpConnection: a close in the middle of a dispatch, a functor
  that finds the connection in another state than when it was queued, the life
  of a connection against its channel and descriptor, output left at shutdown.
* IMServer: the name of a connection is a key of two maps.
* ClientSession: packets cut anywhere; numbers at the edge of the encoding.
* UserManager: an INSERT that was applied but not confirmed; kills between the
  INSERT and the cache; what a restart loads.
* Startup: a start that fails half way and the next one.
* TcpConnection from other threads: `state_` tested and set without
  synchronisation; functors with a raw `this`; the way of a closed connection
  through the server's loop and back.
* TimerQueue: callbacks that cancel themselves or each other; `TimerId`s whose
  address has a new owner; a timerfd that must never be left disarmed.
* Pollers: three records of one channel (its index, the map, the kernel).
* TcpClient: stop, retry timer, socket and destructor in any order, with raw
  addresses in queued functors.
* Queues and pools: one notify for each item; workers that wait in their own
  tasks; `stop` against sleepers.
* Loop threads: a loop on another thread's stack.
* AsyncLogging: swaps of buffers, bursts, a wait without a loop, partial writes.
* Protocol readers: streams cut and joined anywhere, bad input in the middle.
* jsoncpp: sparse arrays, numbers at the limits, recovery, comments attached
  through a pointer into a growing tree.

## 2. Modules

| Module | Models | Runs |
|---|---|---|
| `Executor` | abstract: a FIFO that runs each functor once | (refined by EventLoop) |
| `EventLoop` | `EventLoop.cc` | `event_loop` |
| `EventLoopProofs` | theorems about EventLoop | |
| `TcpServer`, `MCTcpServer` | `TcpServer.cc`, `TcpConnection.cc`, `Channel.cc`, the loop around them | `tcp_server` |
| `IMServer`, `MCIMServer` | `IMServer.cpp` composed with `TcpServer` | `im_server`, `im_server_abort` |
| `ByteQueue` | abstract: a queue of bytes | (refined by Buffer) |
| `Buffer` | `Buffer.h`, `Buffer.cc` | `buffer` |
| `BufferProofs` | theorems about Buffer | |
| `UserManager`, `MCUserManager` | `UserManager.cpp`, the register and login handlers, `MysqlTool::execute` | `user_manager` |
| `UserManagerProofs` | theorems about UserManager | |
| `Startup`, `MCStartup` | `main`, `MysqlManager::init`, `UserManager::init` | `startup`, `startup_fresh` |
| `Condition` | `muduo::Condition` as operators on a map of control points | (used by the next two) |
| `BlockingQueue` | `BlockingQueue.h`, `BoundedBlockingQueue.h` | `threads` |
| `ThreadPool` | `ThreadPool.cc` | `threads` |
| `EventLoopThreadPool` | `EventLoopThread(Pool).cc`, `Thread.cc`, `CountDownLatch.cc` | `threads` |
| `LogFile`, `AsyncLogging` | `LogFile.cc`, `FileUtil.cc`, `AsyncLogging.cc` | `threads` |
| `TimerQueue` | `TimerQueue.cc`, `Timer.cc` | `net` |
| `TcpClient` | `TcpClient.cc`, `Connector.cc` | `net` |
| `Poller` | `EPollPoller.cc`, `PollPoller.cc`, `Channel.cc` | `net` |
| `TcpConnection` | `TcpConnection.cc` in an I/O loop, called from other threads | `net` |
| `HttpServer` | `http/`, `inspect/Inspector.cc` | `codecs` |
| `ProtobufCodec`, `RpcChannel` | `ProtobufCodecLite.cc`, `RpcChannel.cc`, `RpcServer.cc` | `codecs` |
| `ClientSession` | `onRead`, `process`, `BinaryReader` | `codecs` |
| `BinaryWriter` | `BinaryWriter`, `ClientSession::send`, the answers | `codecs` |
| `JsonValue`, `JsonWriter`, `JsonReader`, `JsonPath` | `jsoncpp/` | `json` |
| `StartupProofs`, `ServerProofs` | theorems about Startup; about TcpServer and IMServer | |
| `ThreadProofs` | theorems about BlockingQueue, ThreadPool, EventLoopThreadPool and AsyncLogging | |
| `NetProofs` | theorems about TimerQueue, TcpConnection, Poller and TcpClient | |
| `CodecProofs` | theorems about ClientSession, BinaryWriter, ProtobufCodec, RpcChannel and HttpServer | |
| `MCThreads`, `MCNet`, `MCCodecs`, `MCJson` | one behaviour runs one of the components; the others stay as constructed | |

The four last modules put components side by side that do not call each other. A
variable (`part`, `proto`, `job`) says which of them a behaviour is about, so the
run checks each for itself and its states add up instead of multiplying. Real
composition is in `IMServer` (with `TcpServer`), in `AsyncLogging` (with
`LogFile`), in `RpcChannel` (over the queue that `ProtobufCodec` shows a
connection to be) and in `JsonReader` (which reads what `JsonWriter` writes).

### How the code is read

* The server does not compile at this commit (`BinaryReader.h:32` assigns a
  `char` to a `char*`, `MysqlBusiness.cpp:66` lacks an operator, `Field.cpp`).
  Each statement is taken as written: the assignment in `readData<T>` changes
  the pointer and not what it points at. UserManager models the handlers from
  their entry, so it does not depend on this.
* The build does not define `NDEBUG`: assertions are live. `TcpServer` has a
  constant `AssertsOn`; only `im_server` switches it off, to see
  what happens beyond the assertion that `im_server_abort` shows failing.
* `runInLoop` called in the loop thread is a direct call, and is modelled so.

### EventLoop

`lpc` is where the loop thread is (`test`, `poll`, `dispatch`, `callback`,
`drain`, `run`, `functor`), `tpc[t]` whether thread `t` is between the push or
the store and its `wakeup()`. Critical sections hold one statement and are one
step. The eventfd is a counter with a limit at which a write fails. `silent`
is a history variable: the loop thread called `queueInLoop` outside `loop()`,
the one case where the code writes no wakeup and the functor waits for the next
event or the poll timeout.

### TcpServer and IMServer

One pass of the loop is `Poll` (a snapshot of the events), one `TakeChannel`
and then `ChannelHup`, `ChannelRead`, `ChannelWrite` in the order of
`handleEventWithGuard`, and the batch of functors. While `lpc = "callback"` the
user may call `send`, `shutdown`, `forceClose`, `startRead` and `stopRead` on any
connection, any number of times. A connection lives while `connections_`, a
queued functor or the running batch refers to it; `BatchDone` runs the
destructors. `CallbackName` is what the connection callback leaves in the
connection's name: nothing changes it for a plain user of TcpServer, the session's
uuid replaces it in IMServer. IMServer joins every step with what `OnConnection`
does in it, since the callback is called inside `newConnection`, `handleClose`
and `connectDestroyed`.

### Buffer, ClientSession, BinaryWriter

Buffer keeps the vector and both indices as in the code. `ByteQueue` has only
the contents. ClientSession keeps bytes that know their packet and their place,
so that a packet read at a wrong offset shows; `Arrive` delivers any number of
bytes. BinaryWriter has one action for each write of a handler and one for each
round of the loop in `compress()`; a shift by 64 bits or more is undefined in
C++ and yields any of `UndefinedBytes`. A byte knows which number it belongs to and
its place in it, so `AnswerLayout` gives the bytes of every answer, of the heartbeat
too: the sequence number stands where the command belongs, because `writeData<T>`
copies to the front (`BinaryWriter.h:16`), and zeros stand where the sequence number
belongs; the length has 8 bytes in a heartbeat and 4 elsewhere, against the 4 that
`ClientSession.cpp:102` announces. `OnlySmallIsSent` says that data of 128 bytes or more
is never sent: `compress()` ends with the memory.

### UserManager

A request is a JSON value that does not parse, is no object, or has the keys the
handlers read; an absent key is JSON null, as in jsoncpp. `Execute` is what
`MysqlTool::execute` may return and may have done: an INSERT whose connection was
lost may have been applied. `addUser` splices the name, password and nickname into the
statement as they came (`UserManager.cpp:71-73`), so a column keeps what MySQL makes
of the text between the quotes: the constant `SqlText` gives the texts a column may
hold for a given one, none when it breaks the statement (a single quote) and another
than the one sent where quotes are doubled. What a text does that reaches out of its
own literal, into other columns, rows or clauses, and the 64 characters at which the
columns cut, are left out. The column `password` gets the nickname
(`UserManager.cpp:73`; `MysqlBusiness.cpp:12` calls it 用户密码): `WrittenFor` says
column by column which row addUser() writes for a user, so that `CacheBacked` has
the cache and the table differ there and nowhere else. `LoginIdentity` states both
ways a login succeeds: a known account with its password, and, because
`getUserInfoFromDB` fills an empty user for a name it does not find, no account
with the empty password, which is answered with success and the id 0 although the
handler has a reply 'user is not exist' (`ClientSession.cpp:229-247`). `RegisterKilled` ends the process inside `addUser`,
`Start` is `UserManager::init` on the same table. `acks` is the history of what
clients were told. `reply` is what a handler decides; its encoding is
BinaryWriter's subject, where answers of 128 bytes and more never leave.

### Startup

`Init` is every state a MySQL server may be in: no database, some of the tables,
with and without rows. Each call works or fails; a failed CREATE TABLE may have
been applied. `Kill` may come between any two calls and `Launch` starts again.
Whether the SQL texts are right is not judged (`default charset=utf-8` would not
be accepted by MySQL), and `createDataBase()` always fails, because the process is
connected to the database it would create.

### BlockingQueue, ThreadPool

A critical section without a wait is one step. A wait is a control point of its
own (`Condition`): a notify moves any one sleeper, `notifyAll` all, and a sleeper
may wake by itself. A capacity of 0 is the unbounded queue. Tasks in `Nested`
call `run` themselves, so that a worker can sleep inside its own task.
`TasksHaveWorkers` and its kin say that a queued item has a thread awake for it,
the condition that a single lost or misdirected notify breaks.

### EventLoopThreadPool

Each thread has its control point from `pthread_create` to the end of
`threadFunc`; the loop is reduced to what its life needs (`quit_`, the eventfd,
the points of `loop()`). The owner starts the threads, hands out loops and
destroys the pool at any later moment. `PoolEnds` excepts the one case in which
the destructor really waits for good: its `quit()` falls between the publication
of the loop and the entry of `loop()`, which clears `quit_`. `dangling` collects
every use of an `EventLoop` that is gone, and `raced` is the history of the one the
comment in `EventLoop.cc:139-141` warns of: `poll` returned for another event
(`PollReturns`), the loop saw `quit_` and was destroyed before the `wakeup()` of that
`quit()`. `HandedOutIsAlive` allows this use, exactly, and one after a callback of
the loop has itself called `quit()`.

### AsyncLogging and LogFile

A buffer is the sequence of its line numbers, an absent one `NoBuffer`, so that
every move of `unique_ptr`s is visible. `TooLong` are lines longer than
the room left. `fwrite`, `fflush` and `fclose` may each fail part of the way: of what
stdio holds the first `out` lines reach the disk and the others are `lost`, unseen by
the code when it was `fflush` or `fclose` (`FileUtil.cc:29`, `:57`). Rolling by size and
by time follow `LogFile::append_unlocked`.

### TimerQueue

Addresses are a small set and are used again, and sequence numbers are not, so
that a stale `TimerId` meets a new timer at its address. Time is a counter; the
timerfd is the moment it expires. `getExpired` copies its entries in the order
of the set, by moment and then by address (`Ordered`). `canceled` is history: cancels
that came while the timer was queued or running, which is all the code can promise.

### TcpClient and Poller

TcpClient has the connector's functors by kind, with the address they hold, and
the sockets with who will close them. A timer may expire in any dispatch, also when
functors that were queued before it was set still wait: a loop that was held up for
its delay behaves so. The destructor tests nothing about the connector, and neither
does `DestroyClient`. `rash` is the history of the two orders the code is not made for: a
connected client is destroyed ("destroyed"), or a timer expires ("overtaken"), while
`channel_` is not yet reset or a functor with the connector's raw address is queued.
`NoClientMisuse` and `ConnectorOutlivesUse` say that nothing else leads to a failing
assertion or a dead connector; a behaviour ends where either happens.

Poller keeps `channels_`, `index_` and `pollfds_` or the kernel's set as they are, both
implementations under one set of owner actions. An owner may enable a channel again
after `remove()`. With epoll that works; `PollPoller::removeChannel` leaves the index
of the removed channel as it was, so that `updateChannel` takes it for a registered one
and `PollPoller.cc:95` fails. `NoPollerFailure` says that an assertion fails exactly then.

### TcpConnection

One connection in a loop of the pool, the server in another, and threads that
hold a pointer. A call is its test of `state_`, its assignment and its queueing,
three steps. Functors of `send`, `shutdown`, `startRead` and `stopRead` hold no
reference; `Released` runs the destructor when map, functors, batch and threads
have let go. `late` records calls that the close overtook: they tested `state_`
before the close and set it after, or change the channel of a connection that is
down. In such a behaviour assertions do fail, and a raw functor queued after the
server let go finds no object; the code marks both ("FIXME: use compare and swap",
"FIXME"). `AssertionsHold` says that nothing else makes them fail. `link` is the way to
the peer: open, full when it does not read (the channel is then not writable), or reset
(the next write fails, and `handleWrite` logs it and leaves the output where it is).
A read of a reset connection that fails is only logged (`handleRead`), and the next one
finds the end of the stream: the model has the second.

### HttpServer, ProtobufCodec, RpcChannel

Streams are sequences of units with CRLF as two bytes, delivered in any pieces.
HTTP follows `parseRequest` state by state, with the request that an earlier one
left in the context; `headers_` is a function from the fields seen so far. Its peer
sends requests line by line, and `lines` remembers which line of which request each
was. The peer of ProtobufCodec sends frames one by one, well
formed or damaged in four ways. RpcChannel has the caller's steps (id, note, send) apart, and a
connection that may go down with calls outstanding. `RpcServer::onConnection` then destroys the
server's channel, while a service may still hold a closure with its address: `orphans`
is the history of the calls whose `doneCallback` ran on a channel that was gone, and
`OrphansAreCutOff` says that these are only calls that the end of the connection cut off.

### JsonValue, JsonWriter, JsonReader, JsonPath

A document is a sequence of lexemes, and how a number or a text is spelled is
treated apart, over characters (`SpelledIsRead`). Integers have the width
`MaxInt = 127`, which keeps every limit and threshold of the code. A double is scaled
down from 53 bits to 13, and `%#.16g` from 16 digits to 4: in both cases the digits are
one short of what tells every double from its neighbours, so that the loss that the
code has is there. `Printed` rounds to the nearest decimal and `Scanned` to the nearest
double, ties to even; numbers that need an exponent are left out. `NulOutside` is the
NUL that `decodeDouble` writes behind its buffer of 32 characters. The reader is a
state machine whose frames are the activations of `readValue`, `readObject`,
`readArray` and `recoverFromError`. `json_internalmap.inl`,
`json_internalarray.inl` and the batch allocator are switched off in this build.

## 3. Runs

| Run | Shows |
|---|---|
| `event_loop` | `NoLostWakeup`, `NoLostQuit`, refinement of `Executor`; `LoopServes` (`QueuedRuns`, `QuitExits`, `IoServed`) without using the poll timeout |
| `tcp_server` | no assertion fails, no use after destruction, `connections_` is the set of connections that are up, `shutdown` drains, a descriptor is not reused while the poller knows the old channel, connections ended by the peer or force closed are destroyed |
| `im_server` | the sessions are exactly those of the connections that are up, a session outlives the callbacks bound to it, `shutdown` drains across partial writes |
| `buffer` | what every write appends, in every state of the indices; refinement of `ByteQueue` |
| `user_manager` | durability, agreement of cache and table, login identity, stability of names |
| `startup` | serves only when complete, gives up only after a failure or without users, mutual friends, terminates |
| `threads` | no lost wakeup in queues and pool, nothing lost or reordered, each task has one fate, `stop` returns; threads know their `tid`, a loop that was handed out is alive, or is used when gone only in the two ways stated, the pool starts and ends; the log keeps its order and its spares with `fwrite`, `fflush` and `fclose` failing anywhere, each round ends with stdio empty, files have distinct names, lines reach the disk, `stop` returns |
| `net` | timers: both sets agree, the timerfd covers the earliest, a cancelled timer stays out, cancel hits only its own timer, none runs early, all run; client: an assertion fails or the connector dies in use only after a rash order, each socket closed once, an attempt or timer pending, stop holds and ends; pollers: no failing system call, an assertion fails exactly when poll() meets a channel enabled after `remove()`, tables agree, interest kept, ready channels handled; connection: assertions, raw functors, order on the wire, no output behind a shut socket, the write-complete callback, `forceClose` takes effect with any peer and `shutdown` with one that keeps reading, a connection that is down is destroyed |
| `codecs` | HTTP replies in order and to what is there, assertions only after a refused line; frames intact and none held back; each call gets its own answer once, a service meets a destroyed channel only after the end of the connection, calls end while it lasts; chat packets intact, none held back, all processed; the bytes of every answer, none sent from 128 bytes on, and each answer that is begun ends as one or the other |
| `json` | sparse arrays behave as dense ones until `resize` meets a hole, the order is strict, conversions keep the number, and where `isConvertibleTo` is wrong; errors and result agree, the reader's pointers stay in the tree, parsing ends; what is written is read back, integers, texts and code points too; a real may change the first time it is written, by at most one in the last digit, and then no more; iterators reach all entries, paths reach what they make, and are read and resolved as documented or not |

A property of a run is often the conjunction of parts that the modules define and
comment on one by one: `LoopServes`, `ConnectionsSound`, `QueueSound`, `TimersSound`,
`NetLive` and so on; the sections above and below speak of the parts. `TypeOK` of
EventLoop, UserManager and Buffer and `MakeSpaceSound` are in no run: TLAPS proves
them for all constants.

Two runs are disagreements between the code and its own text; each expects TLC to
find the violation, and PROJECT.json quotes the line:

* `im_server_abort`: the session renames the connection, so
  `removeConnectionInLoop` does not find it and its assertion fails. Without
  assertions the connection and its descriptor are kept for good.
* `startup_fresh`: a server whose table holds no users never starts.

### Behaviours the models show without a run of their own

Server:
* After an INSERT that was applied but not confirmed the id counter stays behind
  the table, and later registrations fail (`UserManager.cpp:77`, `:106`).
* The unsigned counter of `compress()` passes zero and never ends its loop for
  lengths of 128 and more, although `BinaryWriter.cpp:13` speaks of at most five
  bytes; memory runs out (`OnlySmallIsSent`, `AnswersEnd`).
* Numbers are all copied to the front of the message, so the command of an answer is
  overwritten by its sequence number (`BinaryWriter.h:16`, against the layout in
  `ClientSession.cpp:102-105`), and the heartbeat's length is 8 bytes; the column password receives the nickname
  (`WrittenFor`); the type tests refuse requests of the form that the comments
  document (`TypeError`, `LoginTypeError`); `connect` names the database that
  `createDataBase` would create; `readData<T>` stores nothing (`TakePacket`).

* The cache is in order of arrival before a restart and in descending order of
  `user_id` after it (`UserManager.cpp:94`): of two accounts with one name, a login
  reaches the older before and the newer after. `NameStable` is about one process.

Library:
* `quit()` before `loop()` is forgotten (`EnterLoop`); the destructor of a loop
  thread may then wait for good.
* `cancel` in the loop of a timer that another thread has only queued is lost.
* A second `connect()` fails an assertion. A connected client that is destroyed in
  the iteration of its success, before `channel_` is reset, fails `assert(!channel_)`
  (`Connector.cc:37`), and later functors with the raw address of the connector dangle
  (`TcpClient.cc:84-95` keeps nothing for them). Timers that overtake the functors of
  a loop that was held up do the same, the timer of one second that is to prevent it
  (`TcpClient.cc:99-100`, "FIXME: HACK") among them. `stop()` between the test and the
  restart in `removeConnection` is lost (`StopHolds` excepts exactly that).
* `enableReading()` after `remove()` works with epoll and aborts with poll
  (`PollPoller.cc:95`).
* A peer that stops reading keeps a `shutdown()` waiting for good; `forceClose()` still
  ends the connection.
* A message of `send()` is lost when the same thread's `shutdown()` sets `state_`
  before the functor of `send()` runs and earlier output drains in between.
* A channel whose first update has no events cannot be removed from a
  `PollPoller` (`PollPoller.cc:122`); `disableAll()` twice adds a channel to epoll
  again. No class of the library does either.
* Bytes after a refused HTTP line fail an assertion; a pipelined request waits for
  the next bytes; RPC calls that a closed connection cuts off never complete, and their
  services answer through a channel that was destroyed (`RpcServer.cc:54-57`).

jsoncpp:
* `[1 2 3]` is read as `[1,3]`, `[1 } 2]` and `{"":1,}` are accepted, any token
  after a comment stands for a comma (`json_reader.cpp:570`), `[/*c*/]` is an
  error, `-` is 0.
* `resize` aborts when the last place it leaves is a hole (`json_value.cpp:971`,
  although `value.h:265` has new elements null), and `get` of a hole gives the default
  although the array is longer (`value.h:282`);
  `operator<=` is `>=`; `asInt` of an unsigned `maxInt` throws; a value may be
  convertible to a string and `asString` throws. `ConversionsKeepNumber` says that these
  two are all that `isConvertibleTo` misjudges.
* Sixteen digits do not tell all doubles apart (`json_writer.cpp:75`): a real may be
  another one when it is read back. A real of exactly 32 characters has its NUL
  written behind the buffer (`json_reader.cpp:634`).
* Integers at and below the last threshold come back as reals, texts end at their
  first NUL, the second half of a surrogate pair is not checked, comments in
  single-line arrays are dropped.
* `Path`: `.[%]` leaves the bracket and parameters do not advance (against
  `value.h:481-482`), `resolve` with a default returns the default for valid indices and
  null for others (`json_value.cpp:1678`). `copy()`
  of an iterator keeps `isNull_` (`json_valueiterator.inl:146`).

### Bounds

* EventLoop: two threads, two functors, two channels, a queue of three and an
  eventfd limit of two. Two threads give every overlap of push and write, the
  queue of three a batch with functors behind it, the limit of two a write that
  fails.
* TcpServer: two connections let a callback of one act on the other, and let the
  second take the descriptor of the first as soon as it is free. Output is
  one chunk here and two in `im_server`, where a write can be partial.
* Buffer: a prepend area of two, two initial bytes, chunks up to three, vectors
  up to eight: every case of `makeSpace` and of `readFd` happens.
* ClientSession: three packets with bodies of 0, 1, 3 and 6 bytes: empty, and
  shorter and longer than the length in front.
* BinaryWriter: data of 0, 1, 127, 128, 300 and 16384 bytes, the edges of 7-bit groups.
* UserManager: three ids, one row when installed, two names, a nickname that is
  also asked for as a name.
* Startup: two users, all relations between them, two starts.
* Queues: two producers, two consumers, two puts each, capacities 0, 1 and 2. Two
  sleepers on each side are what a misdirected notify needs.
* ThreadPool: two workers, a client and three tasks of which two submit another;
  queue sizes 0 and 1, so that all workers can be inside `run` at once.
* Loop threads: none, one or two, two `getNextLoop` calls (the wrap).
* Log: buffers of three, six lines of which two are long, drops above three buffers, three
  seconds: bursts, drops, rolls by size and by time, and failing writes all happen.
* Timers: two addresses, two timers, one waiting functor, three moments: enough for
  an address with a new owner and for a timer that repeats.
* Client: three sockets and delays 1 to 3, so that the back-off reaches its limit.
* Pollers: three channels on descriptors 0 and 1 (0 is the edge of the negation)
  and room for one event at first.
* Connection: two threads and two calls in all, messages of two units, high water
  at two. The run has 298,400 states with the
  rest of `net` and keeps to what fits in three minutes. The loss of a message between a `shutdown()` and a
  `send()` of one thread behind earlier output takes three calls, and is the theorem's.
* HTTP: two requests of seven kinds; frames: two, of three payloads and four kinds
  of damage; RPC: three callers, a method that is unknown.
* JSON: two names, three indices; all halves across the range of the
  integers and 68 reals between each two powers of two from 1 to 256, about half of which
  change when written; texts of numbers with 4, 31, 32 and 33 characters; all documents of up to two lexemes, all that the
  writers make of a few hundred values, and two nested ones with each lexeme lost, replaced
  or followed by another.

### Fairness

`LiveSpec` of EventLoop: weak fairness of the loop's own steps (the thread is
scheduled, callbacks and functors return) and of a thread's `wakeup()` once it has
pushed. The poll timeout is not assumed, so nothing waits ten seconds.
`LiveSpec` of TcpServer: the loop's steps only; peers and the user need never act.
Startup: `main` goes on. `MCThreads`: every thread that can run is scheduled,
tasks return, and the timed wait of the logging thread times out; no spurious
wakeup and no poll timeout is relied on, and nobody need submit, append or stop.
`MCNet`: loop threads run, the clock goes on, a call that another thread has begun
goes on; nothing is assumed of the peer, nor of a `forceCloseWithDelay` timer, and that
the peer keeps reading is a condition of `ShutdownEnds` alone. `MCCodecs`: services
answer, TCP delivers what was sent, and a handler that writes an answer goes on. `MCJson`: `parse()` goes on.
`CHECK_DEADLOCK FALSE` stands where the system may stop: a client that sends
no more, a process that has ended.

## 4. Proofs

**EventLoop** (`EventLoopProofs`), for any threads, functors, channels and limits.
`TypeCorrect`: the flags agree with the loop's position. `WakeupNeverLost` and
`QuitNeverLost`: `NoLostWakeup` speaks of `poll` only and is not inductive; the
strengthening `Covered` says that a functor left in `pendingFunctors_` anywhere
outside the stretch from `poll` to the swap has a wakeup there or coming, which
holds because the swap empties the queue, because a functor queued by a functor
writes the eventfd, and because another thread is at `wakeup` after its push.
`EventLoopImplementsExecutor`: each step is a step of `Executor` under
`queue <- functors \o pendingFunctors`, or a stutter. Assumptions: the eventfd
limit is positive; `None` is no functor and the wakeup channel no I/O channel.

**UserManager** (`UserManagerProofs`), for any strings, requests and initial table
with a key. `TypeCorrect`, `AcknowledgedIsDurable`, `CacheAgreesWithTable`,
`AcknowledgedIsFindable`. The inductive invariant adds `Keyed` (`user_id` is a key)
and `AckedCached` (what was acknowledged is cached while the server runs); a
restart needs that the SELECT returns every row.

**Buffer** (`BufferProofs`), for any prepend area, initial size, second buffer and
bounds. `TypeCorrect`, `MakeSpaceNeverFails`, `WritesAreExact` and
`BufferImplementsByteQueue`. The invariant `Valid` adds to `TypeOK` that the vector
is never smaller than the prepend area, since `retrieveAll` puts both indices
there. One lemma per operation says, byte by byte, that it keeps the buffer valid
and what the readable bytes become; `MakeSpaceProperties` carries the argument
that a compaction overwrites nothing and leaves the room that was asked for.

**Startup** (`StartupProofs`). `StartIsSound`: for every state MySQL may be found
in. The invariant carries the tables that were seen or created from one point of
`main` to the next (`TablesThere`), why a call was made (`GaveUp`), and that the
friends loaded so far are those of the users already passed (`FriendsLoaded`);
mutuality at the end follows because every user has then been passed.

**Queues, pool and loop threads** (`ThreadProofs`), for any finite sets of threads
and any capacity. `QueueIsSound` and `PoolIsSound`: the properties count sleepers
and awake threads and are inductive with the types; for the pool also
`TaskPlaces`, which says that a task being submitted is nowhere else. What is
used of cardinalities is what one notify does to a wait set. `LoopsAreSound`: the
invariant ties the owner's point to each thread's (`Handshake`, `Progress`), gives
every exit a cause (`Cause`), and bounds how far the round robin lets two loops
differ (`Turns`).

**AsyncLogging** (`ThreadProofs`), for any sizes, limits, lines and failures of the
disk; a null buffer is not an empty one. `LogIsSound` from `LogInv`: every line
appended is in the file, in a buffer the thread has, in `buffers_`, in
`currentBuffer_` or given up, each stage ahead of the next (`Placed`);
`nextBuffer_` is missing only when a buffer is full, which is why two spares are
enough (`SparesOK`). Whatever `append_unlocked` does, roll, flush or neither, and however
much of it fails, the lines of the file stay in order and those that leave it are
lost (`FileMoves`, which is transitive, so that an append is a chain of such moves). `LogIsOrdered`
speaks of positions and skips the notices, because what a filter of a sequence
returns cannot be proved here.

**TcpServer and IMServer** (`ServerProofs`), for any number of connections and
descriptors. `ServerInvariant` makes no assumption about names: a connection's
state, channel and place in the poller agree (`ConnOK`), descriptors are distinct
while connections live, what a dispatch still has to visit is up (`DispatchOK`),
and a queued functor has a live connection, `connectDestroyed` at most once
(`TasksOK`). `ConnectionsAreSound` and `NothingIsMisused` assume `NamesKept`, that
the user's callback leaves names alone, as the run `tcp_server` has it; without it both
are false, which is `im_server_abort`. `SessionsAreSound` assumes the opposite,
`Renames`, which is what `IMServer::OnConnection` does: the sessions follow
the connections because they are found by the overwritten name.

**TimerQueue** (`NetProofs`), for any addresses, any number of timers and calls.
`TimersAreSound` and `TimersAreExact` from `TimerInv`: each live timer is in exactly
one place, both sets, the batch of expired ones or a queued call (`Placed`,
`CallsOK`); a cancelled timer is gone or reset() will find it in
`cancelingTimers_` (`CanceledOK`); one that ran and does not repeat is going to be
deleted (`RanOK`). Minima exist because times are natural numbers.

**TcpConnection** (`NetProofs`), for any threads, calls and sizes of a message.
`ConnectionIsSound` from `ConnInv`, which has one part for each phase of the
connection (`NewOK`, `UpOK`, `ClosedOK`) and two about its end: once the server's
map has let go, `connectDestroyed()` stands behind every functor that was queued
before (`OrderOK`), and nothing that holds the connection is left when it has been
destroyed (`DeadOK`). The state races of other threads are not assumed away: the
history variable `late` has them, and only then may an assertion fail.
`OutputIsSound` adds `OutInv`: the channel waits for writing exactly when there is
output (`WritesPending`), and of the messages of a thread those on the wire or in the
buffer come first, then those of the batch, then those pending (`NoneMissing`).

**Pollers** (`NetProofs`), for any channels, any finite set of descriptors and any
first size of the event list. `PollerIsSound` from `PollerInv`: a live channel is alone on its
descriptor and `channels_` has exactly the registered ones (`OwnersOK`), the kernel
watches the channels marked `kAdded` (`EpollOK`), and `index_` is a bijection between
registered channels and the entries of `pollfds_`, each of which tells its
descriptor even when negated (`PollOK`). That the moved channel of a removal is
found in `channels_` follows from the last two. A channel that `poll` meets again after
`remove()` ends the process, so what is kept by every step is
`PollerInv \/ (broken /\ PollerSound)`.

**TcpClient** (`NetProofs`), for any descriptors and delays. `ClientIsSound` from
`ClientInv`, whose parts are predicates of the values and not of the variables, so
that each way the connector changes is a lemma of its own, whoever calls it: the
retry of an attempt, `startInLoop()` from a functor, a timer or a restart, a close
from an event or from a functor. `channel_` outlives an attempt until the one
functor that resets it (`ChannelOK`); one attempt is under way at a time, as a
functor, a timer, a restart or a socket (`StartOK`), which is why no assertion of
`startInLoop()` and `connecting()` fails; `connectDestroyed()` of the connection that is
going comes before the channel of the next is reset, so that two connections are
never down (`DownOK`); a client that is gone has left a timer that has not
expired, a connector nobody uses, or a rash order behind it (`GoneOK`), and an attempt
it left has its `stopInLoop()` queued (`StopOK`). A step leads from `ClientInv` to
itself or to the end of the process, after a rash order only (`ClientOrAborted`).
`StopIsKept`: the action property `StopHolds`.

**Protocols** (`CodecProofs`). `RpcIsSound`, for any callers: an id belongs to one
call, `outstandings_` holds the calls without an answer, a request or response
with a call's id carries that call's body; with the connection everything on its way
goes, and only then the server's channel (`EndOK`). `PacketsAreSound` and `FramesAreSound`,
for any packets, payloads and damages: the buffer and what is on the way
hold the units that were not read, one behind the other. That would be said with a
recursive flattening, about which nothing can be proved here; `Stream` says instead
that there are offsets at which the units lie without gaps, and the lemmas about
it (a unit is appended, the first is taken) need no induction. `AnswersAreSound`,
for any size of data and both senders: `WriterInv` has the bytes of the message at every
write of a handler (`Numbers`, `Message`), and what `compress` leaves is one byte, or it
ends with `MaxOut` bytes and no memory.
`HttpIsSound`, for any requests and cuts: the units are now lines, and the number of
lines taken says where the parser is (`ReadTo`): before a request line with nothing
left of an earlier request, unless that line was refused and the connection shut
down, or behind h headers of a well-formed request, of which it knows the last
value of each field (`Parsed`). While the connection is up there is one reply for each
request behind it. That onMessage() leaves no request unanswered needs `EndsOK`: without
a burst there is at most one empty line in the buffer, and taking a line shifts the
others (`EmptyLinesShift`). A request line is not a header and a header has a colon,
which `HttpAssumption` says of the peer.

Assumptions of the constants, beyond those named above: sets of threads are
finite, sizes and capacities natural numbers, a payload fits in
`kMaxMessageLen`, `SizeMax` is larger than what a writer may hold, one of the
databases is `DbName` (or `connect` cannot work).

Only model-checked: every liveness property (fairness is out of the prover's
reach), and the properties of the JSON modules, which are recursive: recursive
operators and induction over data are beyond the prover.

## 5. Not modelled

* `~TcpServer` with I/O threads ("FIXME: unsafe" in `TcpServer.cc:96`), and a
  connection shared by a server and a client.
* `QueryResult` and `Field`: conversions by the MySQL client library's types.
* Wrappers of single system calls (`Socket`, `SocketsOps`, `InetAddress`,
  `Timestamp`, `Date`, `ProcessInfo`, `Atomic`, `Mutex`) and the formatting of log
  lines (`Logging`, `LogStream`): no state that outlives a call.
* What the inspectors print about the process, `ZlibStream`, the protobuf library.
* The daemon and signal set-up, `build/` and `out/`: the latter are output of CMake.
* jsoncpp's internal map and array and its batch allocator, switched off in this
  build; the wording of error messages.
* Clients send packets whose length is not negative. A task that throws ends the
  process and is left out of ThreadPool.

## 6. Plan

What is modelled came in this order: EventLoop, TcpServer with IMServer,
UserManager, Buffer, ClientSession, BinaryWriter, Startup; then threads, timers,
client, pollers, codecs, JSON and the connection used from several threads. The proofs came in the order
of section 4; every safety property of the runs outside the JSON modules has its theorem.
