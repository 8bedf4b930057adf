----------------------------- MODULE TcpServer -----------------------------
(***************************************************************************)
(* muduo::net::TcpServer and TcpConnection on one EventLoop, as IMServer   *)
(* runs them (no I/O threads): accepting, reading, writing, closing and    *)
(* destroying connections, with the user's calls from its callbacks.       *)
(*                                                                         *)
(* One pass of the loop is poll() (a snapshot of the channels' events),    *)
(* the dispatch of that snapshot, and the batch of queued functors.  A     *)
(* TcpConnection lives while connections_, a queued functor or the running *)
(* batch refers to it; its destructor closes the descriptor.               *)
(*                                                                         *)
(* An assert() that fails sets `failed` and ends the process, unless the   *)
(* build defines NDEBUG (AssertsOn = FALSE).                               *)
(***************************************************************************)
EXTENDS Naturals, Sequences, FiniteSets, FiniteSetsExt

CONSTANTS MaxConns,        \* bound: connections accepted (nextConnId_)
          Fds,             \* descriptors the kernel gives to accept()
          MaxOutput,       \* bound: outputBuffer_, in chunks
          UserOps,         \* the TcpConnection methods the user calls
          AssertsOn,       \* the build checks assert()
          CallbackName(_)  \* name_ after the connection callback of connection c

ConnIds == 1..MaxConns
(* The name newConnection() gives: server name, address and number. *)
ConnName(c) == <<"conn", c>>

(* 0 stands for no descriptor. *)
ASSUME BoundsAssumption == MaxConns \in Nat /\ MaxOutput \in Nat
ASSUME FdsAssumption == Fds \subseteq Nat \ {0}
(* A callback that renames its connection takes no other one's name. *)
ASSUME NamesAssumption == \A c, d \in ConnIds : CallbackName(c) = ConnName(d) => c = d

States == {"none", "kConnecting", "kConnected", "kDisconnecting",
           "kDisconnected", "dead"}

VARIABLES
  nextConnId,   \* nextConnId_
  conn,         \* TcpConnection with its Channel, by number
  sock,         \* what the kernel holds for it: unread data, end of stream
  connections,  \* connections_, as a set of <<name, number>>
  lpc,          \* where the loop is
  active,       \* activeChannels_ left to dispatch, with their revents_
  cur,          \* the channel being dispatched: its events left to handle
  pending,      \* functors queued in the loop, as <<method, number>>
  batch,        \* the functors being run, those left to run
  held,         \* connections referred to by the batch, run or not
  failed        \* the assert() that failed, or "none"

connVars == <<nextConnId, conn, sock, connections>>
loopVars == <<lpc, active, cur, pending, batch, held>>
vars == <<connVars, loopVars, failed>>

NoConn == [state |-> "none", name |-> <<>>, events |-> {}, added |-> FALSE,
           fd |-> 0, out |-> 0, wshut |-> FALSE]
Idle == [id |-> 0, ev |-> {}]

Init == /\ nextConnId = 1
        /\ conn = [c \in ConnIds |-> NoConn]
        /\ sock = [c \in ConnIds |-> [data |-> FALSE, end |-> "open"]]
        /\ connections = {}
        /\ lpc = "poll"
        /\ active = {}
        /\ cur = Idle
        /\ pending = <<>>
        /\ batch = <<>>
        /\ held = {}
        /\ failed = "none"

Alive(c) == conn[c].state \notin {"none", "dead"}
Up(c) == conn[c].state \in {"kConnected", "kDisconnecting"}

(* Mutant: the descriptor is closed by handleClose(). *)
UsedFdsClosed == {conn[c].fd : c \in {d \in ConnIds : Up(d)}}

UsedFds == {conn[c].fd : c \in {d \in ConnIds : Alive(d)}}
FreeFds == Fds \ UsedFds

(* assert(P): names the first assertion that does not hold. *)
Assert(P, site) == failed' = IF AssertsOn /\ ~P THEN site ELSE failed

-----------------------------------------------------------------------------
(* The peer and the kernel. *)

PeerSends(c) == /\ Alive(c) /\ sock[c].end = "open" /\ ~sock[c].data
                /\ sock' = [sock EXCEPT ![c].data = TRUE]
                /\ UNCHANGED <<nextConnId, conn, connections, loopVars, failed>>

(* A FIN, or a reset, which the first read reports as an error. *)
PeerEnds(c) == /\ Alive(c) /\ sock[c].end = "open"
               /\ \E e \in {"eof", "rst"} : sock' = [sock EXCEPT ![c].end = e]
               /\ UNCHANGED <<nextConnId, conn, connections, loopVars, failed>>

(* Mutant: the end of the stream does not make the descriptor readable. *)
EventsDataOnly(c) ==
  (IF "read" \in conn[c].events /\ sock[c].data THEN {"in"} ELSE {})
    \cup (IF "write" \in conn[c].events THEN {"out"} ELSE {})

(* epoll reports nothing for a channel that waits for nothing. *)
Events(c) ==
  LET ended == sock[c].end # "open"
  IN  (IF "read" \in conn[c].events /\ (sock[c].data \/ ended) THEN {"in"} ELSE {})
        \cup (IF "write" \in conn[c].events THEN {"out"} ELSE {})
        \cup (IF conn[c].events # {} /\ ended /\ (conn[c].wshut \/ sock[c].end = "rst")
              THEN {"hup"} ELSE {})

-----------------------------------------------------------------------------
(* poll() and the dispatch. *)

Poll == /\ lpc = "poll"
        /\ active' = {[id |-> c, ev |-> Events(c)] :
                        c \in {d \in ConnIds : Alive(d) /\ Events(d) # {}}}
        /\ lpc' = "dispatch"
        /\ UNCHANGED <<connVars, cur, pending, batch, held, failed>>

TakeChannel == /\ lpc = "dispatch"
               /\ \E a \in active : cur' = a /\ active' = active \ {a}
               /\ lpc' = "channel"
               /\ UNCHANGED <<connVars, pending, batch, held, failed>>

(* Acceptor::handleRead(), newConnection(), connectEstablished() and the   *)
(* connection callback, which finds the connection up.                     *)
NewConnection ==
  LET c == nextConnId
  IN  /\ lpc = "dispatch"
      /\ c <= MaxConns /\ FreeFds # {}
      /\ nextConnId' = c + 1
      /\ connections' = connections \cup {<<ConnName(c), c>>}
      /\ conn' = [conn EXCEPT ![c] =
           [NoConn EXCEPT !.state = "kConnected", !.name = CallbackName(c),
                          !.events = {"read"}, !.added = TRUE,
                          !.fd = Min(FreeFds)]]
      /\ cur' = [id |-> c, ev |-> {}]
      /\ lpc' = "callback"
      /\ Assert(conn[c].state = "none", "connectEstablished")
      /\ UNCHANGED <<sock, active, pending, batch, held>>

(* removeConnectionInLoop(): erase by name; connectDestroyed() is queued,  *)
(* and holds the connection until it has run.                              *)
Erased(c) == {p \in connections : p[1] = conn[c].name}

(* handleClose(): state, channel, connection callback (it finds the        *)
(* connection down), and the close callback, which is removeConnection().  *)
Closed(c) == [conn[c] EXCEPT !.state = "kDisconnected", !.events = {}]
HandleClose(c) ==
  /\ conn' = [conn EXCEPT ![c] = Closed(c)]
  /\ connections' = connections \ Erased(c)
  /\ pending' = Append(pending, <<"connectDestroyed", c>>)
  /\ IF ~Up(c) THEN Assert(FALSE, "handleClose")
               ELSE Assert(Cardinality(Erased(c)) = 1, "removeConnectionInLoop")

(* POLLHUP without POLLIN. *)
ChannelHup == /\ lpc = "channel"
              /\ "hup" \in cur.ev /\ "in" \notin cur.ev
              /\ HandleClose(cur.id)
              /\ cur' = [cur EXCEPT !.ev = @ \ {"hup"}]
              /\ UNCHANGED <<nextConnId, sock, lpc, active, batch, held>>

(* handleRead(): data, end of stream, or an error, which is only logged. *)
ChannelRead ==
  LET c == cur.id
  IN  /\ lpc = "channel"
      /\ "in" \in cur.ev
      /\ cur' = [cur EXCEPT !.ev = @ \ {"in", "hup"}]
      /\ \/ /\ sock[c].data
            /\ sock' = [sock EXCEPT ![c].data = FALSE]
            /\ lpc' = "callback"
            /\ UNCHANGED <<conn, connections, pending, failed>>
         \/ /\ ~sock[c].data /\ sock[c].end = "eof"
            /\ HandleClose(c)
            /\ UNCHANGED <<sock, lpc>>
         \/ /\ ~sock[c].data /\ sock[c].end # "eof"
            /\ sock' = [sock EXCEPT ![c].end = IF @ = "rst" THEN "eof" ELSE @]
            /\ UNCHANGED <<conn, connections, lpc, pending, failed>>
      /\ UNCHANGED <<nextConnId, active, batch, held>>

(* shutdownInLoop() *)
ShutdownInLoop(r) == IF "write" \in r.events THEN r ELSE [r EXCEPT !.wshut = TRUE]

(* handleWrite(): n chunks are written, or none (the error is logged). *)
Wrote(r, n) ==
  LET left == [r EXCEPT !.out = @ - n]
      done == [left EXCEPT !.events = @ \ {"write"}]
  IN  IF left.out > 0 THEN left
      ELSE IF r.state = "kDisconnecting" THEN ShutdownInLoop(done) ELSE done

ChannelWrite ==
  LET c == cur.id
  IN  /\ lpc = "channel"
      /\ cur.ev \cap {"in", "hup"} = {} /\ "out" \in cur.ev
      /\ cur' = [cur EXCEPT !.ev = @ \ {"out"}]
      /\ \/ /\ "write" \in conn[c].events
            /\ \E n \in 0..conn[c].out :
                 conn' = [conn EXCEPT ![c] = IF n = 0 THEN @ ELSE Wrote(@, n)]
         \/ /\ "write" \notin conn[c].events
            /\ UNCHANGED conn
      /\ UNCHANGED <<nextConnId, sock, connections, lpc, active, pending, batch,
                     held, failed>>

ChannelDone == /\ lpc = "channel"
               /\ cur.ev = {}
               /\ cur' = Idle
               /\ lpc' = "dispatch"
               /\ UNCHANGED <<connVars, active, pending, batch, held, failed>>

-----------------------------------------------------------------------------
(* What the user calls from a message or connection callback, on any       *)
(* connection that has not been destroyed.                                 *)

Calling(op) == lpc = "callback" /\ op \in UserOps

(* send(): only when connected; written at once if nothing is waiting. *)
Send(c) ==
  /\ Calling("send")
  /\ conn[c].state = "kConnected" /\ conn[c].out < MaxOutput
  /\ \/ /\ conn[c].out = 0 /\ "write" \notin conn[c].events
        /\ UNCHANGED conn          \* written, or EPIPE and ECONNRESET: dropped
     \/ conn' = [conn EXCEPT ![c].out = @ + 1, ![c].events = @ \cup {"write"}]
  /\ UNCHANGED <<nextConnId, sock, connections, loopVars, failed>>

Shutdown(c) ==
  /\ Calling("shutdown")
  /\ conn[c].state = "kConnected"
  /\ conn' = [conn EXCEPT ![c] = ShutdownInLoop([@ EXCEPT !.state = "kDisconnecting"])]
  /\ UNCHANGED <<nextConnId, sock, connections, loopVars, failed>>

(* forceClose(): queued, never done inside the caller's callback. *)
ForceClose(c) ==
  /\ Calling("forceClose")
  /\ Up(c) /\ <<"forceCloseInLoop", c>> \notin Range(pending)
  /\ conn' = [conn EXCEPT ![c].state = "kDisconnecting"]
  /\ pending' = Append(pending, <<"forceCloseInLoop", c>>)
  /\ UNCHANGED <<nextConnId, sock, connections, lpc, active, cur, batch, held, failed>>

(* stopRead() and startRead() of callers that look at connected() first.   *)
(* What they do to a connection that is down is in module TcpConnection.   *)
SetReading(c, on) ==
  /\ Calling("reading")
  /\ Up(c)
  /\ conn' = [conn EXCEPT ![c].events = IF on THEN @ \cup {"read"} ELSE @ \ {"read"}]
  /\ UNCHANGED <<nextConnId, sock, connections, loopVars, failed>>

CallbackReturns == /\ lpc = "callback"
                   /\ lpc' = "channel"
                   /\ UNCHANGED <<connVars, active, cur, pending, batch, held, failed>>

UserCall == \E c \in ConnIds : \/ Send(c) \/ Shutdown(c) \/ ForceClose(c)
                               \/ \E on \in BOOLEAN : SetReading(c, on)

-----------------------------------------------------------------------------
(* The batch. *)

DispatchDone == /\ lpc = "dispatch"
                /\ active = {}
                /\ lpc' = "batch"
                /\ batch' = pending
                /\ held' = {t[2] : t \in Range(pending)}
                /\ pending' = <<>>
                /\ UNCHANGED <<connVars, active, cur, failed>>

NextTask(method) == lpc = "batch" /\ batch # <<>> /\ Head(batch)[1] = method

(* forceCloseInLoop() *)
ForceCloseInLoop ==
  LET c == Head(batch)[2]
  IN  /\ NextTask("forceCloseInLoop")
      /\ \/ Up(c) /\ HandleClose(c)
         \/ ~Up(c) /\ UNCHANGED <<conn, connections, pending, failed>>
      /\ batch' = Tail(batch)
      /\ UNCHANGED <<nextConnId, sock, lpc, active, cur, held>>

(* connectDestroyed(): Channel::remove(), after a close if there was none. *)
ConnectDestroyed ==
  LET c == Head(batch)[2]
      r == IF conn[c].state = "kConnected" THEN Closed(c) ELSE conn[c]
  IN  /\ NextTask("connectDestroyed")
      /\ conn' = [conn EXCEPT ![c] = [r EXCEPT !.added = FALSE]]
      /\ Assert(r.events = {}, "Channel::remove")
      /\ batch' = Tail(batch)
      /\ UNCHANGED <<nextConnId, sock, connections, lpc, active, cur, pending, held>>

(* Mutant: a queued functor holds a raw pointer. *)
OrphansRaw == {c \in held : \A p \in connections : p[2] # c}

(* The batch is destroyed, and with it the connections nothing refers to:  *)
(* ~TcpConnection, ~Channel and ~Socket, which closes the descriptor.      *)
Orphans == {c \in held : /\ \A p \in connections : p[2] # c
                         /\ \A t \in Range(pending) : t[2] # c}
BatchDone == /\ lpc = "batch"
             /\ batch = <<>>
             /\ conn' = [c \in ConnIds |->
                           IF c \in Orphans THEN [conn[c] EXCEPT !.state = "dead", !.fd = 0]
                                            ELSE conn[c]]
             /\ Assert(\A c \in Orphans : conn[c].state = "kDisconnected" /\ ~conn[c].added,
                       "~TcpConnection")
             /\ held' = {}
             /\ lpc' = "poll"
             /\ UNCHANGED <<nextConnId, sock, connections, active, cur, pending, batch>>

-----------------------------------------------------------------------------
LoopStep == \/ Poll \/ TakeChannel \/ ChannelHup \/ ChannelRead \/ ChannelWrite
            \/ ChannelDone \/ CallbackReturns \/ DispatchDone
            \/ ForceCloseInLoop \/ ConnectDestroyed \/ BatchDone

Next == /\ failed = "none"
        /\ \/ LoopStep
           \/ NewConnection
           \/ UserCall
           \/ \E c \in ConnIds : PeerSends(c) \/ PeerEnds(c)

Spec == Init /\ [][Next]_vars

(* The loop thread is scheduled and callbacks return. *)
LiveSpec == Spec /\ WF_vars(failed = "none" /\ LoopStep)

-----------------------------------------------------------------------------
(* Properties. *)

TaskSet == {<<m, c>> : m \in {"connectDestroyed", "forceCloseInLoop"}, c \in ConnIds}

(* Types; the channel under dispatch and the batch exist only at the       *)
(* control points that use them.                                           *)
TypeOK == /\ nextConnId \in 1..MaxConns + 1
          /\ \A c \in ConnIds :
               /\ conn[c].state \in States
               /\ conn[c].state = "none" <=> c >= nextConnId
               /\ conn[c].events \subseteq {"read", "write"}
               /\ conn[c].out \in 0..MaxOutput
               /\ "write" \in conn[c].events <=> conn[c].out > 0 /\ Up(c)
          /\ lpc \in {"poll", "dispatch", "channel", "callback", "batch"}
          /\ Range(pending) \cup Range(batch) \subseteq TaskSet
          /\ lpc # "batch" => batch = <<>> /\ held = {}

(* No assert() of TcpServer, TcpConnection and Channel fails: no double    *)
(* handleClose(), no connection missing from connections_ when it is       *)
(* removed, no channel destroyed while it is registered.                   *)
NoAssertFails == failed = "none"

(* connections_ holds exactly the connections that are up, under the names *)
(* newConnection() gave them.                                              *)
MapIsUp == connections = {<<ConnName(c), c>> : c \in {d \in ConnIds : Up(d)}}

(* A descriptor is not closed, so that accept() cannot give it to a new    *)
(* connection, while the poller still maps it to the old channel.          *)
PollerFdsOwned == \A c, d \in ConnIds :
  conn[c].added => /\ Alive(c)
                   /\ conn[c].fd = conn[d].fd => c = d

(* No event handler and no queued functor runs on a destroyed connection.  *)
NoUseAfterFree == /\ lpc \in {"channel", "callback"} => Alive(cur.id)
                  /\ \A t \in Range(pending) \cup Range(batch) : Alive(t[2])

(* shutdown() shuts the write side only after the output buffer is empty:  *)
(* nothing accepted by send() is cut off by it.                            *)
ShutdownDrains == \A c \in ConnIds : conn[c].wshut => conn[c].out = 0

(* When the peer closes or resets, the connection is destroyed and its     *)
(* descriptor closed, unless and until the user has stopped reading.       *)
PeerEndReleases == \A c \in ConnIds :
  /\ Alive(c) /\ sock[c].end # "open"
  ~> conn[c].state = "dead" \/ (Up(c) /\ "read" \notin conn[c].events)

(* forceClose() destroys the connection, also when the peer stays silent   *)
(* and when reading was stopped.                                           *)
ForceCloseReleases == \A c \in ConnIds :
  <<"forceCloseInLoop", c>> \in Range(pending) ~> conn[c].state = "dead"

(* connections_ is what is up under the names newConnection() gave, the    *)
(* poller maps a descriptor to its present owner only, and shutdown() cuts *)
(* nothing off.                                                            *)
ConnectionsSound == TypeOK /\ MapIsUp /\ PollerFdsOwned /\ ShutdownDrains

(* Closes, functors queued earlier and events of the same poll() meet in   *)
(* any order: no assert() fails and nothing runs on a destroyed            *)
(* connection.                                                             *)
NoMisuse == NoAssertFails /\ NoUseAfterFree

(* A connection that its peer ended, or that was force closed, is          *)
(* destroyed and its descriptor closed.                                    *)
EndedIsReleased == PeerEndReleases /\ ForceCloseReleases
=============================================================================
