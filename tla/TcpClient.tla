----------------------------- MODULE TcpClient -----------------------------
(***************************************************************************)
(* muduo::net::TcpClient with its Connector, in one event loop.  An        *)
(* iteration of the loop dispatches events and timers, then runs the       *)
(* functors queued so far; what a functor queues waits for the next one.   *)
(* A timer may expire in any dispatch: a loop that was held up meets it    *)
(* before the functors that were queued before it was set.                 *)
(*                                                                         *)
(* The application calls connect() once, stop() and disconnect() from any  *)
(* thread, and destroys the client in the loop.  Functors hold the raw     *)
(* address of the connector ("FIXME: unsafe"), and the destructor keeps it *)
(* by a timer of one second, if at all ("FIXME: HACK").                    *)
(***************************************************************************)
EXTENDS Integers, Sequences, FiniteSets, SequencesExt

CONSTANTS Fds,        \* bound: socket descriptors
          InitDelay,  \* kInitRetryDelayMs
          MaxDelay    \* kMaxRetryDelayMs

ASSUME DelayAssumption == /\ 0 \notin Fds
                          /\ InitDelay \in Nat \ {0} /\ MaxDelay \in Nat /\ InitDelay <= MaxDelay

VARIABLES client,     \* TcpClient: alive, connect_, retry_, connection_ (its descriptor, or 0)
          connector,  \* Connector: connect_, state_, channel_ (its descriptor, or 0), retryDelayMs_
          socks,      \* each descriptor: closed, connecting, or its TcpConnection up or down
          closeBy,    \* closeCallback_ of its TcpConnection: removeConnection of TcpClient or detail
          queued,     \* pendingFunctors_
          running,    \* the functors this iteration has still to run
          functors,   \* whether the iteration is at its functors
          alarms,     \* timers: how many call startInLoop(), and whether one keeps the connector
          restarting, \* removeConnection() is between its test and restart()
          misuse,     \* history: an assertion failed
          dangling,   \* history: ~Connector() had a channel, or a functor had no connector
          rash,       \* history: the orders that lead there, see Rash
          asked,      \* history: connect() and stop() were called
          gaveUp      \* history: connect() met an error it does not retry

loopVars == <<running, functors>>
clientVars == <<client, connector, socks, closeBy, queued, loopVars, alarms,
                restarting, misuse, dangling, rash, asked, gaveUp>>

ClientInit ==
  /\ \E retry \in BOOLEAN :
       client = [alive |-> TRUE, connect |-> TRUE, retry |-> retry, connection |-> 0]
  /\ connector = [connect |-> FALSE, state |-> "disconnected", channel |-> 0, delay |-> InitDelay]
  /\ socks = [s \in Fds |-> "closed"]
  /\ closeBy = [s \in Fds |-> "none"]
  /\ queued = <<>> /\ running = <<>> /\ functors = FALSE
  /\ alarms = [start |-> 0, keep |-> FALSE]
  /\ restarting = FALSE /\ misuse = FALSE
  /\ dangling = FALSE /\ rash = {}
  /\ asked = {} /\ gaveUp = FALSE

RawFunctors == {"startInLoop", "stopInLoop", "resetChannel"}
Waiting(f) == f \in ToSet(queued) \cup ToSet(running)

(* The client and the timers share the connector. *)
ConnectorAlive == client.alive \/ alarms.start > 0 \/ alarms.keep

(* Something in the loop still points to the connector. *)
ConnectorInUse == connector.channel # 0 \/ \E f \in RawFunctors : Waiting(f)

(* ~Connector() when the last reference has gone: asserts !channel_. *)
Release == dangling' = (~ConnectorAlive' /\ connector'.channel # 0)

(* The application destroys a connected client, or a timer expires, while  *)
(* the connector is in use.                                                *)
Rash(what) == rash' = IF ConnectorInUse THEN rash \cup {what} ELSE rash

-----------------------------------------------------------------------------
(* Connector.  k is its record, with the assignments made so far, and al   *)
(* the timers.                                                             *)

LesserDelay(d) == IF d < MaxDelay THEN d ELSE MaxDelay

(* retry(): no stop() that follows cancels the timer. *)
Retry(k, s, al) ==
  /\ socks' = [socks EXCEPT ![s] = "closed"]
  /\ IF k.connect
     THEN /\ connector' = [k EXCEPT !.state = "disconnected", !.delay = LesserDelay(2 * k.delay)]
          /\ alarms' = [al EXCEPT !.start = @ + 1]
     ELSE /\ connector' = [k EXCEPT !.state = "disconnected"]
          /\ alarms' = al

(* connecting(): asserts !channel_. *)
Connecting(k, s, al) ==
  /\ connector' = [k EXCEPT !.state = "connecting", !.channel = s]
  /\ socks' = [socks EXCEPT ![s] = "connecting"]
  /\ misuse' = (misuse \/ k.channel # 0)
  /\ alarms' = al

(* connect(): ::connect() is under way, is to be tried again, or fails. *)
Connect(k, al) ==
  \E s \in Fds :
    /\ socks[s] = "closed"
    /\ \/ Connecting(k, s, al) /\ UNCHANGED gaveUp
       \/ Retry(k, s, al) /\ UNCHANGED <<misuse, gaveUp>>
       \/ connector' = k /\ alarms' = al /\ gaveUp' = TRUE /\ UNCHANGED <<socks, misuse>>

(* startInLoop(): asserts state_ == kDisconnected. *)
StartInLoop(k, al) ==
  \/ k.state = "disconnected" /\ k.connect /\ Connect(k, al)
  \/ /\ ~(k.state = "disconnected" /\ k.connect)
     /\ misuse' = (misuse \/ k.state # "disconnected")
     /\ connector' = k /\ alarms' = al
     /\ UNCHANGED <<socks, gaveUp>>

(* removeAndResetChannel(): channel_ goes when the functor runs. *)
RemoveAndResetChannel == queued' = Append(queued, "resetChannel")

(* stopInLoop() *)
StopInLoop ==
  \/ /\ connector.state = "connecting"
     /\ RemoveAndResetChannel
     /\ Retry(connector, connector.channel, alarms)
  \/ /\ connector.state # "connecting"
     /\ UNCHANGED <<queued, connector, socks, alarms>>

-----------------------------------------------------------------------------
(* Calls of the application. *)

(* TcpClient::connect(), Connector::start() *)
ClientConnect ==
  /\ client.alive
  /\ "connect" \notin asked
  /\ asked' = asked \cup {"connect"}
  /\ client' = [client EXCEPT !.connect = TRUE]
  /\ connector' = [connector EXCEPT !.connect = TRUE]
  /\ queued' = Append(queued, "startInLoop")
  /\ UNCHANGED <<socks, closeBy, loopVars, alarms, restarting, misuse, dangling, rash, gaveUp>>

(* TcpClient::stop(), Connector::stop() *)
ClientStop ==
  /\ client.alive
  /\ "connect" \in asked /\ "stop" \notin asked
  /\ asked' = asked \cup {"stop"}
  /\ client' = [client EXCEPT !.connect = FALSE]
  /\ connector' = [connector EXCEPT !.connect = FALSE]
  /\ queued' = Append(queued, "stopInLoop")
  /\ UNCHANGED <<socks, closeBy, loopVars, alarms, restarting, misuse, dangling, rash, gaveUp>>

(* disconnect(): the half close is TcpConnection's. *)
ClientDisconnect ==
  /\ client.alive /\ client.connect
  /\ "connect" \in asked
  /\ client' = [client EXCEPT !.connect = FALSE]
  /\ UNCHANGED <<connector, socks, closeBy, queued, loopVars, alarms, restarting,
                 misuse, dangling, rash, asked, gaveUp>>

(* Mutant: nothing keeps the connector of a client without a connection. *)
KeepConnectorNot == UNCHANGED alarms

(* runAfter(1, removeConnector): a reference to the connector. *)
KeepConnector == alarms' = [alarms EXCEPT !.keep = TRUE]

(* ~TcpClient() *)
DestroyClient ==
  /\ functors
  /\ client.alive
  /\ client' = [client EXCEPT !.alive = FALSE, !.connection = 0]
  /\ \/ /\ client.connection # 0
        /\ Rash("destroyed")
        /\ closeBy' = [closeBy EXCEPT ![client.connection] = "detail"]
        /\ queued' \in {queued, Append(queued, "forceCloseInLoop")}
        /\ UNCHANGED <<connector, alarms>>
     \/ /\ client.connection = 0
        /\ connector' = [connector EXCEPT !.connect = FALSE]
        /\ queued' = Append(queued, "stopInLoop")
        /\ KeepConnector
        /\ UNCHANGED <<closeBy, rash>>
  /\ UNCHANGED <<socks, loopVars, restarting, misuse, asked, gaveUp>>
  /\ Release

-----------------------------------------------------------------------------
(* Events. *)

Dispatching == ~functors /\ ~restarting

(* Mutant: a connector that was stopped hands its socket to the client. *)
NewConnectionAnyway(s) ==
  /\ client' = [client EXCEPT !.connection = s]
  /\ socks' = [socks EXCEPT ![s] = "up"]
  /\ closeBy' = [closeBy EXCEPT ![s] = "client"]
  /\ misuse' = (misuse \/ ~client.alive)

(* newConnectionCallback_ is TcpClient::newConnection() of the raw client. *)
NewConnection(s) ==
  \/ /\ connector.connect
     /\ client' = [client EXCEPT !.connection = s]
     /\ socks' = [socks EXCEPT ![s] = "up"]
     /\ closeBy' = [closeBy EXCEPT ![s] = "client"]
     /\ misuse' = (misuse \/ ~client.alive)
  \/ /\ ~connector.connect
     /\ socks' = [socks EXCEPT ![s] = "closed"]
     /\ UNCHANGED <<client, closeBy, misuse>>

(* handleWrite() without SO_ERROR *)
HandleWrite ==
  /\ Dispatching
  /\ connector.state = "connecting"
  /\ RemoveAndResetChannel
  /\ connector' = [connector EXCEPT !.state = "connected"]
  /\ NewConnection(connector.channel)
  /\ UNCHANGED <<loopVars, alarms, restarting, dangling, rash, asked, gaveUp>>

(* handleError(), or handleWrite() with SO_ERROR or a connection to        *)
(* itself; a handleWrite() that follows in the same event does nothing.    *)
HandleError ==
  /\ Dispatching
  /\ connector.state = "connecting"
  /\ RemoveAndResetChannel
  /\ Retry(connector, connector.channel, alarms)
  /\ UNCHANGED <<client, closeBy, loopVars, restarting, misuse, dangling, rash, asked, gaveUp>>

(* TcpConnection::handleClose() with the callback it has then.             *)
(* TcpClient::removeConnection() asserts connection_ == conn.              *)
CloseConnection(s) ==
  /\ socks' = [socks EXCEPT ![s] = "down"]
  /\ queued' = Append(queued, "connectDestroyed")
  /\ \/ /\ closeBy[s] = "client"
        /\ misuse' = (misuse \/ ~client.alive \/ client.connection # s)
        /\ client' = [client EXCEPT !.connection = 0]
        /\ restarting' = (client.retry /\ client.connect)
     \/ /\ closeBy[s] = "detail"
        /\ UNCHANGED <<misuse, client, restarting>>

(* A connection has its first event in the iteration after its success. *)
PeerCloses ==
  \E s \in Fds : /\ Dispatching
                 /\ socks[s] = "up" /\ connector.channel # s
                 /\ CloseConnection(s)
                 /\ UNCHANGED <<connector, closeBy, loopVars, alarms, dangling, rash, asked, gaveUp>>

(* The rest of removeConnection(): restart().  stop() may come between. *)
Restart ==
  /\ restarting
  /\ restarting' = FALSE
  /\ StartInLoop([connector EXCEPT !.state = "disconnected", !.delay = InitDelay, !.connect = TRUE],
                 alarms)
  /\ UNCHANGED <<client, closeBy, queued, loopVars, dangling, rash, asked>>

(* startInLoop() of a retry, or removeConnector() *)
AlarmExpires ==
  /\ Dispatching
  /\ \/ alarms.start > 0 /\ StartInLoop(connector, [alarms EXCEPT !.start = @ - 1])
     \/ /\ alarms.keep
        /\ alarms' = [alarms EXCEPT !.keep = FALSE]
        /\ UNCHANGED <<connector, socks, misuse, gaveUp>>
  /\ Rash("overtaken")
  /\ UNCHANGED <<client, closeBy, queued, loopVars, restarting, asked>>
  /\ Release

-----------------------------------------------------------------------------
(* doPendingFunctors() *)

TakeFunctors ==
  /\ Dispatching
  /\ functors' = TRUE
  /\ running' = queued
  /\ queued' = <<>>
  /\ UNCHANGED <<client, connector, socks, closeBy, alarms, restarting, misuse, dangling, rash, asked, gaveUp>>

RunFunctor ==
  /\ functors /\ ~restarting
  /\ running # <<>>
  /\ running' = Tail(running)
  /\ dangling' = (Head(running) \in RawFunctors /\ ~ConnectorAlive)
  /\ \/ /\ Head(running) = "startInLoop"
        /\ StartInLoop(connector, alarms)
        /\ UNCHANGED <<queued, client, closeBy, restarting>>
     \/ /\ Head(running) = "stopInLoop"
        /\ StopInLoop
        /\ UNCHANGED <<client, closeBy, restarting, misuse, gaveUp>>
     \/ /\ Head(running) = "resetChannel"
        /\ connector' = [connector EXCEPT !.channel = 0]
        /\ UNCHANGED <<queued, socks, alarms, client, closeBy, restarting, misuse, gaveUp>>
     \/ /\ Head(running) = "connectDestroyed"
        /\ \E s \in Fds : /\ socks[s] = "down"
                          /\ socks' = [socks EXCEPT ![s] = "closed"]
                          /\ closeBy' = [closeBy EXCEPT ![s] = "none"]
        /\ UNCHANGED <<queued, connector, alarms, client, restarting, misuse, gaveUp>>
     \/ /\ Head(running) = "forceCloseInLoop"
        /\ \/ \E s \in Fds : closeBy[s] = "detail" /\ socks[s] = "up" /\ CloseConnection(s)
           \/ /\ \A s \in Fds : ~(closeBy[s] = "detail" /\ socks[s] = "up")
              /\ UNCHANGED <<queued, socks, client, restarting, misuse>>
        /\ UNCHANGED <<connector, alarms, closeBy, gaveUp>>
  /\ UNCHANGED <<functors, rash, asked>>

(* The next iteration *)
EndFunctors ==
  /\ functors /\ running = <<>>
  /\ functors' = FALSE
  /\ UNCHANGED <<client, connector, socks, closeBy, queued, running, alarms, restarting, misuse,
                 dangling, rash, asked, gaveUp>>

(* Nothing is said of what follows an abort or a use of freed memory. *)
ClientNext ==
  /\ ~misuse /\ ~dangling
  /\ \/ ClientConnect \/ ClientStop \/ ClientDisconnect \/ DestroyClient
     \/ HandleWrite \/ HandleError \/ PeerCloses \/ Restart \/ AlarmExpires
     \/ TakeFunctors \/ RunFunctor \/ EndFunctors

ClientSpec == ClientInit /\ [][ClientNext]_clientVars

-----------------------------------------------------------------------------
(* With one connect(), the assertions of Connector and TcpClient hold, and *)
(* no callback reaches a client that is gone, whatever the order of stop,  *)
(* destruction, timers and events, until a timer overtakes the functors.   *)
NoClientMisuse == misuse => "overtaken" \in rash

(* The connector lives while a functor holds its raw address, and goes     *)
(* with its channel reset, unless a connected client was destroyed, or a   *)
(* timer expired, while a functor of the connector was queued.             *)
ConnectorOutlivesUse ==
  /\ dangling => rash # {}
  /\ ~ConnectorAlive /\ rash = {} => ~ConnectorInUse

(* No descriptor is lost or closed under its user: a socket that is open   *)
(* is the connector's while it connects or a connection's, and the client  *)
(* holds no connection that is down.                                       *)
SocketsAccounted ==
  /\ \A s \in Fds : socks[s] = "connecting" <=> connector.state = "connecting" /\ connector.channel = s
  /\ client.connection # 0 => socks[client.connection] = "up"
  /\ \A s \in Fds : socks[s] = "down" => Waiting("connectDestroyed")

(* A client that still wants its connection is never left with nothing to  *)
(* do: it is connected, or an attempt, a timer or a restart is under way,  *)
(* unless connect() gave up.                                               *)
AttemptPending ==
  (connector.connect /\ connector.state = "disconnected" /\ ~gaveUp)
    => \/ Waiting("startInLoop") \/ restarting
       \/ alarms.start > 0

(* Connects, stops, retries, timers and the destructor in any order: an    *)
(* assertion fails, or a functor outlives its connector, only after one of *)
(* the rash orders, each socket has one owner, and a client that wants its *)
(* connection is never left idle.                                          *)
ClientSound == NoClientMisuse /\ ConnectorOutlivesUse /\ SocketsAccounted /\ AttemptPending

(* stop() holds: a connector whose connect_ is cleared makes no further    *)
(* attempt and hands over no connection, unless removeConnection() had     *)
(* seen connect_ set already and restart() follows the stop.               *)
StopHolds ==
  [][~connector.connect /\ "connect" \in asked /\ ~restarting
       => /\ connector'.state = "connecting" => connector.state = "connecting"
          /\ client'.connection = 0 \/ client'.connection = client.connection]_clientVars

(* stop() while connecting closes the socket, or the process died first. *)
StopEnds == (~connector.connect /\ connector.state = "connecting")
              ~> connector.state # "connecting" \/ misuse \/ dangling
=============================================================================
