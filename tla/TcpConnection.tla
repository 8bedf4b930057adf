--------------------------- MODULE TcpConnection ---------------------------
(***************************************************************************)
(* A TcpConnection in a loop of a server's thread pool, with the TcpServer *)
(* in another loop and other threads that hold the connection and call its *)
(* methods.  (Module TcpServer has the calls from its own callbacks, on a  *)
(* server with one loop.)                                                  *)
(*                                                                         *)
(* state_ is a plain variable: a caller's test of it, its assignment and   *)
(* the queueing of the functor are three steps, and the loop may run       *)
(* between them.  Functors of send(), shutdown(), startRead() and          *)
(* stopRead() hold `this`, the others a TcpConnectionPtr.  One unit of a   *)
(* message stands for any number of its bytes.                             *)
(***************************************************************************)
EXTENDS Integers, Sequences, FiniteSets, SequencesExt

CONSTANTS ConnThreads,    \* threads that call the connection
          ConnCalls,      \* bound: how often they do
          MessageUnits,   \* units of a message
          HighWaterMark   \* highWaterMark_, in units

ASSUME ConnectionAssumption == ConnCalls \in Nat /\ MessageUnits \in Nat \ {0} /\ HighWaterMark \in Nat

VARIABLES state,     \* state_
          reading,   \* reading_
          events,    \* events_ of channel_
          added,     \* addedToLoop_ of channel_
          alive,     \* the object exists
          out,       \* outputBuffer_
          wire,      \* what the kernel took, in order
          wshut,     \* the write side is shut
          link,      \* the way to the peer: open, full (it does not read) or reset
          peerEnded, \* the peer sent its end of stream
          inMap,     \* connections_ of TcpServer has it
          removals,  \* removeConnectionInLoop() queued in the server's loop
          at,        \* the connection's loop: poll, dispatch, batch
          revents,   \* revents_ still to be handled
          pending,   \* pendingFunctors_ of the loop
          doing,     \* the functors it still has to run
          gripped,   \* those of the batch, run or not, hold the connection
          delayed,   \* timers of forceCloseWithDelay()
          has,       \* threads that hold a TcpConnectionPtr
          tpc,       \* what a thread is doing: a call and how far it is
          left,      \* calls they may still make
          sent,      \* messages of each thread that send() took
          told,      \* history: what connectionCallback_ was told
          owed,      \* history: something was written since writeCompleteCallback_
          late,      \* history: calls that the close of the connection overtook
          failed     \* history: an assertion that failed

channelVars == <<reading, events, added>>
outVars == <<out, wire, wshut, owed, link>>
loopPart == <<at, revents, pending, doing, gripped, delayed>>
threadPart == <<has, tpc, left, sent>>
serverPart == <<inMap, removals>>
connectionVars == <<state, channelVars, alive, outVars, peerEnded, serverPart, loopPart,
                    threadPart, told, late, failed>>

Functor(what) == [what |-> what, msg |-> <<>>, late |-> FALSE]
Holding == {"connectEstablished", "forceCloseInLoop", "connectDestroyed", "writeComplete", "highWater"}
NoCall == [op |-> "none", step |-> "none"]

(* newConnection() has made the connection and passed it to its loop. *)
ConnectionInit ==
  /\ state = "kConnecting" /\ reading = TRUE /\ events = {} /\ added = FALSE
  /\ alive = TRUE
  /\ out = <<>> /\ wire = <<>> /\ wshut = FALSE /\ owed = FALSE /\ link = "open"
  /\ peerEnded = FALSE
  /\ inMap = TRUE /\ removals = 0
  /\ at = "poll" /\ revents = {} /\ doing = <<>> /\ gripped = FALSE /\ delayed = 0
  /\ pending = <<Functor("connectEstablished")>>
  /\ has = {}
  /\ tpc = [t \in ConnThreads |-> NoCall]
  /\ left = ConnCalls
  /\ sent = [t \in ConnThreads |-> 0]
  /\ told = <<>> /\ late = {} /\ failed = {}

Connected == state = "kConnected"
Up == state \in {"kConnected", "kDisconnecting"}
Closed == "down" \in Range(told)

Require(P, site) == failed' = IF P THEN failed ELSE failed \cup {site}

-----------------------------------------------------------------------------
(* The other threads.  A thread gets the connection when it comes up.      *)

(* A functor that holds the connection is queued, or in the batch *)
HeldByFunctors(fs, grip) == grip \/ \E i \in DOMAIN fs : fs[i].what \in Holding

(* ~TcpConnection() and ~Channel() when the last pointer goes *)
Released(fs, grip, map, removing, holders) ==
  LET held == HeldByFunctors(fs, grip) \/ map \/ removing > 0 \/ holders # {}
  IN  /\ alive' = (alive /\ held)
      /\ Require(alive /\ ~held => state = "kDisconnected" /\ ~added, "~TcpConnection")

(* A thread lets go of its pointer; earlier, the server's map holds it.    *)
DropPointer(t) ==
  /\ t \in has /\ tpc[t] = NoCall /\ Closed
  /\ has' = has \ {t}
  /\ Released(pending \o doing, gripped, inMap, removals, has')
  /\ UNCHANGED <<state, channelVars, outVars, peerEnded, serverPart, loopPart, tpc, left, sent, told, late>>

(* The states in which a call goes on *)
Passes(op) == IF op \in {"send", "shutdown"} THEN Connected ELSE Up

(* The test of state_.  No two threads call shutdown() at a time. *)
CallStarts(t, op) ==
  /\ t \in has /\ tpc[t] = NoCall /\ left > 0
  /\ Passes(op)
  /\ op = "shutdown" => \A u \in ConnThreads : tpc[u].op # "shutdown"
  /\ left' = left - 1
  /\ tpc' = [tpc EXCEPT ![t] = [op |-> op, step |-> IF op = "send" THEN "queue" ELSE "set"]]
  /\ UNCHANGED <<state, channelVars, alive, outVars, peerEnded, serverPart, loopPart, has, sent, told, late, failed>>

(* setState(kDisconnecting), whatever state_ has become since the test *)
CallSetsState(t) ==
  /\ tpc[t].step = "set"
  /\ state' = "kDisconnecting"
  /\ late' = IF Closed THEN late \cup {tpc[t].op} ELSE late
  /\ tpc' = [tpc EXCEPT ![t].step = "queue"]
  /\ UNCHANGED <<channelVars, alive, outVars, peerEnded, serverPart, loopPart, has, left, sent, told, failed>>

Message(t, k) == [i \in 1..MessageUnits |-> <<t, k, i>>]

(* runInLoop() and queueInLoop() from another thread *)
Queue(what, msg) == pending' = Append(pending, [what |-> what, msg |-> msg, late |-> ~inMap])

CallQueues(t) ==
  /\ tpc[t].step = "queue"
  /\ CASE tpc[t].op = "send" -> Queue("sendInLoop", Message(t, sent[t] + 1)) /\ UNCHANGED delayed
       [] tpc[t].op = "shutdown" -> Queue("shutdownInLoop", <<>>) /\ UNCHANGED delayed
       [] tpc[t].op = "forceClose" -> Queue("forceCloseInLoop", <<>>) /\ UNCHANGED delayed
       [] OTHER -> delayed' = delayed + 1 /\ UNCHANGED pending
  /\ sent' = [sent EXCEPT ![t] = IF tpc[t].op = "send" THEN @ + 1 ELSE @]
  /\ tpc' = [tpc EXCEPT ![t] = NoCall]
  /\ UNCHANGED <<state, channelVars, alive, outVars, peerEnded, serverPart, at, revents, doing, gripped,
                 has, left, told, late, failed>>

(* startRead() and stopRead() *)
CallReading(t, what) ==
  /\ t \in has /\ tpc[t] = NoCall /\ left > 0
  /\ left' = left - 1
  /\ Queue(what, <<>>)
  /\ UNCHANGED <<state, channelVars, alive, outVars, peerEnded, serverPart, at, revents, doing, gripped, delayed,
                 has, tpc, sent, told, late, failed>>

PeerFinishes ==
  /\ ~peerEnded /\ alive
  /\ peerEnded' = TRUE
  /\ UNCHANGED <<state, channelVars, alive, outVars, serverPart, loopPart, threadPart, told, late, failed>>

(* The peer reads what fills the kernel's buffers; it need not. *)
PeerReads ==
  /\ link = "full" /\ alive
  /\ link' = "open"
  /\ UNCHANGED <<state, channelVars, alive, out, wire, wshut, owed, peerEnded, serverPart, loopPart,
                 threadPart, told, late, failed>>

(* ... which also ends its stream. *)
PeerResets ==
  /\ link # "reset" /\ alive
  /\ link' = "reset" /\ peerEnded' = TRUE
  /\ UNCHANGED <<state, channelVars, alive, out, wire, wshut, owed, serverPart, loopPart,
                 threadPart, told, late, failed>>

-----------------------------------------------------------------------------
(* The loop of the connection                                              *)

(* What poll() reports of the connection's channel.  (A read of a reset    *)
(* connection that fails is logged, and the next one finds the end.)       *)
ChannelEvents ==
  {e \in {"in", "out", "hup"} : \/ e = "in" /\ "read" \in events /\ peerEnded
                                \/ e = "out" /\ "write" \in events /\ link # "full"
                                \/ e = "hup" /\ events # {} /\ peerEnded /\ (wshut \/ link = "reset")}

PollConnection ==
  /\ at = "poll"
  /\ ChannelEvents # {} \/ pending # <<>> \/ delayed > 0
  /\ at' = "dispatch"
  /\ revents' = ChannelEvents
  /\ UNCHANGED <<state, channelVars, alive, outVars, peerEnded, serverPart, pending, doing, gripped, delayed,
                 threadPart, told, late, failed>>

(* handleClose(): the channel, the connection callback, and the close      *)
(* callback, which queues removeConnectionInLoop() in the server's loop    *)
HandleClose ==
  /\ Require(Up, "handleClose")
  /\ state' = "kDisconnected"
  /\ events' = {} /\ added' = TRUE
  /\ told' = Append(told, "down")
  /\ removals' = removals + 1
  /\ UNCHANGED <<reading, alive, outVars, peerEnded, inMap, threadPart, late>>

(* POLLHUP without POLLIN, or a read of the end of the stream *)
ChannelCloses ==
  /\ at = "dispatch"
  /\ revents \cap {"in", "hup"} # {}
  /\ revents' = revents \ {"in", "hup"}
  /\ HandleClose
  /\ UNCHANGED <<at, pending, doing, gripped, delayed>>

(* shutdownInLoop() *)
ShutdownNow(evts) == wshut' = (wshut \/ "write" \notin evts)

Written(fs) == Append(fs, Functor("writeComplete"))

(* handleWrite() shuts what shutdown() could not shut yet *)
ShutsAfterWrite == state = "kDisconnecting"

(* A write() that takes a part has filled the kernel's buffers. *)
Fills(rest) == link' = IF rest > 0 THEN "full" ELSE link

(* handleWrite(): a write() that fails is logged, and the output stays. *)
ChannelWrites ==
  /\ at = "dispatch"
  /\ revents = {"out"}
  /\ revents' = {}
  /\ IF "write" \in events /\ link # "reset"
     THEN \E n \in 1..Len(out) :
            /\ wire' = wire \o SubSeq(out, 1, n)
            /\ out' = SubSeq(out, n + 1, Len(out))
            /\ events' = IF n = Len(out) THEN events \ {"write"} ELSE events
            /\ pending' = IF n = Len(out) THEN Written(pending) ELSE pending
            /\ IF n = Len(out) /\ ShutsAfterWrite THEN ShutdownNow(events') ELSE UNCHANGED wshut
            /\ owed' = TRUE
            /\ Fills(Len(out) - n)
     ELSE UNCHANGED <<events, outVars, pending>>
  /\ UNCHANGED <<state, reading, added, alive, peerEnded, serverPart, at, doing, gripped, delayed,
                 threadPart, told, late, failed>>

(* The timer of forceCloseWithDelay() holds a weak pointer and calls       *)
(* forceClose() in the loop.                                               *)
DelayExpires ==
  /\ at = "dispatch"
  /\ delayed > 0
  /\ delayed' = delayed - 1
  /\ IF alive /\ Up
     THEN state' = "kDisconnecting" /\ pending' = Append(pending, Functor("forceCloseInLoop"))
     ELSE UNCHANGED <<state, pending>>
  /\ UNCHANGED <<channelVars, alive, outVars, peerEnded, serverPart, at, revents, doing, gripped,
                 threadPart, told, late, failed>>

StartFunctors ==
  /\ at = "dispatch" /\ revents = {}
  /\ at' = "batch"
  /\ doing' = pending /\ pending' = <<>>
  /\ gripped' = HeldByFunctors(pending, FALSE)
  /\ UNCHANGED <<state, channelVars, alive, outVars, peerEnded, serverPart, revents, delayed,
                 threadPart, told, late, failed>>

-----------------------------------------------------------------------------
(* The functors, one at a time.  Closed here means that the functor runs   *)
(* after the connection went down.                                         *)

Runs(what) == at = "batch" /\ doing # <<>> /\ Head(doing).what = what

(* A functor that holds `this` finds the object *)
RunsAlive(what) == Runs(what) /\ alive

NextFunctor == /\ doing' = Tail(doing)
               /\ UNCHANGED <<alive, peerEnded, at, revents, gripped, delayed, tpc, left, sent>>

(* ... or it does not. *)
RunDangling ==
  /\ at = "batch" /\ doing # <<>> /\ ~alive
  /\ failed' = failed \cup {IF Head(doing).late THEN "late call" ELSE "dangling"}
  /\ late' = IF Head(doing).late THEN late \cup {Head(doing).what} ELSE late
  /\ NextFunctor
  /\ UNCHANGED <<state, channelVars, outVars, serverPart, pending, has, told>>

ConnectEstablished ==
  /\ RunsAlive("connectEstablished")
  /\ Require(state = "kConnecting", "connectEstablished")
  /\ state' = "kConnected"
  /\ events' = {"read"} /\ added' = TRUE
  /\ told' = Append(told, "up")
  /\ has' = ConnThreads
  /\ NextFunctor
  /\ UNCHANGED <<reading, outVars, serverPart, pending, late>>

(* Mutant: writes at once, although output waits *)
DirectAlways == TRUE

(* What write() takes at once: nothing while output waits or the kernel's  *)
(* buffers are full, nothing and a fault (EPIPE, ECONNRESET) after         *)
(* shutdownWrite() or a reset, or some of it                               *)
Direct == "write" \notin events /\ out = <<>>

HighWater(rest) == Len(out) + rest >= HighWaterMark /\ Len(out) < HighWaterMark

SendInLoop ==
  LET msg == Head(doing).msg IN
  /\ RunsAlive("sendInLoop")
  /\ NextFunctor
  /\ IF state = "kDisconnected" \/ (Direct /\ (wshut \/ link = "reset"))
     THEN UNCHANGED <<events, added, outVars, pending>>
     ELSE \E n \in IF Direct /\ link = "open" THEN 0..Len(msg) ELSE {0} :
            LET rest == Len(msg) - n IN
            /\ wire' = wire \o SubSeq(msg, 1, n)
            /\ out' = out \o SubSeq(msg, n + 1, Len(msg))
            /\ events' = IF rest > 0 THEN events \cup {"write"} ELSE events
            /\ added' = (added \/ rest > 0)
            /\ pending' = CASE rest = 0 -> Append(pending, Functor("writeComplete"))
                            [] rest > 0 /\ HighWater(rest) -> Append(pending, Functor("highWater"))
                            [] OTHER -> pending
            /\ owed' = (owed \/ n > 0)
            /\ IF Direct THEN Fills(rest) ELSE UNCHANGED link
            /\ UNCHANGED wshut
  /\ UNCHANGED <<state, reading, serverPart, has, told, late, failed>>

ShutdownInLoop ==
  /\ RunsAlive("shutdownInLoop")
  /\ ShutdownNow(events)
  /\ NextFunctor
  /\ UNCHANGED <<state, channelVars, out, wire, owed, link, serverPart, pending, has, told, late, failed>>

ForceCloseInLoop ==
  /\ RunsAlive("forceCloseInLoop")
  /\ IF Up THEN HandleClose
     ELSE UNCHANGED <<state, channelVars, outVars, serverPart, has, told, late, failed>>
  /\ NextFunctor
  /\ UNCHANGED pending

(* startReadInLoop() and stopReadInLoop() test no state. *)
StartReadInLoop ==
  /\ RunsAlive("startReadInLoop")
  /\ IF ~reading \/ "read" \notin events
     THEN /\ events' = events \cup {"read"} /\ added' = TRUE /\ reading' = TRUE
          /\ late' = IF Closed THEN late \cup {"startRead"} ELSE late
     ELSE UNCHANGED <<channelVars, late>>
  /\ NextFunctor
  /\ UNCHANGED <<state, outVars, serverPart, pending, has, told, failed>>

StopReadInLoop ==
  /\ RunsAlive("stopReadInLoop")
  /\ IF reading \/ "read" \in events
     THEN /\ events' = events \ {"read"} /\ added' = TRUE /\ reading' = FALSE
          /\ late' = IF Closed THEN late \cup {"stopRead"} ELSE late
     ELSE UNCHANGED <<channelVars, late>>
  /\ NextFunctor
  /\ UNCHANGED <<state, outVars, serverPart, pending, has, told, failed>>

(* writeCompleteCallback_ and highWaterMarkCallback_ *)
RunCallback ==
  /\ RunsAlive("writeComplete") \/ RunsAlive("highWater")
  /\ owed' = (owed /\ Head(doing).what # "writeComplete")
  /\ NextFunctor
  /\ UNCHANGED <<state, channelVars, out, wire, wshut, link, serverPart, pending, has, told, late, failed>>

ConnectDestroyed ==
  /\ RunsAlive("connectDestroyed")
  /\ IF Connected
     THEN state' = "kDisconnected" /\ events' = {} /\ told' = Append(told, "down")
     ELSE UNCHANGED <<state, events, told>>
  /\ Require(events' = {}, "Channel::remove")
  /\ added' = FALSE
  /\ NextFunctor
  /\ UNCHANGED <<reading, outVars, serverPart, pending, has, late>>

(* The vector of functors is destroyed when all have run. *)
EndBatch ==
  /\ at = "batch" /\ doing = <<>>
  /\ at' = "poll" /\ gripped' = FALSE
  /\ Released(pending, FALSE, inMap, removals, has)
  /\ UNCHANGED <<state, channelVars, outVars, peerEnded, serverPart, revents, pending, doing, delayed,
                 threadPart, told, late>>

-----------------------------------------------------------------------------
(* Mutant: connectDestroyed() is called at once, as with a single loop *)
RemoveConnectionAtOnce ==
  /\ removals > 0
  /\ removals' = removals - 1
  /\ inMap' = FALSE
  /\ added' = FALSE
  /\ Released(pending \o doing, gripped, FALSE, removals', has)
  /\ UNCHANGED <<state, reading, events, outVars, peerEnded, loopPart, threadPart, told, late>>

(* TcpServer::removeConnectionInLoop(), in the server's loop *)
RemoveConnectionInLoop ==
  /\ removals > 0
  /\ removals' = removals - 1
  /\ Require(inMap, "removeConnectionInLoop")
  /\ inMap' = FALSE
  /\ pending' = Append(pending, Functor("connectDestroyed"))
  /\ UNCHANGED <<state, channelVars, alive, outVars, peerEnded, at, revents, doing, gripped, delayed,
                 threadPart, told, late>>

LoopStep ==
  \/ PollConnection \/ ChannelCloses \/ ChannelWrites \/ StartFunctors \/ RunDangling
  \/ ConnectEstablished \/ SendInLoop \/ ShutdownInLoop \/ ForceCloseInLoop
  \/ StartReadInLoop \/ StopReadInLoop \/ RunCallback \/ ConnectDestroyed \/ EndBatch

ConnectionNext ==
  /\ failed = {}
  /\ \/ LoopStep
     \/ DelayExpires
     \/ RemoveConnectionInLoop
     \/ PeerFinishes \/ PeerReads \/ PeerResets
     \/ \E t \in ConnThreads :
          \/ \E op \in {"send", "shutdown", "forceClose", "forceCloseWithDelay"} : CallStarts(t, op)
          \/ \E what \in {"startReadInLoop", "stopReadInLoop"} : CallReading(t, what)
          \/ CallSetsState(t) \/ CallQueues(t) \/ DropPointer(t)

ConnectionSpec == ConnectionInit /\ [][ConnectionNext]_connectionVars

-----------------------------------------------------------------------------
(* As long as no call of another thread was overtaken by the close of the  *)
(* connection (it tested state_ before and set it after, or it changes the *)
(* channel of a connection that is down), none of the assertions of        *)
(* TcpConnection, Channel and TcpServer fails, and connectionCallback_     *)
(* hears of the connection once when it is up and once when it is down.    *)
AssertionsHold ==
  late = {} => failed = {} /\ told \in {<<>>, <<"up">>, <<"up", "down">>}

(* A functor that holds a raw `this` and was queued while the server still *)
(* had the connection runs before the connection is destroyed.             *)
RawFunctorsLive == "dangling" \notin failed

(* The life of a connection whose loop, server and callers are different   *)
(* threads: unless the close overtook a call, no assertion fails; and no   *)
(* functor with a raw pointer that was queued in time finds it destroyed.  *)
ConnectionSound == AssertionsHold /\ RawFunctorsLive

(* What send() took from each thread goes out whole, in order and without  *)
(* a gap: a close or shutdown loses messages at the end only.              *)
WireInOrder ==
  LET all == wire \o out
      FirstUnits(t, n) == {k \in 1..n : all[k][1] = t /\ all[k][3] = 1}
  IN  late = {} => \A i \in DOMAIN all :
        LET t == all[i][1]  m == all[i][2]  u == all[i][3] IN
        /\ IF u > 1 THEN i > 1 /\ all[i - 1] = <<t, m, u - 1>>
                    ELSE {all[k][2] : k \in FirstUnits(t, i - 1)} = 1..m - 1
        /\ u < MessageUnits => i < Len(all) /\ all[i + 1] = <<t, m, u + 1>>

(* The write side of a connection that is not down is shut only when       *)
(* everything sendInLoop() took has been written.                          *)
ShutAfterOutput == wshut => out = <<>> \/ Closed

(* When all output is written, writeCompleteCallback_ is on its way. *)
WriteCompleteFollows ==
  owed /\ out = <<>> => \E i \in DOMAIN (doing \o pending) : (doing \o pending)[i].what = "writeComplete"

(* Messages of several threads that the kernel takes in parts go out whole *)
(* and in order, the write side is shut behind them and not before, and    *)
(* writeCompleteCallback_ follows the last of them.                        *)
OutputSound == WireInOrder /\ ShutAfterOutput /\ WriteCompleteFollows

(* forceClose() that goes through takes the connection down, also when the *)
(* peer never reads the output or shutdown() came first.                   *)
ForceCloseEnds ==
  (\E i \in DOMAIN pending : pending[i].what = "forceCloseInLoop") ~> (Closed \/ failed # {})

(* The peer reads again whenever it let the kernel's buffers fill. *)
PeerKeepsReading == []<>(link # "full")

(* With a peer that keeps reading, the output drains and shutdown() shuts  *)
(* the write side behind it, unless the connection goes down first.        *)
ShutdownEnds ==
  PeerKeepsReading
    => ((\E i \in DOMAIN pending : pending[i].what = "shutdownInLoop") ~> (wshut \/ Closed \/ failed # {}))

(* A connection that is down and that nobody else holds is destroyed: its  *)
(* descriptor is given back.                                               *)
DownIsDestroyed == (Closed /\ has = {}) ~> (~alive \/ failed # {})
=============================================================================
