------------------------------- MODULE MCNet -------------------------------
(***************************************************************************)
(* The parts of net that live in one event loop, checked side by side:     *)
(* timers, the client's connector, the pollers, and a connection with its  *)
(* other threads.  They share no variable; each behaviour exercises one.   *)
(***************************************************************************)
EXTENDS TimerQueue, TcpClient, Poller, TcpConnection

VARIABLE part

netVars == <<timerVars, clientVars, pollerVars, connectionVars, part>>

NetInit == /\ part \in {"timers", "client", "poller", "connection"}
           /\ TimerInit /\ ClientInit /\ PollerInit /\ ConnectionInit
           /\ part # "client" => ~client.retry
           /\ part # "poller" => kind = "epoll"

OnlyTimers == part = "timers" /\ UNCHANGED <<clientVars, pollerVars, connectionVars, part>>
OnlyClient == part = "client" /\ UNCHANGED <<timerVars, pollerVars, connectionVars, part>>
OnlyPoller == part = "poller" /\ UNCHANGED <<timerVars, clientVars, connectionVars, part>>
OnlyConnection == part = "connection" /\ failed = {} /\ UNCHANGED <<timerVars, clientVars, pollerVars, part>>

NetNext == \/ OnlyTimers /\ TimerNext
           \/ OnlyClient /\ ClientNext
           \/ OnlyPoller /\ PollerNext
           \/ OnlyConnection /\ ConnectionNext

(* The loop thread polls, runs what it polled and then its functors, again *)
(* and again, and the clock goes on.  A call that another thread has begun *)
(* goes on, and so does the server's loop.  Of the peers and of the timers *)
(* of the client and of forceCloseWithDelay() nothing is assumed.          *)
NetFairness ==
  /\ WF_timerVars(OnlyTimers /\ RunCall)
  /\ WF_timerVars(OnlyTimers /\ (HandleTimerfd \/ RunTimer \/ Reset))
  /\ WF_timerVars(OnlyTimers /\ TimerTick)
  /\ WF_clientVars(OnlyClient /\ (TakeFunctors \/ RunFunctor \/ EndFunctors))
  /\ WF_clientVars(OnlyClient /\ Restart)
  /\ WF_pollerVars(OnlyPoller /\ (Poll \/ HandleEvent \/ EndDispatch))
  /\ WF_connectionVars(OnlyConnection /\ LoopStep)
  /\ WF_connectionVars(OnlyConnection /\ RemoveConnectionInLoop)
  /\ \A t \in ConnThreads : WF_connectionVars(OnlyConnection /\ (CallSetsState(t) \/ CallQueues(t)))

NetSpec == NetInit /\ [][NetNext]_netVars /\ NetFairness

-----------------------------------------------------------------------------
(* What was asked for comes: timers run, stop() closes the socket of an    *)
(* attempt, ready channels are handled however many there are, forceClose  *)
(* and the close of a connection take their effect whatever the peer does, *)
(* and shutdown() does when the peer keeps reading.                        *)
NetLive == /\ TimersRun /\ StopEnds /\ ReadyIsHandled
           /\ ForceCloseEnds /\ ShutdownEnds /\ DownIsDestroyed
=============================================================================
