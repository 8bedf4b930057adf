------------------------------- MODULE Poller -------------------------------
(***************************************************************************)
(* muduo::net::Poller with its two implementations, EPollPoller and        *)
(* PollPoller, and the Channels of one loop.  The kernel's half of epoll   *)
(* is modelled from epoll_ctl(2) and epoll_wait(2).  Readiness is level    *)
(* triggered: "in" is reported to who asks for it, "hup" to everyone who   *)
(* is registered.                                                          *)
(*                                                                         *)
(* Owners create a Channel for a descriptor of their own, enable something *)
(* before anything else, call disableAll() and remove() before they close  *)
(* the descriptor, and remove a channel that is reported only from its own *)
(* callback; ~Channel() asserts that it is not in the loop.  An owner may  *)
(* also enable a channel again after remove(): EPollPoller has reset its   *)
(* index, PollPoller has not, takes it for registered and aborts.          *)
(***************************************************************************)
EXTENDS Integers, Sequences, FiniteSets, SequencesExt

CONSTANTS Channels,   \* addresses of Channel objects
          ChannelFds, \* bound: file descriptors, 0 among them
          InitEvents  \* kInitEventListSize

ASSUME PollerAssumption == /\ ChannelFds \subseteq Nat /\ IsFiniteSet(ChannelFds)
                           /\ 0 \notin Channels
                           /\ InitEvents \in Nat \ {0}

VARIABLES kind,      \* which poller newDefaultPoller() made
          chan,      \* the Channel objects
          map,       \* channels_
          kernel,    \* the interest list of epoll: events and data.ptr by descriptor
          pollfds,   \* pollfds_
          room,      \* events_.size()
          ready,     \* what each descriptor is ready for
          reported,  \* the part of activeChannels_ still to be handled
          current,   \* currentActiveChannel_
          broken     \* an assertion failed, or epoll_ctl() did: the process has aborted

NoChannel == 0
kNew == -1
kAdded == 1
kDeleted == 2

(* added is addedToLoop_; removed is history: remove() was called. *)
Dead == [fd |-> -1, events |-> {}, index |-> kNew, added |-> FALSE, removed |-> FALSE]
Absent == [events |-> {}, ptr |-> NoChannel]

tableVars == <<map, kernel, pollfds, broken>>
pollerVars == <<kind, chan, tableVars, room, ready, reported, current>>

PollerInit ==
  /\ kind \in {"epoll", "poll"}
  /\ chan = [c \in Channels |-> Dead]
  /\ map = [f \in ChannelFds |-> NoChannel]
  /\ kernel = [f \in ChannelFds |-> Absent]
  /\ pollfds = <<>>
  /\ room = InitEvents
  /\ ready = [f \in ChannelFds |-> {}]
  /\ reported = <<>> /\ current = NoChannel
  /\ broken = FALSE

Alive(c) == chan[c].fd # -1

-----------------------------------------------------------------------------
(* EPollPoller *)

(* update(): epoll_ctl().  ADD of a descriptor that is there, MOD and DEL  *)
(* of one that is not, fail.                                               *)
EpollCtl(op, ch, c, failed) ==
  /\ kernel' = [kernel EXCEPT ![ch.fd] =
                  IF op = "DEL" THEN Absent ELSE [events |-> ch.events, ptr |-> c]]
  /\ broken' = (broken \/ failed \/ (op = "ADD") # (kernel[ch.fd] = Absent))

(* updateChannel() of channel c, whose fields are now ch *)
EPollUpdate(c, ch) ==
  \/ /\ ch.index \in {kNew, kDeleted}
     /\ map' = [map EXCEPT ![ch.fd] = c]
     /\ chan' = [chan EXCEPT ![c] = [ch EXCEPT !.index = kAdded]]
     /\ EpollCtl("ADD", ch, c, map[ch.fd] # IF ch.index = kNew THEN NoChannel ELSE c)
  \/ /\ ch.index = kAdded
     /\ \/ /\ ch.events = {}
           /\ EpollCtl("DEL", ch, c, map[ch.fd] # c)
           /\ chan' = [chan EXCEPT ![c] = [ch EXCEPT !.index = kDeleted]]
        \/ /\ ch.events # {}
           /\ EpollCtl("MOD", ch, c, map[ch.fd] # c)
           /\ chan' = [chan EXCEPT ![c] = ch]
     /\ UNCHANGED map

(* removeChannel() *)
EPollRemove(c, ch) ==
  /\ map' = [map EXCEPT ![ch.fd] = NoChannel]
  /\ chan' = [chan EXCEPT ![c] = [ch EXCEPT !.index = kNew]]
  /\ \/ ch.index = kAdded /\ EpollCtl("DEL", ch, c, map[ch.fd] # c)
     \/ /\ ch.index # kAdded
        /\ broken' = (broken \/ map[ch.fd] # c \/ ch.index # kDeleted)
        /\ UNCHANGED kernel

-----------------------------------------------------------------------------
(* PollPoller.  pollfds_ is numbered from 0 in index_ and from 1 here.     *)

Ignored(f) == -f - 1
PollFd(f, events) == [fd |-> f, events |-> events]

(* updateChannel() *)
PollUpdate(c, ch) ==
  \/ /\ ch.index < 0
     /\ pollfds' = Append(pollfds, PollFd(ch.fd, ch.events))
     /\ chan' = [chan EXCEPT ![c] = [ch EXCEPT !.index = Len(pollfds)]]
     /\ map' = [map EXCEPT ![ch.fd] = c]
     /\ broken' = (broken \/ map[ch.fd] # NoChannel)
  \/ /\ ch.index >= 0 /\ map[ch.fd] = c
     /\ pollfds' = [pollfds EXCEPT ![ch.index + 1] =
                      PollFd(IF ch.events = {} THEN Ignored(ch.fd) ELSE ch.fd, ch.events)]
     /\ chan' = [chan EXCEPT ![c] = ch]
     /\ broken' = (broken \/ pollfds[ch.index + 1].fd \notin {ch.fd, Ignored(ch.fd)})
     /\ UNCHANGED map
  \/ /\ ch.index >= 0 /\ map[ch.fd] # c   \* "update existing one" of one that is not there
     /\ broken' = TRUE
     /\ chan' = [chan EXCEPT ![c] = ch]
     /\ UNCHANGED <<map, pollfds>>

(* Mutant: the channel that takes the place keeps its old index. *)
PollRemoveKeepsIndex(c, ch) ==
  /\ map' = [map EXCEPT ![ch.fd] = NoChannel]
  /\ broken' = (broken \/ map[ch.fd] # c)
  /\ pollfds' = Front([pollfds EXCEPT ![ch.index + 1] = Last(pollfds)])
  /\ chan' = [chan EXCEPT ![c] = ch]

(* removeChannel(): the last entry takes the place of the removed one.     *)
(* The removed channel keeps its index.                                    *)
PollRemove(c, ch) ==
  LET last == Last(pollfds).fd
      moved == map[IF last < 0 THEN Ignored(last) ELSE last]
  IN  /\ map' = [map EXCEPT ![ch.fd] = NoChannel]
      /\ broken' = (broken \/ map[ch.fd] # c
                           \/ pollfds[ch.index + 1] # PollFd(Ignored(ch.fd), ch.events))
      /\ pollfds' = Front([pollfds EXCEPT ![ch.index + 1] = Last(pollfds)])
      /\ chan' = IF ch.index + 1 = Len(pollfds)
                 THEN [chan EXCEPT ![c] = ch]
                 ELSE [chan EXCEPT ![moved].index = ch.index, ![c] = ch]

-----------------------------------------------------------------------------
(* Channel, through EventLoop::updateChannel() and removeChannel() *)

UpdateChannel(c, events) ==
  /\ LET ch == [chan[c] EXCEPT !.events = events, !.added = TRUE]
     IN  \/ kind = "epoll" /\ EPollUpdate(c, ch) /\ UNCHANGED pollfds
         \/ kind = "poll" /\ PollUpdate(c, ch) /\ UNCHANGED kernel
  /\ UNCHANGED <<kind, room, ready, reported, current>>

FreeFds == {f \in ChannelFds : \A d \in Channels : chan[d].fd # f}

(* Channel::Channel() for a descriptor just opened, the lowest free one *)
NewChannel(c, f) ==
  /\ ~Alive(c)
  /\ f \in FreeFds /\ \A g \in FreeFds : f <= g
  /\ chan' = [chan EXCEPT ![c] = [Dead EXCEPT !.fd = f]]
  /\ ready' = [ready EXCEPT ![f] = {}]
  /\ UNCHANGED <<kind, tableVars, room, reported, current>>

(* enableReading() *)
EnableReading(c) == Alive(c) /\ UpdateChannel(c, {"in"})

(* disableReading(), disableAll() *)
DisableAll(c) == /\ Alive(c)
                 /\ chan[c].added
                 /\ UpdateChannel(c, {})

(* remove(): asserts isNoneEvent(). *)
RemoveChannel(c) ==
  /\ Alive(c)
  /\ chan[c].added /\ chan[c].events = {}
  /\ current = c \/ c \notin ToSet(reported)
  /\ LET ch == [chan[c] EXCEPT !.added = FALSE, !.removed = TRUE]
     IN  \/ kind = "epoll" /\ EPollRemove(c, ch) /\ UNCHANGED pollfds
         \/ kind = "poll" /\ PollRemove(c, ch) /\ UNCHANGED kernel
  /\ UNCHANGED <<kind, room, ready, reported, current>>

(* The owner closes the descriptor and deletes the channel, in a functor.  *)
(* Closing takes the descriptor out of epoll.                              *)
DeleteChannel(c) ==
  /\ Alive(c)
  /\ ~chan[c].added
  /\ reported = <<>> /\ current = NoChannel
  /\ chan' = [chan EXCEPT ![c] = Dead]
  /\ kernel' = [kernel EXCEPT ![chan[c].fd] = Absent]
  /\ UNCHANGED <<kind, map, pollfds, broken, room, ready, reported, current>>

-----------------------------------------------------------------------------
(* EventLoop::loop() *)

FdReady(f) ==
  /\ ready[f] = {}
  /\ ready' \in {[ready EXCEPT ![f] = {"in"}], [ready EXCEPT ![f] = {"hup"}]}
  /\ UNCHANGED <<kind, chan, tableVars, room, reported, current>>

Fires(f, events) == ready[f] \cap (events \cup {"hup"}) # {}

(* events_ is doubled when epoll_wait() filled it. *)
Grown(n) == IF n = room THEN room * 2 ELSE room

(* Mutant: one event less than there is room for. *)
MaxEventsOneLess == room - 1

(* What epoll_wait() is told: events_.size(). *)
MaxEvents == room

(* EPollPoller::poll(): at most events_.size() of them, whichever and in   *)
(* whichever order.                                                        *)
EPollPoll ==
  LET fired == {f \in ChannelFds : kernel[f] # Absent /\ Fires(f, kernel[f].events)}
      n == IF Cardinality(fired) < MaxEvents THEN Cardinality(fired) ELSE MaxEvents
  IN  /\ kind = "epoll"
      /\ n > 0
      /\ \E fs \in Injection(1..n, fired) : reported' = [i \in 1..n |-> kernel[fs[i]].ptr]
      /\ room' = Grown(n)

(* PollPoller::poll(): in the order of pollfds_. *)
PollPoll ==
  LET fired == {i \in DOMAIN pollfds : pollfds[i].fd >= 0 /\ Fires(pollfds[i].fd, pollfds[i].events)}
      n == Cardinality(fired)
  IN  /\ kind = "poll"
      /\ n > 0
      /\ \E is \in [1..n -> fired] : /\ \A i, j \in 1..n : i < j => is[i] < is[j]
                                    /\ reported' = [i \in 1..n |-> map[pollfds[is[i]].fd]]
      /\ UNCHANGED room

(* fillActiveChannels() asserts that channels_ knows the channel. *)
Poll ==
  /\ reported = <<>> /\ current = NoChannel
  /\ EPollPoll \/ PollPoll
  /\ UNCHANGED <<kind, chan, tableVars, ready, current>>

(* handleEvent(): the callback reads what is there. *)
HandleEvent ==
  /\ reported # <<>>
  /\ current' = Head(reported)
  /\ reported' = Tail(reported)
  /\ ready' = [ready EXCEPT ![chan[current'].fd] = @ \ {"in"}]
  /\ UNCHANGED <<kind, chan, tableVars, room>>

EndDispatch ==
  /\ reported = <<>> /\ current # NoChannel
  /\ current' = NoChannel
  /\ UNCHANGED <<kind, chan, tableVars, room, ready, reported>>

PollerNext ==
  /\ ~broken
  /\ \/ Poll \/ HandleEvent \/ EndDispatch
     \/ \E c \in Channels : \/ \E f \in ChannelFds : NewChannel(c, f)
                            \/ EnableReading(c) \/ DisableAll(c) \/ RemoveChannel(c) \/ DeleteChannel(c)
     \/ \E f \in ChannelFds : FdReady(f)

PollerSpec == PollerInit /\ [][PollerNext]_pollerVars

-----------------------------------------------------------------------------
(* enableReading() after remove(), with poll() *)
Reopened(c) == kind = "poll" /\ Alive(c) /\ chan[c].removed /\ chan[c].added

(* An assertion of the pollers fails exactly when a channel of PollPoller  *)
(* is enabled again after remove() (assert of PollPoller.cc:95); no other  *)
(* does, no epoll_ctl() does, whatever descriptors and addresses are used  *)
(* again, and no channel is reported after its owner deleted it.           *)
NoPollerFailure ==
  /\ broken <=> \E c \in Channels : Reopened(c)
  /\ \A c \in ToSet(reported) \cup {current} : c = NoChannel \/ Alive(c)

(* channels_, index_ and what the kernel is asked to watch agree: each     *)
(* registered channel is found at its index with its own events, through   *)
(* the moves of pollfds_ and the DEL and ADD of epoll.                     *)
TablesAgree ==
  /\ \A c \in Channels : Alive(c) /\ ~Reopened(c) => (chan[c].added <=> map[chan[c].fd] = c)
  /\ kind = "epoll" =>
       \A f \in ChannelFds :
         kernel[f] = IF map[f] # NoChannel /\ chan[map[f]].index = kAdded
                     THEN [events |-> chan[map[f]].events, ptr |-> map[f]] ELSE Absent
  /\ kind = "poll" =>
       /\ Len(pollfds) = Cardinality({f \in ChannelFds : map[f] # NoChannel})
       /\ \A f \in ChannelFds : map[f] # NoChannel =>
            \E i \in DOMAIN pollfds :
              /\ i = chan[map[f]].index + 1
              /\ pollfds[i].fd \in {f, Ignored(f)}
              /\ pollfds[i].events = chan[map[f]].events

(* A channel that asks for events is watched for them: none is left in the *)
(* state of a channel that was disabled.                                   *)
InterestKept ==
  \A c \in Channels : chan[c].events # {} /\ ~Reopened(c) =>
    \/ kind = "epoll" /\ chan[c].index = kAdded
    \/ kind = "poll" /\ \E i \in DOMAIN pollfds : i = chan[c].index + 1 /\ pollfds[i].fd = chan[c].fd

(* The three records of a channel, its index, the poller's tables and the  *)
(* kernel's interest set, agree through every disableAll(), remove() and   *)
(* reuse of a descriptor, and no epoll_ctl() or assertion fails but the    *)
(* one about a channel that comes back to PollPoller.                      *)
PollerSound == NoPollerFailure /\ TablesAgree /\ InterestKept

(* No ready channel starves, however many are ready and whichever of them  *)
(* epoll_wait() prefers: the event list grows until all fit.  Unless the   *)
(* process has aborted.                                                    *)
ReadyIsHandled ==
  \A c \in Channels : ~<>[](~broken /\ chan[c].events # {} /\ "in" \in ready[chan[c].fd])
=============================================================================
