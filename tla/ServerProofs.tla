---------------------------- MODULE ServerProofs ----------------------------
(***************************************************************************)
(* Proofs about TcpServer and IMServer, for any numbers of connections and *)
(* descriptors: the order in which closes, queued functors and the events  *)
(* of one poll() meet does no harm, and the sessions follow the            *)
(* connections although their names are overwritten.                       *)
(***************************************************************************)
EXTENDS IMServer, SequenceTheorems, FiniteSetTheorems, TLAPS

ConnState == {"none", "kConnected", "kDisconnecting", "kDisconnected", "dead"}
ConnRecord == [state : ConnState, name : {<<>>} \cup {CallbackName(c) : c \in ConnIds},
               events : SUBSET {"read", "write"}, added : BOOLEAN, fd : Nat,
               out : 0..MaxOutput, wshut : BOOLEAN]
EventSet == SUBSET {"in", "out", "hup"}
Destroy(c) == <<"connectDestroyed", c>>
Tasks == Range(pending) \cup Range(batch)

ServerTypeOK == /\ nextConnId \in 1..MaxConns + 1
                /\ conn \in [ConnIds -> ConnRecord]
                /\ lpc \in {"poll", "dispatch", "channel", "callback", "batch"}
                /\ active \in SUBSET [id : ConnIds, ev : EventSet]
                /\ cur \in [id : 0..MaxConns, ev : EventSet]
                /\ pending \in Seq(TaskSet)
                /\ batch \in Seq(TaskSet)
                /\ held \in SUBSET ConnIds
                /\ lpc # "batch" => batch = <<>> /\ held = {}

(* Of one connection: its number, its channel, its output, its name and    *)
(* its entry in connections_, and the connectDestroyed() it waits for.     *)
ConnOK(c) == /\ conn[c].state = "none" <=> c >= nextConnId
             /\ conn[c].events # {} => Up(c)
             /\ "write" \in conn[c].events <=> conn[c].out > 0 /\ Up(c)
             /\ conn[c].wshut => conn[c].out = 0 /\ conn[c].state # "kConnected"
             /\ conn[c].state # "none" => conn[c].name = CallbackName(c)
             /\ Up(c) => conn[c].added /\ <<ConnName(c), c>> \in connections
             /\ conn[c].added => Alive(c)
             /\ conn[c].added /\ conn[c].state = "kDisconnected" => Destroy(c) \in Tasks
             /\ IF Alive(c) THEN conn[c].fd \in Fds ELSE conn[c].fd = 0

FdsDistinct == \A c, d \in ConnIds : Alive(c) /\ Alive(d) /\ conn[c].fd = conn[d].fd => c = d

(* No channel of the snapshot is closed before its turn, and the one being *)
(* dispatched is closed only by its own last event.                        *)
DispatchOK == /\ lpc \in {"dispatch", "channel", "callback"} => \A a \in active : Up(a.id)
              /\ \A a, b \in active : a.id = b.id => a = b
              /\ lpc \in {"channel", "callback"} =>
                   /\ cur.id \in ConnIds /\ Alive(cur.id)
                   /\ \A a \in active : a.id # cur.id
                   /\ lpc = "callback" \/ cur.ev \cap {"in", "hup"} # {} => Up(cur.id)

Once(s, t) == \A i, j \in DOMAIN s : s[i] = t /\ s[j] = t => i = j

(* Functors refer to connections that are alive, and a connection waits    *)
(* for connectDestroyed() once, after handleClose().                       *)
TasksOK == /\ \A t \in Tasks : Alive(t[2])
           /\ \A c \in held : Alive(c)
           /\ \A c \in ConnIds : Destroy(c) \in Tasks => conn[c].state = "kDisconnected" /\ conn[c].added
           /\ \A c \in ConnIds : ~(Destroy(c) \in Range(pending) /\ Destroy(c) \in Range(batch))
           /\ \A c \in ConnIds : Once(pending, Destroy(c)) /\ Once(batch, Destroy(c))

ServerInv == /\ ServerTypeOK
             /\ \A c \in ConnIds : ConnOK(c)
             /\ FdsDistinct /\ DispatchOK /\ TasksOK

(* What one step may do to a connection's state. *)
UpStates == {"kConnected", "kDisconnecting"}
Legal(c) == \/ conn'[c].state = conn[c].state
            \/ conn[c].state = "none" /\ conn'[c].state = "kConnected"
            \/ conn[c].state \in UpStates /\ conn'[c].state \in UpStates \cup {"kDisconnected"}
            \/ conn[c].state = "kDisconnected" /\ conn'[c].state = "dead"

(* ... and to connections_ and the assertions, as connections come up and  *)
(* go down.                                                                *)
NoneMoves == /\ connections' = connections /\ failed' = failed
             /\ \A d \in ConnIds : Up(d)' <=> Up(d)
GoesDown(c) == /\ Up(c) /\ connections' = connections \ Erased(c)
               /\ Assert(Cardinality(Erased(c)) = 1, "removeConnectionInLoop")
               /\ \A d \in ConnIds : Up(d)' <=> Up(d) /\ d # c
ComesUp(c) == /\ connections' = connections \cup {<<ConnName(c), c>>} /\ failed' = failed
              /\ \A d \in ConnIds : Up(d)' <=> Up(d) \/ d = c
Tracked == NoneMoves \/ \E c \in ConnIds : GoesDown(c) \/ ComesUp(c)

Kept == /\ ServerInv'
        /\ \A c \in ConnIds : Legal(c)
        /\ Tracked

-----------------------------------------------------------------------------
(* Queues of functors. *)

LEMMA QueueGrows ==
  ASSUME NEW S, NEW s \in Seq(S), NEW x \in S
  PROVE  /\ Append(s, x) \in Seq(S)
         /\ Range(Append(s, x)) = Range(s) \cup {x}
         /\ \A t : Once(s, t) /\ (t = x => x \notin Range(s)) => Once(Append(s, x), t)
<1>1. /\ Append(s, x) \in Seq(S) /\ Len(s) \in Nat
      /\ DOMAIN s = 1..Len(s) /\ DOMAIN Append(s, x) = 1..Len(s) + 1
      /\ \A i \in 1..Len(s) : Append(s, x)[i] = s[i]
      /\ Append(s, x)[Len(s) + 1] = x
  BY AppendProperties, LenProperties
<1>2. \A i \in 1..Len(s) + 1 : i \in 1..Len(s) \/ i = Len(s) + 1
  BY <1>1
<1>3. 1..Len(s) \subseteq 1..Len(s) + 1 /\ Len(s) + 1 \in 1..Len(s) + 1
  BY <1>1
<1>4. Range(Append(s, x)) = Range(s) \cup {x}
  BY <1>1, <1>2, <1>3 DEF Range
<1>5. ASSUME NEW t, Once(s, t), t = x => x \notin Range(s) PROVE Once(Append(s, x), t)
  BY <1>1, <1>2, <1>5 DEF Once, Range
<1> QED
  BY <1>1, <1>4, <1>5

LEMMA QueueShrinks ==
  ASSUME NEW S, NEW s \in Seq(S), s # <<>>
  PROVE  /\ Tail(s) \in Seq(S) /\ Head(s) \in S /\ Head(s) \in Range(s)
         /\ Range(Tail(s)) \subseteq Range(s)
         /\ \A t \in Range(s) : t # Head(s) => t \in Range(Tail(s))
         /\ \A t : Once(s, t) => Once(Tail(s), t)
         /\ Once(s, Head(s)) => Head(s) \notin Range(Tail(s))
<1>1. /\ Tail(s) \in Seq(S) /\ Len(s) \in Nat /\ Len(s) >= 1 /\ Head(s) = s[1] /\ Head(s) \in S
      /\ DOMAIN s = 1..Len(s) /\ DOMAIN Tail(s) = 1..Len(s) - 1
      /\ \A i \in 1..Len(s) - 1 : Tail(s)[i] = s[i + 1]
  BY HeadTailProperties, LenProperties, EmptySeq
<1>2. \A i \in 1..Len(s) - 1 : i + 1 \in 1..Len(s) /\ i + 1 # 1
  BY <1>1
<1>3. 1 \in 1..Len(s) /\ \A i \in 1..Len(s) : i = 1 \/ (i - 1 \in 1..Len(s) - 1 /\ (i - 1) + 1 = i)
  BY <1>1
<1>4. Head(s) \in Range(s) /\ Range(Tail(s)) \subseteq Range(s)
  BY <1>1, <1>2, <1>3 DEF Range
<1>5. \A t \in Range(s) : t # Head(s) => t \in Range(Tail(s))
  <2> SUFFICES ASSUME NEW i \in 1..Len(s), s[i] # Head(s) PROVE s[i] \in Range(Tail(s))
    BY <1>1 DEF Range
  <2>1. i - 1 \in 1..Len(s) - 1 /\ (i - 1) + 1 = i
    BY <1>1, <1>3
  <2>2. Tail(s)[i - 1] = s[i]
    BY <1>1, <2>1
  <2> QED
    BY <1>1, <2>1, <2>2 DEF Range
<1>6. ASSUME NEW t, Once(s, t) PROVE Once(Tail(s), t)
  <2> SUFFICES ASSUME NEW i \in 1..Len(s) - 1, NEW j \in 1..Len(s) - 1, Tail(s)[i] = t, Tail(s)[j] = t
               PROVE  i = j
    BY <1>1 DEF Once
  <2>1. i + 1 = j + 1
    BY <1>1, <1>2, <1>6 DEF Once
  <2> QED
    BY <2>1
<1>7. Once(s, Head(s)) => Head(s) \notin Range(Tail(s))
  BY <1>1, <1>2, <1>3 DEF Once, Range
<1> QED
  BY <1>1, <1>4, <1>5, <1>6, <1>7

LEMMA TaskTypes ==
  /\ \A c \in ConnIds : Destroy(c) \in TaskSet /\ <<"forceCloseInLoop", c>> \in TaskSet
  /\ \A t \in TaskSet : t[2] \in ConnIds /\ t = <<t[1], t[2]>>
  /\ \A c, d \in ConnIds : Destroy(c) = Destroy(d) => c = d
  /\ \A c, d \in ConnIds : Destroy(c) # <<"forceCloseInLoop", d>>
  BY DEF TaskSet, Destroy

LEMMA ServerInitInv == Init => ServerInv
<1> SUFFICES ASSUME Init PROVE ServerInv
  OBVIOUS
<1>1. NoConn \in ConnRecord
  BY BoundsAssumption DEF NoConn, ConnRecord, ConnState
<1>2. Range(pending) = {} /\ Range(batch) = {} /\ Tasks = {}
  BY DEF Init, Range, Tasks
<1>3. ServerTypeOK
  BY <1>1, BoundsAssumption DEF Init, ServerTypeOK, Idle, EventSet
<1>4. ASSUME NEW c \in ConnIds PROVE ConnOK(c) /\ ~Alive(c)
  BY <1>4, BoundsAssumption DEF Init, ConnOK, NoConn, Up, Alive, ConnIds
<1>5. FdsDistinct
  BY <1>4 DEF FdsDistinct
<1>6. DispatchOK
  BY DEF Init, DispatchOK
<1>7. TasksOK
  BY <1>2 DEF Init, TasksOK, Once
<1> QED
  BY <1>3, <1>4, <1>5, <1>6, <1>7 DEF ServerInv

-----------------------------------------------------------------------------
(* Steps that touch no connection. *)

LEMMA SameConnections ==
  ASSUME ServerInv, UNCHANGED <<nextConnId, conn, connections>>,
         Range(pending)' = Range(pending), Range(batch)' = Range(batch)
  PROVE  /\ \A c \in ConnIds : ConnOK(c)' /\ Legal(c)
         /\ FdsDistinct'
         /\ \A c \in ConnIds : (Up(c)' <=> Up(c)) /\ (Alive(c)' <=> Alive(c))
<1>1. Tasks' = Tasks
  BY DEF Tasks
<1>2. \A c \in ConnIds : (Up(c)' <=> Up(c)) /\ (Alive(c)' <=> Alive(c))
  BY DEF Up, Alive
<1>3. \A c \in ConnIds : ConnOK(c)'
  BY <1>1, <1>2 DEF ServerInv, ConnOK
<1>4. FdsDistinct'
  BY <1>2 DEF ServerInv, FdsDistinct
<1> QED
  BY <1>2, <1>3, <1>4 DEF Legal

LEMMA LoopMoves ==
  ASSUME ServerInv, UNCHANGED <<nextConnId, conn, connections, pending, batch, held, failed>>,
         ServerTypeOK', DispatchOK'
  PROVE  Kept
<1>1. /\ \A c \in ConnIds : ConnOK(c)' /\ Legal(c)
      /\ FdsDistinct'
      /\ \A c \in ConnIds : (Up(c)' <=> Up(c)) /\ (Alive(c)' <=> Alive(c))
  BY SameConnections
<1>2. TasksOK'
  <2>1. Tasks' = Tasks
    BY DEF Tasks
  <2>2. \A t \in Tasks : t[2] \in ConnIds
    BY TaskTypes, RangeOfSeq DEF Tasks, ServerInv, ServerTypeOK
  <2>3. held \subseteq ConnIds
    BY DEF ServerInv, ServerTypeOK
  <2> QED
    BY <1>1, <2>1, <2>2, <2>3 DEF ServerInv, TasksOK
<1>3. Tracked
  BY <1>1 DEF Tracked, NoneMoves
<1> QED
  BY <1>1, <1>2, <1>3 DEF Kept, ServerInv

LEMMA PollKeeps == ASSUME ServerInv, Poll PROVE Kept
<1>1. UNCHANGED <<nextConnId, conn, connections, pending, batch, held, failed, cur>> /\ lpc = "poll" /\ lpc' = "dispatch"
  BY DEF Poll, connVars
<1>2. active' = {[id |-> c, ev |-> Events(c)] : c \in {d \in ConnIds : Alive(d) /\ Events(d) # {}}}
  BY DEF Poll
<1>3. \A c \in ConnIds : Events(c) \in EventSet /\ (Events(c) # {} => Up(c))
  <2> SUFFICES ASSUME NEW c \in ConnIds PROVE Events(c) \in EventSet /\ (Events(c) # {} => Up(c))
    OBVIOUS
  <2>1. Events(c) \in EventSet
    BY DEF Events, EventSet
  <2>2. Events(c) # {} => conn[c].events # {}
    BY DEF Events
  <2> QED
    BY <2>1, <2>2 DEF ServerInv, ConnOK
<1>4. ServerTypeOK'
  BY <1>1, <1>2, <1>3 DEF ServerInv, ServerTypeOK
<1>5. DispatchOK'
  BY <1>1, <1>2, <1>3 DEF DispatchOK, Up
<1> QED
  BY <1>1, <1>4, <1>5, LoopMoves

LEMMA TakeChannelKeeps == ASSUME ServerInv, TakeChannel PROVE Kept
<1>1. UNCHANGED <<nextConnId, conn, connections, pending, batch, held, failed>> /\ lpc = "dispatch" /\ lpc' = "channel"
  BY DEF TakeChannel, connVars
<1>2. PICK a \in active : cur' = a /\ active' = active \ {a}
  BY DEF TakeChannel
<1>3. a \in [id : ConnIds, ev : EventSet] /\ Up(a.id)
  BY <1>1 DEF ServerInv, ServerTypeOK, DispatchOK
<1>4. ServerTypeOK'
  BY <1>1, <1>2, <1>3, BoundsAssumption DEF ServerInv, ServerTypeOK, ConnIds
<1>5. DispatchOK'
  <2>1. Alive(a.id)' /\ Up(a.id)' /\ a.id \in ConnIds
    BY <1>1, <1>3 DEF Alive, Up
  <2>2. \A b \in active' : b \in active /\ b # a /\ Up(b.id)'
    BY <1>1, <1>2 DEF ServerInv, DispatchOK, Up
  <2>3. \A b \in active' : b.id # a.id
    BY <1>2, <2>2 DEF ServerInv, DispatchOK
  <2> QED
    BY <1>1, <1>2, <2>1, <2>2, <2>3 DEF ServerInv, DispatchOK
<1> QED
  BY <1>1, <1>4, <1>5, LoopMoves

LEMMA ControlKeeps == ASSUME ServerInv, ChannelDone \/ CallbackReturns PROVE Kept
<1>1. UNCHANGED <<nextConnId, conn, connections, pending, batch, held, failed, active>>
  BY DEF ChannelDone, CallbackReturns, connVars
<1>2. ServerTypeOK'
  BY <1>1, BoundsAssumption DEF ServerInv, ServerTypeOK, ChannelDone, CallbackReturns, Idle, EventSet
<1>3. DispatchOK'
  BY <1>1 DEF ServerInv, DispatchOK, ChannelDone, CallbackReturns, Up, Alive
<1> QED
  BY <1>1, <1>2, <1>3, LoopMoves

LEMMA PeerKeeps == ASSUME ServerInv, NEW c \in ConnIds, PeerSends(c) \/ PeerEnds(c) PROVE Kept
<1>1. UNCHANGED <<nextConnId, conn, connections, pending, batch, held, failed, active, cur, lpc>>
  BY DEF PeerSends, PeerEnds, loopVars
<1>2. ServerTypeOK'
  BY <1>1 DEF ServerInv, ServerTypeOK
<1>3. DispatchOK'
  BY <1>1 DEF ServerInv, DispatchOK, Up, Alive
<1> QED
  BY <1>1, <1>2, <1>3, LoopMoves

-----------------------------------------------------------------------------
(* Steps that change one connection, and leave it up. *)

StaysUp(c) ==
  /\ conn' \in [ConnIds -> ConnRecord]
  /\ \A d \in ConnIds : d # c => conn'[d] = conn[d]
  /\ Up(c) /\ Up(c)'
  /\ conn'[c].name = conn[c].name /\ conn'[c].added = conn[c].added /\ conn'[c].fd = conn[c].fd
  /\ "write" \in conn'[c].events <=> conn'[c].out > 0
  /\ conn'[c].wshut => conn'[c].out = 0 /\ conn'[c].state # "kConnected"

LEMMA UpIsKept ==
  ASSUME ServerInv, NEW c \in ConnIds, StaysUp(c), nextConnId' = nextConnId,
         connections' = connections, Tasks \subseteq Tasks'
  PROVE  /\ \A d \in ConnIds : ConnOK(d)' /\ Legal(d)
         /\ FdsDistinct'
         /\ \A d \in ConnIds : (Up(d)' <=> Up(d)) /\ (Alive(d)' <=> Alive(d))
         /\ \A d \in ConnIds : conn[d].state = "kDisconnected" /\ conn[d].added =>
                                 conn'[d].state = "kDisconnected" /\ conn'[d].added
<1>1. \A d \in ConnIds : conn[d] \in ConnRecord /\ conn'[d] \in ConnRecord
  BY DEF ServerInv, ServerTypeOK, StaysUp
<1>2. \A d \in ConnIds : (Up(d)' <=> Up(d)) /\ (Alive(d)' <=> Alive(d))
  BY DEF StaysUp, Up, Alive
<1>3. \A d \in ConnIds : conn[d].state = "kDisconnected" /\ conn[d].added =>
                           conn'[d].state = "kDisconnected" /\ conn'[d].added
  BY DEF StaysUp, Up
<1>4. ASSUME NEW d \in ConnIds PROVE ConnOK(d)'
  <2>1. CASE d = c
    <3>1. ConnOK(c)
      BY DEF ServerInv
    <3>2. conn[c].state # "none" /\ conn'[c].state # "none" /\ conn'[c].state # "kDisconnected"
          /\ Alive(c) /\ Alive(c)'
      BY <1>2 DEF StaysUp, Up, Alive
    <3> QED
      BY <2>1, <3>1, <3>2 DEF ConnOK, StaysUp
  <2>2. CASE d # c
    <3>1. ConnOK(d) /\ conn'[d] = conn[d]
      BY <2>2 DEF ServerInv, StaysUp
    <3> QED
      BY <1>2, <3>1 DEF ConnOK
  <2> QED
    BY <2>1, <2>2
<1>5. FdsDistinct'
  <2>1. \A d \in ConnIds : conn'[d].fd = conn[d].fd
    BY DEF StaysUp
  <2> QED
    BY <1>2, <2>1 DEF ServerInv, FdsDistinct
<1>6. \A d \in ConnIds : Legal(d)
  BY DEF Legal, StaysUp, Up, UpStates
<1> QED
  BY <1>2, <1>3, <1>4, <1>5, <1>6

(* ... and leave the queues alone. *)
LEMMA UserMoves ==
  ASSUME ServerInv, NEW c \in ConnIds, StaysUp(c),
         UNCHANGED <<nextConnId, connections, pending, batch, held, failed>>,
         ServerTypeOK', active' = active, lpc' = lpc,
         cur'.id = cur.id, cur'.ev \subseteq cur.ev
  PROVE  Kept
<1>1. Tasks' = Tasks
  BY DEF Tasks
<1>2. /\ \A d \in ConnIds : ConnOK(d)' /\ Legal(d)
      /\ FdsDistinct'
      /\ \A d \in ConnIds : (Up(d)' <=> Up(d)) /\ (Alive(d)' <=> Alive(d))
      /\ \A d \in ConnIds : conn[d].state = "kDisconnected" /\ conn[d].added =>
                              conn'[d].state = "kDisconnected" /\ conn'[d].added
  BY <1>1, UpIsKept
<1>3. TasksOK'
  <2>1. (\A t \in Tasks : t[2] \in ConnIds) /\ held \subseteq ConnIds
    BY TaskTypes, RangeOfSeq DEF Tasks, ServerInv, ServerTypeOK
  <2> QED
    BY <1>1, <1>2, <2>1 DEF ServerInv, TasksOK
<1>4. DispatchOK'
  <2>1. \A a \in active : a.id \in ConnIds
    BY DEF ServerInv, ServerTypeOK
  <2>2. cur'.ev \cap {"in", "hup"} # {} => cur.ev \cap {"in", "hup"} # {}
    OBVIOUS
  <2> QED
    BY <1>2, <2>1, <2>2 DEF ServerInv, DispatchOK
<1>5. Tracked
  BY <1>2 DEF Tracked, NoneMoves
<1> QED
  BY <1>2, <1>3, <1>4, <1>5 DEF Kept, ServerInv

LEMMA SendKeeps == ASSUME ServerInv, NEW c \in ConnIds, Send(c) PROVE Kept
<1>1. /\ conn[c] \in ConnRecord /\ ConnOK(c) /\ conn \in [ConnIds -> ConnRecord]
      /\ conn[c].state = "kConnected" /\ conn[c].out < MaxOutput /\ conn[c].out \in Nat
      /\ UNCHANGED <<nextConnId, connections, pending, batch, held, failed, active, lpc, cur>>
  BY DEF ServerInv, ServerTypeOK, Send, loopVars, ConnRecord
<1>2. Up(c)
  BY <1>1 DEF Up
<1>3. CASE UNCHANGED conn
  <2>1. StaysUp(c)
    BY <1>1, <1>2, <1>3 DEF StaysUp, ConnOK, Up
  <2>2. ServerTypeOK'
    BY <1>1, <1>3 DEF ServerInv, ServerTypeOK
  <2> QED
    BY <1>1, <2>1, <2>2, UserMoves
<1>4. CASE conn' = [conn EXCEPT ![c].out = @ + 1, ![c].events = @ \cup {"write"}]
  <2> DEFINE r == [conn[c] EXCEPT !.out = @ + 1, !.events = @ \cup {"write"}]
  <2>1. r \in ConnRecord
    <3>1. conn[c].out + 1 \in 0..MaxOutput
      BY <1>1, BoundsAssumption
    <3>2. conn[c].events \cup {"write"} \in SUBSET {"read", "write"}
      BY <1>1 DEF ConnRecord
    <3> QED
      BY <1>1, <3>1, <3>2 DEF ConnRecord
  <2>2. /\ r.out = conn[c].out + 1 /\ "write" \in r.events /\ r.state = conn[c].state
        /\ r.name = conn[c].name /\ r.added = conn[c].added /\ r.fd = conn[c].fd
        /\ r.wshut = conn[c].wshut
    BY <1>1 DEF ConnRecord
  <2>3. conn' = [conn EXCEPT ![c] = r]
    BY <1>1, <1>4
  <2> HIDE DEF r
  <2>4. conn' \in [ConnIds -> ConnRecord] /\ conn'[c] = r /\ \A d \in ConnIds : d # c => conn'[d] = conn[d]
    BY <1>1, <2>1, <2>3
  <2>5. StaysUp(c)
    BY <1>1, <1>2, <2>2, <2>4 DEF StaysUp, ConnOK, Up
  <2>6. ServerTypeOK'
    BY <1>1, <2>4 DEF ServerInv, ServerTypeOK
  <2> QED
    BY <1>1, <2>5, <2>6, UserMoves
<1> QED
  BY <1>3, <1>4 DEF Send

LEMMA ShutdownKeeps == ASSUME ServerInv, NEW c \in ConnIds, Shutdown(c) PROVE Kept
<1>1. /\ conn[c] \in ConnRecord /\ ConnOK(c) /\ conn \in [ConnIds -> ConnRecord]
      /\ conn[c].state = "kConnected" /\ conn[c].out \in Nat
      /\ UNCHANGED <<nextConnId, connections, pending, batch, held, failed, active, lpc, cur>>
  BY DEF ServerInv, ServerTypeOK, Shutdown, loopVars, ConnRecord
<1>2. Up(c)
  BY <1>1 DEF Up
<1> DEFINE q == [conn[c] EXCEPT !.state = "kDisconnecting"]
           r == ShutdownInLoop(q)
<1>3. /\ q \in ConnRecord /\ q.out = conn[c].out /\ q.events = conn[c].events
      /\ q.state = "kDisconnecting"
      /\ q.name = conn[c].name /\ q.added = conn[c].added /\ q.fd = conn[c].fd
      /\ q.wshut = conn[c].wshut
  BY <1>1 DEF ConnRecord, ConnState
<1> HIDE DEF q
<1>4. /\ r \in ConnRecord /\ r.out = q.out /\ r.events = q.events /\ r.state = q.state
      /\ r.name = q.name /\ r.added = q.added /\ r.fd = q.fd
      /\ r.wshut => q.wshut \/ "write" \notin r.events
  BY <1>3 DEF ShutdownInLoop, ConnRecord
<1>5. conn' = [conn EXCEPT ![c] = r]
  BY DEF Shutdown, q
<1> HIDE DEF r
<1>6. conn' \in [ConnIds -> ConnRecord] /\ conn'[c] = r /\ \A d \in ConnIds : d # c => conn'[d] = conn[d]
  BY <1>1, <1>4, <1>5
<1>7. StaysUp(c)
  BY <1>1, <1>2, <1>3, <1>4, <1>6 DEF StaysUp, ConnOK, Up
<1>8. ServerTypeOK'
  BY <1>1, <1>6 DEF ServerInv, ServerTypeOK
<1> QED
  BY <1>1, <1>7, <1>8, UserMoves

LEMMA SetReadingKeeps ==
  ASSUME ServerInv, NEW c \in ConnIds, NEW on \in BOOLEAN, SetReading(c, on) PROVE Kept
<1>1. /\ conn[c] \in ConnRecord /\ ConnOK(c) /\ conn \in [ConnIds -> ConnRecord] /\ Up(c)
      /\ conn[c].out \in Nat
      /\ UNCHANGED <<nextConnId, connections, pending, batch, held, failed, active, lpc, cur>>
  BY DEF ServerInv, ServerTypeOK, SetReading, loopVars, ConnRecord
<1> DEFINE e == IF on THEN conn[c].events \cup {"read"} ELSE conn[c].events \ {"read"}
           r == [conn[c] EXCEPT !.events = e]
<1>2. e \in SUBSET {"read", "write"} /\ ("write" \in e <=> "write" \in conn[c].events)
  BY <1>1 DEF ConnRecord
<1>3. conn' = [conn EXCEPT ![c] = r]
  BY <1>1 DEF SetReading
<1> HIDE DEF e
<1>4. /\ r \in ConnRecord /\ r.out = conn[c].out /\ r.events = e /\ r.state = conn[c].state
      /\ r.name = conn[c].name /\ r.added = conn[c].added /\ r.fd = conn[c].fd
      /\ r.wshut = conn[c].wshut
  BY <1>1, <1>2 DEF ConnRecord
<1> HIDE DEF r
<1>5. conn' \in [ConnIds -> ConnRecord] /\ conn'[c] = r /\ \A d \in ConnIds : d # c => conn'[d] = conn[d]
  BY <1>1, <1>3, <1>4
<1>6. StaysUp(c)
  BY <1>1, <1>2, <1>4, <1>5 DEF StaysUp, ConnOK, Up
<1>7. ServerTypeOK'
  BY <1>1, <1>5 DEF ServerInv, ServerTypeOK
<1> QED
  BY <1>1, <1>6, <1>7, UserMoves

(* handleWrite(): write is no longer waited for when the buffer is empty,  *)
(* and the shutdown that waited for that is done.                          *)
LEMMA ChannelWriteKeeps == ASSUME ServerInv, ChannelWrite PROVE Kept
<1>0. PICK c \in ConnIds : c = cur.id
  BY DEF ServerInv, DispatchOK, ChannelWrite
<1>1. /\ lpc = "channel" /\ cur \in [id : 0..MaxConns, ev : EventSet]
      /\ c \in ConnIds /\ ConnOK(c) /\ conn \in [ConnIds -> ConnRecord]
      /\ UNCHANGED <<nextConnId, connections, pending, batch, held, failed, active, lpc>>
  BY DEF ServerInv, ServerTypeOK, DispatchOK, ChannelWrite
<1>2. cur' \in [id : 0..MaxConns, ev : EventSet] /\ cur'.id = c /\ cur'.ev \subseteq cur.ev
  BY <1>0, <1>1 DEF ChannelWrite, EventSet
<1>3. conn[c] \in ConnRecord /\ conn[c].out \in Nat
  BY <1>1 DEF ConnRecord
<1>4. CASE UNCHANGED conn
  <2>1. ServerTypeOK'
    BY <1>1, <1>2, <1>4 DEF ServerInv, ServerTypeOK
  <2>2. DispatchOK'
    <3>1. cur'.ev \cap {"in", "hup"} # {} => cur.ev \cap {"in", "hup"} # {}
      BY <1>2
    <3> QED
      BY <1>0, <1>1, <1>2, <1>4, <3>1 DEF ServerInv, DispatchOK, Up, Alive
  <2> QED
    BY <1>1, <1>4, <2>1, <2>2, LoopMoves
<1>5. ASSUME "write" \in conn[c].events, NEW n \in 1..conn[c].out,
             conn' = [conn EXCEPT ![c] = Wrote(conn[c], n)]
      PROVE  Kept
  <2> DEFINE left == [conn[c] EXCEPT !.out = @ - n]
             done == [left EXCEPT !.events = @ \ {"write"}]
             r == Wrote(conn[c], n)
  <2>1. Up(c) /\ conn[c].out > 0
    BY <1>1, <1>5 DEF ConnOK
  <2>2. /\ left \in ConnRecord /\ left.out = conn[c].out - n /\ left.events = conn[c].events
        /\ left.state = conn[c].state /\ left.name = conn[c].name /\ left.added = conn[c].added
        /\ left.fd = conn[c].fd /\ left.wshut = conn[c].wshut
    <3>1. conn[c].out - n \in 0..MaxOutput
      BY <1>3, <1>5, BoundsAssumption DEF ConnRecord
    <3> QED
      BY <1>3, <3>1 DEF ConnRecord
  <2>3. r = IF left.out > 0 THEN left
            ELSE IF conn[c].state = "kDisconnecting" THEN ShutdownInLoop(done) ELSE done
    BY DEF Wrote
  <2> HIDE DEF left
  <2>4. /\ done \in ConnRecord /\ done.out = left.out /\ "write" \notin done.events
        /\ done.state = left.state /\ done.name = left.name /\ done.added = left.added
        /\ done.fd = left.fd /\ done.wshut = left.wshut
    BY <2>2 DEF ConnRecord
  <2> HIDE DEF done, r
  <2>5. /\ r \in ConnRecord /\ r.out = left.out /\ r.state = left.state
        /\ r.name = left.name /\ r.added = left.added /\ r.fd = left.fd
        /\ "write" \in r.events <=> left.out > 0
        /\ r.wshut => left.wshut \/ (left.out = 0 /\ left.state = "kDisconnecting")
    <3>1. CASE left.out > 0
      BY <1>5, <2>2, <2>3, <3>1
    <3>2. CASE ~(left.out > 0)
      <4>0. left.out = 0
        BY <1>3, <1>5, <2>2, <3>2
      <4>1. CASE conn[c].state = "kDisconnecting"
        <5>1. r = ShutdownInLoop(done)
          BY <2>3, <3>2, <4>1
        <5> QED
          BY <2>2, <2>4, <3>2, <4>0, <4>1, <5>1 DEF ShutdownInLoop, ConnRecord
      <4>2. CASE conn[c].state # "kDisconnecting"
        BY <2>2, <2>3, <2>4, <3>2, <4>2
      <4> QED
        BY <4>1, <4>2
    <3> QED
      BY <3>1, <3>2
  <2>6. conn' \in [ConnIds -> ConnRecord] /\ conn'[c] = r /\ \A d \in ConnIds : d # c => conn'[d] = conn[d]
    BY <1>1, <1>5, <2>5 DEF r
  <2>7. ~conn[c].wshut
    BY <1>1, <2>1 DEF ConnOK
  <2>8. StaysUp(c)
    <3>1. r.wshut => r.out = 0 /\ r.state = "kDisconnecting"
      BY <2>2, <2>5, <2>7
    <3>2. Up(c)'
      <4>1. conn'[c].state = conn[c].state
        BY <2>2, <2>5, <2>6
      <4> QED
        BY <2>1, <4>1 DEF Up
    <3>3. r.name = conn[c].name /\ r.added = conn[c].added /\ r.fd = conn[c].fd
      BY <2>2, <2>5
    <3> QED
      BY <2>1, <2>5, <2>6, <3>1, <3>2, <3>3 DEF StaysUp
  <2>9. ServerTypeOK'
    BY <1>1, <1>2, <2>6 DEF ServerInv, ServerTypeOK
  <2> QED
    BY <1>0, <1>1, <1>2, <2>8, <2>9, UserMoves
<1>6. CASE "write" \in conn[c].events /\ \E n \in 0..conn[c].out :
             conn' = [conn EXCEPT ![c] = IF n = 0 THEN @ ELSE Wrote(@, n)]
  <2>1. PICK n \in 0..conn[c].out : conn' = [conn EXCEPT ![c] = IF n = 0 THEN @ ELSE Wrote(@, n)]
    BY <1>6
  <2>2. CASE n = 0
    BY <1>1, <1>4, <2>1, <2>2
  <2>3. CASE n # 0
    <3>1. n \in 1..conn[c].out /\ conn' = [conn EXCEPT ![c] = Wrote(conn[c], n)]
      BY <1>3, <2>1, <2>3
    <3> QED
      BY <1>5, <1>6, <3>1
  <2> QED
    BY <2>2, <2>3
<1> QED
  BY <1>0, <1>4, <1>6 DEF ChannelWrite

(* forceClose(): the state and the functor. *)
LEMMA ForceCloseKeeps == ASSUME ServerInv, NEW c \in ConnIds, ForceClose(c) PROVE Kept
<1>1. /\ conn[c] \in ConnRecord /\ ConnOK(c) /\ conn \in [ConnIds -> ConnRecord] /\ Up(c)
      /\ conn[c].out \in Nat /\ pending \in Seq(TaskSet)
      /\ pending' = Append(pending, <<"forceCloseInLoop", c>>)
      /\ UNCHANGED <<nextConnId, connections, batch, held, failed, active, lpc, cur>>
  BY DEF ServerInv, ServerTypeOK, ForceClose, ConnRecord
<1> DEFINE r == [conn[c] EXCEPT !.state = "kDisconnecting"]
           f == <<"forceCloseInLoop", c>>
<1>2. conn' = [conn EXCEPT ![c] = r]
  BY DEF ForceClose
<1>3. /\ r \in ConnRecord /\ r.out = conn[c].out /\ r.events = conn[c].events
      /\ r.state = "kDisconnecting"
      /\ r.name = conn[c].name /\ r.added = conn[c].added /\ r.fd = conn[c].fd
      /\ r.wshut = conn[c].wshut
  BY <1>1 DEF ConnRecord, ConnState
<1> HIDE DEF r
<1>4. conn' \in [ConnIds -> ConnRecord] /\ conn'[c] = r /\ \A d \in ConnIds : d # c => conn'[d] = conn[d]
  BY <1>1, <1>2, <1>3
<1>5. StaysUp(c)
  BY <1>1, <1>3, <1>4 DEF StaysUp, ConnOK, Up
<1>6. /\ pending' \in Seq(TaskSet) /\ Range(pending') = Range(pending) \cup {f}
      /\ \A d \in ConnIds : Once(pending, Destroy(d)) => Once(pending', Destroy(d))
  <2>1. f \in TaskSet /\ \A d \in ConnIds : Destroy(d) # f
    BY TaskTypes
  <2>2. PICK q \in Seq(TaskSet) : q = pending
    BY <1>1
  <2>3. /\ Append(q, f) \in Seq(TaskSet) /\ Range(Append(q, f)) = Range(q) \cup {f}
        /\ \A t : Once(q, t) /\ (t = f => f \notin Range(q)) => Once(Append(q, f), t)
    <3> HIDE DEF f
    <3> QED
      BY <2>1, QueueGrows
  <2>4. pending' = Append(q, f)
    BY <1>1, <2>2
  <2> QED
    BY <2>1, <2>2, <2>3, <2>4
<1>7. ServerTypeOK'
  BY <1>1, <1>4, <1>6 DEF ServerInv, ServerTypeOK
<1>8. Tasks' = Tasks \cup {f}
  BY <1>1, <1>6 DEF Tasks
<1>9. /\ \A d \in ConnIds : ConnOK(d)' /\ Legal(d)
      /\ FdsDistinct'
      /\ \A d \in ConnIds : (Up(d)' <=> Up(d)) /\ (Alive(d)' <=> Alive(d))
      /\ \A d \in ConnIds : conn[d].state = "kDisconnected" /\ conn[d].added =>
                              conn'[d].state = "kDisconnected" /\ conn'[d].added
  BY <1>1, <1>5, <1>8, UpIsKept
<1>10. DispatchOK'
  <2>1. \A a \in active : a.id \in ConnIds
    BY DEF ServerInv, ServerTypeOK
  <2> QED
    BY <1>1, <1>9, <2>1 DEF ServerInv, DispatchOK
<1>11. TasksOK'
  <2>1. (\A t \in Tasks : t[2] \in ConnIds) /\ held \subseteq ConnIds
    BY TaskTypes, RangeOfSeq DEF Tasks, ServerInv, ServerTypeOK
  <2>2. Alive(c) /\ f[2] = c
    BY <1>1 DEF Up, Alive
  <2>3. \A t \in Tasks' : Alive(t[2])'
    BY <1>8, <1>9, <2>1, <2>2 DEF ServerInv, TasksOK
  <2>4. \A d \in ConnIds : Destroy(d) # f
    BY TaskTypes
  <2>5. \A d \in held' : Alive(d)'
    BY <1>1, <1>9, <2>1 DEF ServerInv, TasksOK
  <2>6. \A d \in ConnIds : Destroy(d) \in Tasks' => conn'[d].state = "kDisconnected" /\ conn'[d].added
    BY <1>8, <1>9, <2>4 DEF ServerInv, TasksOK
  <2>7. \A d \in ConnIds : ~(Destroy(d) \in Range(pending') /\ Destroy(d) \in Range(batch'))
    BY <1>1, <1>6, <2>4 DEF ServerInv, TasksOK
  <2> QED
    BY <1>1, <1>6, <2>3, <2>5, <2>6, <2>7 DEF ServerInv, TasksOK
<1>12. Tracked
  BY <1>1, <1>9 DEF Tracked, NoneMoves
<1> QED
  BY <1>7, <1>9, <1>10, <1>11, <1>12 DEF Kept, ServerInv

-----------------------------------------------------------------------------
(* handleClose() of a connection that is up. *)

LEMMA CloseKeeps ==
  ASSUME ServerInv, NEW c \in ConnIds, Up(c), HandleClose(c),
         nextConnId' = nextConnId, held' = held,
         Range(batch') \subseteq Range(batch), \A d \in ConnIds : Destroy(d) \in Range(batch) => Destroy(d) \in Range(batch'),
         \A d \in ConnIds : Once(batch, Destroy(d)) => Once(batch', Destroy(d))
  PROVE  /\ conn' \in [ConnIds -> ConnRecord] /\ pending' \in Seq(TaskSet)
         /\ \A d \in ConnIds : ConnOK(d)' /\ Legal(d)
         /\ FdsDistinct' /\ TasksOK' /\ Tracked
         /\ \A d \in ConnIds : (Alive(d)' <=> Alive(d)) /\ (d # c => (Up(d)' <=> Up(d)))
<1>1. /\ conn[c] \in ConnRecord /\ ConnOK(c) /\ conn \in [ConnIds -> ConnRecord]
      /\ pending \in Seq(TaskSet) /\ batch \in Seq(TaskSet)
      /\ pending' = Append(pending, Destroy(c))
      /\ connections' = connections \ Erased(c)
  BY DEF ServerInv, ServerTypeOK, HandleClose, Destroy
<1>2. /\ Closed(c) \in ConnRecord /\ Closed(c).state = "kDisconnected" /\ Closed(c).events = {}
      /\ Closed(c).name = conn[c].name /\ Closed(c).added = conn[c].added /\ Closed(c).fd = conn[c].fd
      /\ Closed(c).out = conn[c].out /\ Closed(c).wshut = conn[c].wshut
  BY <1>1 DEF Closed, ConnRecord, ConnState
<1>3. /\ conn' \in [ConnIds -> ConnRecord] /\ conn'[c] = Closed(c)
      /\ \A d \in ConnIds : d # c => conn'[d] = conn[d]
  BY <1>1, <1>2 DEF HandleClose
<1>4. \A d \in ConnIds : (Alive(d)' <=> Alive(d)) /\ (d # c => (Up(d)' <=> Up(d)))
  BY <1>2, <1>3 DEF Alive, Up
<1>5. ~Up(c)' /\ Alive(c) /\ Alive(c)' /\ conn[c].state # "none" /\ conn[c].added
  BY <1>1, <1>2, <1>3 DEF Alive, Up, ConnOK
<1>6. Destroy(c) \notin Tasks /\ Destroy(c) \in TaskSet
  BY TaskTypes DEF ServerInv, TasksOK, Up
<1>7. /\ pending' \in Seq(TaskSet) /\ Range(pending') = Range(pending) \cup {Destroy(c)}
      /\ \A d \in ConnIds : Once(pending, Destroy(d)) => Once(pending', Destroy(d))
  <2>1. Destroy(c) \notin Range(pending)
    BY <1>6 DEF Tasks
  <2> QED
    BY <1>1, <1>6, <2>1, QueueGrows
<1>8. \A d \in ConnIds : Destroy(d) \in Tasks => Destroy(d) \in Tasks'
  BY <1>7 DEF Tasks
<1>9. Destroy(c) \in Tasks' /\ \A d \in ConnIds : d # c => (Destroy(d) \in Tasks' => Destroy(d) \in Tasks)
  BY <1>7, TaskTypes DEF Tasks
<1>10. ASSUME NEW d \in ConnIds, d # c, <<ConnName(d), d>> \in connections
       PROVE  <<ConnName(d), d>> \in connections'
  <2>1. conn[c].name = CallbackName(c)
    BY <1>1, <1>5 DEF ConnOK
  <2>2. conn[c].name # ConnName(d)
    BY <1>10, <2>1, NamesAssumption
  <2> QED
    BY <1>1, <1>10, <2>2 DEF Erased
<1>11. ASSUME NEW d \in ConnIds PROVE ConnOK(d)'
  <2>1. CASE d = c
    BY <1>1, <1>2, <1>3, <1>5, <1>9, <2>1 DEF ConnOK
  <2>2. CASE d # c
    <3>1. ConnOK(d) /\ conn'[d] = conn[d] /\ (Alive(d)' <=> Alive(d)) /\ (Up(d)' <=> Up(d))
      BY <1>3, <1>4, <2>2 DEF ServerInv
    <3> QED
      BY <1>8, <1>10, <2>2, <3>1 DEF ConnOK
  <2> QED
    BY <2>1, <2>2
<1>12. FdsDistinct'
  <2>1. \A d \in ConnIds : conn'[d].fd = conn[d].fd
    BY <1>2, <1>3
  <2> QED
    BY <1>4, <2>1 DEF ServerInv, FdsDistinct
<1>13. \A d \in ConnIds : Legal(d)
  BY <1>2, <1>3 DEF Legal, Up, UpStates
<1>14. TasksOK'
  <2>1. (\A t \in Tasks : t[2] \in ConnIds) /\ held \subseteq ConnIds
    BY TaskTypes, RangeOfSeq DEF Tasks, ServerInv, ServerTypeOK
  <2>2. \A t \in Tasks' : t \in Tasks \/ (t = Destroy(c) /\ t[2] = c)
    BY <1>7 DEF Tasks, Destroy
  <2>3. \A t \in Tasks' : Alive(t[2])'
    BY <1>4, <1>5, <2>1, <2>2 DEF ServerInv, TasksOK
  <2>4. \A d \in held' : Alive(d)'
    BY <1>4, <2>1 DEF ServerInv, TasksOK
  <2>5. \A d \in ConnIds : Destroy(d) \in Tasks' => conn'[d].state = "kDisconnected" /\ conn'[d].added
    BY <1>2, <1>3, <1>5, <1>9 DEF ServerInv, TasksOK
  <2>6. \A d \in ConnIds : ~(Destroy(d) \in Range(pending') /\ Destroy(d) \in Range(batch'))
    <3>1. Destroy(c) \notin Range(batch)
      BY <1>6 DEF Tasks
    <3>2. \A d \in ConnIds : d # c => Destroy(d) # Destroy(c)
      BY TaskTypes
    <3> QED
      BY <1>7, <3>1, <3>2 DEF ServerInv, TasksOK
  <2> QED
    BY <1>7, <2>3, <2>4, <2>5, <2>6 DEF ServerInv, TasksOK
<1>15. Tracked
  <2>1. Assert(Cardinality(Erased(c)) = 1, "removeConnectionInLoop")
    BY DEF HandleClose
  <2>2. GoesDown(c)
    BY <1>1, <1>4, <1>5, <2>1 DEF GoesDown
  <2> QED
    BY <2>2 DEF Tracked
<1> QED
  BY <1>3, <1>4, <1>7, <1>11, <1>12, <1>13, <1>14, <1>15

(* A close while the events of one channel are handled: it is the last one *)
(* that the snapshot holds for that channel.                               *)
LEMMA CloseInDispatch ==
  ASSUME ServerInv, NEW c \in ConnIds, c = cur.id, Up(c), HandleClose(c), lpc = "channel",
         cur' \in [id : 0..MaxConns, ev : EventSet], cur'.id = c, cur'.ev \cap {"in", "hup"} = {},
         UNCHANGED <<nextConnId, lpc, active, batch, held>>
  PROVE  Kept
<1>1. /\ conn' \in [ConnIds -> ConnRecord] /\ pending' \in Seq(TaskSet)
      /\ \A d \in ConnIds : ConnOK(d)' /\ Legal(d)
      /\ FdsDistinct' /\ TasksOK' /\ Tracked
      /\ \A d \in ConnIds : (Alive(d)' <=> Alive(d)) /\ (d # c => (Up(d)' <=> Up(d)))
  BY CloseKeeps
<1>2. ServerTypeOK'
  BY <1>1 DEF ServerInv, ServerTypeOK
<1>3. DispatchOK'
  <2>1. \A a \in active : a.id \in ConnIds
    BY DEF ServerInv, ServerTypeOK
  <2>2. \A a \in active : a.id # c /\ Up(a.id)
    BY DEF ServerInv, DispatchOK
  <2>3. \A a \in active' : Up(a.id)' /\ a.id # c
    BY <1>1, <2>1, <2>2
  <2>4. Alive(c)'
    BY <1>1 DEF Up, Alive
  <2>5. \A a, b \in active' : a.id = b.id => a = b
    BY DEF ServerInv, DispatchOK
  <2> QED
    BY <2>3, <2>4, <2>5 DEF DispatchOK
<1> QED
  BY <1>1, <1>2, <1>3 DEF Kept, ServerInv

LEMMA ChannelHupKeeps == ASSUME ServerInv, ChannelHup PROVE Kept
<1> DEFINE c == cur.id
<1>1. /\ lpc = "channel" /\ cur \in [id : 0..MaxConns, ev : EventSet] /\ c \in ConnIds /\ Up(c)
  BY DEF ServerInv, ServerTypeOK, DispatchOK, ChannelHup
<1>2. cur' \in [id : 0..MaxConns, ev : EventSet] /\ cur'.id = c /\ cur'.ev \cap {"in", "hup"} = {}
  BY <1>1 DEF ChannelHup, EventSet
<1>3. HandleClose(c) /\ UNCHANGED <<nextConnId, lpc, active, batch, held>>
  BY DEF ChannelHup
<1> QED
  BY <1>1, <1>2, <1>3, CloseInDispatch

LEMMA ChannelReadKeeps == ASSUME ServerInv, ChannelRead PROVE Kept
<1> DEFINE c == cur.id
<1>1. /\ lpc = "channel" /\ cur \in [id : 0..MaxConns, ev : EventSet] /\ c \in ConnIds /\ Up(c)
      /\ UNCHANGED <<nextConnId, active, batch, held>>
  BY DEF ServerInv, ServerTypeOK, DispatchOK, ChannelRead
<1>2. cur' \in [id : 0..MaxConns, ev : EventSet] /\ cur'.id = c /\ cur'.ev \cap {"in", "hup"} = {}
  BY <1>1 DEF ChannelRead, EventSet
<1>3. CASE HandleClose(c) /\ lpc' = lpc
  BY <1>1, <1>2, <1>3, CloseInDispatch
<1>4. CASE UNCHANGED <<conn, connections, pending, failed>> /\ (lpc' = lpc \/ lpc' = "callback")
  <2>1. ServerTypeOK'
    BY <1>1, <1>2, <1>4 DEF ServerInv, ServerTypeOK
  <2>2. DispatchOK'
    BY <1>1, <1>2, <1>4 DEF ServerInv, DispatchOK, Up, Alive
  <2> QED
    BY <1>1, <1>4, <2>1, <2>2, LoopMoves
<1> QED
  BY <1>3, <1>4 DEF ChannelRead

-----------------------------------------------------------------------------
(* The batch. *)

LEMMA DispatchDoneKeeps == ASSUME ServerInv, DispatchDone PROVE Kept
<1>1. /\ lpc = "dispatch" /\ lpc' = "batch" /\ batch' = pending /\ pending' = <<>>
      /\ held' = {t[2] : t \in Range(pending)}
      /\ UNCHANGED <<nextConnId, conn, connections, failed, active, cur>>
      /\ batch = <<>> /\ pending \in Seq(TaskSet)
  BY DEF ServerInv, ServerTypeOK, DispatchDone, connVars
<1>2. /\ Range(batch) = {} /\ Range(pending') = {} /\ Range(batch') = Range(pending)
  BY <1>1 DEF Range
<1>3. Tasks' = Tasks /\ Tasks = Range(pending)
  BY <1>2 DEF Tasks
<1>4. \A t \in Tasks : t[2] \in ConnIds
  BY <1>1, TaskTypes, RangeOfSeq, <1>3
<1>5. ServerTypeOK'
  <2>1. held' \in SUBSET ConnIds
    BY <1>1, <1>3, <1>4
  <2>2. <<>> \in Seq(TaskSet)
    BY EmptySeq
  <2> QED
    BY <1>1, <2>1, <2>2 DEF ServerInv, ServerTypeOK
<1>6. \A d \in ConnIds : (Up(d)' <=> Up(d)) /\ (Alive(d)' <=> Alive(d))
  BY <1>1 DEF Up, Alive
<1>7. \A d \in ConnIds : ConnOK(d)' /\ Legal(d)
  BY <1>1, <1>3, <1>6 DEF ServerInv, ConnOK, Legal
<1>8. FdsDistinct'
  BY <1>1, <1>6 DEF ServerInv, FdsDistinct
<1>9. DispatchOK'
  BY <1>1 DEF ServerInv, DispatchOK
<1>10. TasksOK'
  <2>1. \A t \in Tasks' : Alive(t[2])'
    BY <1>3, <1>4, <1>6 DEF ServerInv, TasksOK
  <2>2. \A d \in held' : Alive(d)'
    BY <1>1, <1>3, <2>1
  <2>3. \A d \in ConnIds : Destroy(d) \in Tasks' => conn'[d].state = "kDisconnected" /\ conn'[d].added
    BY <1>1, <1>3 DEF ServerInv, TasksOK
  <2>4. \A d \in ConnIds : Once(pending', Destroy(d)) /\ Once(batch', Destroy(d))
    BY <1>1 DEF ServerInv, TasksOK, Once
  <2> QED
    BY <1>2, <2>1, <2>2, <2>3, <2>4 DEF TasksOK
<1>11. Tracked
  BY <1>1, <1>6 DEF Tracked, NoneMoves
<1> QED
  BY <1>5, <1>7, <1>8, <1>9, <1>10, <1>11 DEF Kept, ServerInv

(* The first functor of the batch. *)
LEMMA TakeTask ==
  ASSUME ServerInv, lpc = "batch", batch # <<>>, batch' = Tail(batch)
  PROVE  /\ batch' \in Seq(TaskSet) /\ Head(batch) \in TaskSet /\ Head(batch) \in Range(batch)
         /\ Head(batch)[2] \in ConnIds
         /\ Range(batch') \subseteq Range(batch)
         /\ \A t \in Range(batch) : t # Head(batch) => t \in Range(batch')
         /\ \A d \in ConnIds : Once(batch', Destroy(d))
         /\ \A d \in ConnIds : Head(batch) = Destroy(d) => Destroy(d) \notin Range(batch')
<1>1. batch \in Seq(TaskSet)
  BY DEF ServerInv, ServerTypeOK
<1>2. \A d \in ConnIds : Once(batch, Destroy(d))
  BY DEF ServerInv, TasksOK
<1>3. /\ Tail(batch) \in Seq(TaskSet) /\ Head(batch) \in TaskSet /\ Head(batch) \in Range(batch)
      /\ Range(Tail(batch)) \subseteq Range(batch)
      /\ \A t \in Range(batch) : t # Head(batch) => t \in Range(Tail(batch))
      /\ \A t : Once(batch, t) => Once(Tail(batch), t)
      /\ Once(batch, Head(batch)) => Head(batch) \notin Range(Tail(batch))
  BY <1>1, QueueShrinks
<1>4. Head(batch)[2] \in ConnIds
  BY <1>3, TaskTypes
<1> QED
  BY <1>2, <1>3, <1>4

LEMMA ForceCloseInLoopKeeps == ASSUME ServerInv, ForceCloseInLoop PROVE Kept
<1> DEFINE c == Head(batch)[2]
<1>1. /\ lpc = "batch" /\ batch # <<>> /\ Head(batch)[1] = "forceCloseInLoop" /\ batch' = Tail(batch)
      /\ UNCHANGED <<nextConnId, lpc, active, cur, held>>
  BY DEF ForceCloseInLoop, NextTask
<1>2. /\ batch' \in Seq(TaskSet) /\ Head(batch) \in TaskSet /\ c \in ConnIds
      /\ Range(batch') \subseteq Range(batch)
      /\ \A t \in Range(batch) : t # Head(batch) => t \in Range(batch')
      /\ \A d \in ConnIds : Once(batch', Destroy(d))
  BY <1>1, TakeTask
<1>3. \A d \in ConnIds : Destroy(d) # Head(batch)
  BY <1>1, <1>2 DEF Destroy
<1>4. \A d \in ConnIds : Destroy(d) \in Range(batch) => Destroy(d) \in Range(batch')
  BY <1>2, <1>3
<1>5. DispatchOK' <=> \A a, b \in active : a.id = b.id => a = b
  BY <1>1 DEF DispatchOK
<1>6. CASE Up(c) /\ HandleClose(c)
  <2>1. /\ conn' \in [ConnIds -> ConnRecord] /\ pending' \in Seq(TaskSet)
        /\ \A d \in ConnIds : ConnOK(d)' /\ Legal(d)
        /\ FdsDistinct' /\ TasksOK' /\ Tracked
    BY <1>1, <1>2, <1>4, <1>6, CloseKeeps
  <2>2. ServerTypeOK'
    BY <1>1, <1>2, <2>1 DEF ServerInv, ServerTypeOK
  <2> QED
    BY <1>5, <2>1, <2>2 DEF Kept, ServerInv, DispatchOK
<1>7. CASE UNCHANGED <<conn, connections, pending, failed>>
  <2>1. ServerTypeOK'
    BY <1>1, <1>2, <1>7 DEF ServerInv, ServerTypeOK
  <2>2. \A d \in ConnIds : (Up(d)' <=> Up(d)) /\ (Alive(d)' <=> Alive(d))
    BY <1>7 DEF Up, Alive
  <2>3. Tasks' \subseteq Tasks /\ \A d \in ConnIds : Destroy(d) \in Tasks => Destroy(d) \in Tasks'
    BY <1>2, <1>4, <1>7 DEF Tasks
  <2>4. \A d \in ConnIds : ConnOK(d)' /\ Legal(d)
    BY <1>1, <1>7, <2>2, <2>3 DEF ServerInv, ConnOK, Legal
  <2>5. FdsDistinct'
    BY <1>7, <2>2 DEF ServerInv, FdsDistinct
  <2>6. TasksOK'
    <3>1. (\A t \in Tasks : t[2] \in ConnIds) /\ held \subseteq ConnIds
      BY TaskTypes, RangeOfSeq DEF Tasks, ServerInv, ServerTypeOK
    <3>2. \A t \in Tasks' : Alive(t[2])'
      BY <2>2, <2>3, <3>1 DEF ServerInv, TasksOK
    <3>3. \A d \in held' : Alive(d)'
      BY <1>1, <2>2, <3>1 DEF ServerInv, TasksOK
    <3>4. \A d \in ConnIds : Destroy(d) \in Tasks' => conn'[d].state = "kDisconnected" /\ conn'[d].added
      BY <1>7, <2>3 DEF ServerInv, TasksOK
    <3>5. \A d \in ConnIds : ~(Destroy(d) \in Range(pending') /\ Destroy(d) \in Range(batch'))
      BY <1>2, <1>7 DEF ServerInv, TasksOK
    <3> QED
      BY <1>2, <1>7, <3>2, <3>3, <3>4, <3>5 DEF ServerInv, TasksOK
  <2>7. Tracked
    BY <1>7, <2>2 DEF Tracked, NoneMoves
  <2> QED
    BY <1>5, <2>1, <2>4, <2>5, <2>6, <2>7 DEF Kept, ServerInv, DispatchOK
<1> QED
  BY <1>6, <1>7 DEF ForceCloseInLoop

(* connectDestroyed() finds its connection down: it was queued by the one  *)
(* handleClose().                                                          *)
LEMMA ConnectDestroyedKeeps == ASSUME ServerInv, ConnectDestroyed PROVE Kept
<1>0. /\ lpc = "batch" /\ batch # <<>> /\ Head(batch)[1] = "connectDestroyed" /\ batch' = Tail(batch)
      /\ UNCHANGED <<nextConnId, connections, lpc, active, cur, pending, held>>
  BY DEF ConnectDestroyed, NextTask
<1>1. PICK c \in ConnIds : c = Head(batch)[2]
  BY <1>0, TakeTask
<1>2. Head(batch) = Destroy(c)
  BY <1>0, <1>1, TakeTask, TaskTypes DEF Destroy
<1>3. /\ batch' \in Seq(TaskSet) /\ Destroy(c) \in Tasks
      /\ Range(batch') \subseteq Range(batch)
      /\ \A t \in Range(batch) : t # Destroy(c) => t \in Range(batch')
      /\ \A d \in ConnIds : Once(batch', Destroy(d))
      /\ Destroy(c) \notin Range(batch')
  BY <1>0, <1>2, TakeTask DEF Tasks
<1>4. conn[c].state = "kDisconnected" /\ conn[c].added /\ ~Up(c) /\ Alive(c)
  BY <1>3 DEF ServerInv, TasksOK, Up, Alive
<1>5. conn[c] \in ConnRecord /\ ConnOK(c) /\ conn \in [ConnIds -> ConnRecord] /\ conn[c].events = {}
  BY <1>4 DEF ServerInv, ServerTypeOK, ConnOK
<1> DEFINE r == [conn[c] EXCEPT !.added = FALSE]
<1>6. conn' = [conn EXCEPT ![c] = r] /\ failed' = failed
  BY <1>1, <1>4, <1>5 DEF ConnectDestroyed, Assert
<1>7. /\ r \in ConnRecord /\ r.out = conn[c].out /\ r.events = {} /\ r.state = "kDisconnected"
      /\ r.name = conn[c].name /\ r.added = FALSE /\ r.fd = conn[c].fd /\ r.wshut = conn[c].wshut
  BY <1>4, <1>5 DEF ConnRecord
<1> HIDE DEF r
<1>8. conn' \in [ConnIds -> ConnRecord] /\ conn'[c] = r /\ \A d \in ConnIds : d # c => conn'[d] = conn[d]
  BY <1>5, <1>6, <1>7
<1>9. ServerTypeOK'
  BY <1>0, <1>3, <1>8 DEF ServerInv, ServerTypeOK
<1>10. \A d \in ConnIds : conn'[d].state = conn[d].state /\ conn'[d].fd = conn[d].fd
  BY <1>4, <1>7, <1>8
<1>11. \A d \in ConnIds : (Up(d)' <=> Up(d)) /\ (Alive(d)' <=> Alive(d)) /\ Legal(d)
  BY <1>10 DEF Up, Alive, Legal
<1>12. \A d \in ConnIds : d # c => (Destroy(d) \in Tasks => Destroy(d) \in Tasks')
  BY <1>0, <1>3, TaskTypes DEF Tasks
<1>13. ASSUME NEW d \in ConnIds PROVE ConnOK(d)'
  <2>1. CASE d = c
    BY <1>0, <1>4, <1>5, <1>7, <1>8, <1>11, <2>1 DEF ConnOK
  <2>2. CASE d # c
    <3>1. ConnOK(d) /\ conn'[d] = conn[d]
      BY <1>8, <2>2 DEF ServerInv
    <3> QED
      BY <1>0, <1>11, <1>12, <2>2, <3>1 DEF ConnOK
  <2> QED
    BY <2>1, <2>2
<1>14. FdsDistinct'
  BY <1>10, <1>11 DEF ServerInv, FdsDistinct
<1>15. DispatchOK'
  BY <1>0 DEF ServerInv, DispatchOK
<1>16. TasksOK'
  <2>1. (\A t \in Tasks : t[2] \in ConnIds) /\ held \subseteq ConnIds
    BY TaskTypes, RangeOfSeq DEF Tasks, ServerInv, ServerTypeOK
  <2>2. Tasks' \subseteq Tasks
    BY <1>0, <1>3 DEF Tasks
  <2>3. \A t \in Tasks' : Alive(t[2])'
    BY <1>11, <2>1, <2>2 DEF ServerInv, TasksOK
  <2>4. \A d \in held' : Alive(d)'
    BY <1>0, <1>11, <2>1 DEF ServerInv, TasksOK
  <2>5. Destroy(c) \notin Tasks'
    <3>1. Destroy(c) \notin Range(pending)
      BY <1>0, <1>2, TakeTask DEF ServerInv, TasksOK
    <3> QED
      BY <1>0, <1>3, <3>1 DEF Tasks
  <2>6. \A d \in ConnIds : Destroy(d) \in Tasks' => conn'[d].state = "kDisconnected" /\ conn'[d].added
    BY <1>8, <2>2, <2>5 DEF ServerInv, TasksOK
  <2>7. \A d \in ConnIds : ~(Destroy(d) \in Range(pending') /\ Destroy(d) \in Range(batch'))
    BY <1>0, <1>3 DEF ServerInv, TasksOK
  <2>8. \A d \in ConnIds : Once(pending', Destroy(d))
    BY <1>0 DEF ServerInv, TasksOK
  <2> QED
    BY <1>3, <2>3, <2>4, <2>6, <2>7, <2>8 DEF TasksOK
<1>17. Tracked
  BY <1>0, <1>6, <1>11 DEF Tracked, NoneMoves
<1> QED
  BY <1>9, <1>11, <1>13, <1>14, <1>15, <1>16, <1>17 DEF Kept, ServerInv

(* A connection that nothing refers to any more is down and its channel    *)
(* has been removed from the poller.                                       *)
LEMMA OrphansAreDown ==
  ASSUME ServerInv, batch = <<>>, NEW c \in Orphans
  PROVE  /\ c \in ConnIds /\ conn[c].state = "kDisconnected" /\ ~conn[c].added
         /\ \A t \in Range(pending) : t[2] # c
<1>1. /\ c \in held /\ c \in ConnIds /\ Alive(c) /\ conn[c] \in ConnRecord /\ ConnOK(c)
      /\ \A p \in connections : p[2] # c
      /\ \A t \in Range(pending) : t[2] # c
  BY DEF ServerInv, ServerTypeOK, TasksOK, Orphans
<1>2. <<ConnName(c), c>> \notin connections
  <2>1. <<ConnName(c), c>>[2] = c
    OBVIOUS
  <2> QED
    BY <1>1, <2>1
<1>3. ~Up(c)
  BY <1>1, <1>2 DEF ConnOK
<1>4. conn[c].state = "kDisconnected"
  BY <1>1, <1>3 DEF Up, Alive, ConnRecord, ConnState
<1>5. Destroy(c) \notin Tasks
  <2>1. Range(batch) = {}
    BY DEF Range
  <2>2. Destroy(c)[2] = c
    BY DEF Destroy
  <2> QED
    BY <1>1, <2>1, <2>2 DEF Tasks
<1>6. ~conn[c].added
  BY <1>1, <1>4, <1>5 DEF ConnOK
<1> QED
  BY <1>1, <1>4, <1>6

LEMMA BatchDoneKeeps == ASSUME ServerInv, BatchDone PROVE Kept
<1>1. /\ lpc = "batch" /\ lpc' = "poll" /\ batch = <<>> /\ held' = {}
      /\ UNCHANGED <<nextConnId, connections, active, cur, pending, batch>>
      /\ conn \in [ConnIds -> ConnRecord]
  BY DEF BatchDone, ServerInv, ServerTypeOK
<1>2. \A c \in Orphans : /\ c \in ConnIds /\ conn[c].state = "kDisconnected" /\ ~conn[c].added
                         /\ \A t \in Range(pending) : t[2] # c
  BY <1>1, OrphansAreDown
<1>3. failed' = failed
  BY <1>2 DEF BatchDone, Assert
<1>4. ASSUME NEW c \in ConnIds, c \in Orphans
      PROVE  /\ conn'[c] \in ConnRecord /\ conn'[c].state = "dead" /\ conn'[c].fd = 0
             /\ conn'[c].out = conn[c].out /\ conn'[c].events = conn[c].events
             /\ conn'[c].name = conn[c].name /\ conn'[c].added = conn[c].added
             /\ conn'[c].wshut = conn[c].wshut
  <2>1. conn'[c] = [conn[c] EXCEPT !.state = "dead", !.fd = 0] /\ conn[c] \in ConnRecord
    BY <1>1, <1>4 DEF BatchDone
  <2> DEFINE q == [conn[c] EXCEPT !.state = "dead"]
  <2>2. /\ q \in ConnRecord /\ q.state = "dead"
        /\ q.out = conn[c].out /\ q.events = conn[c].events /\ q.name = conn[c].name
        /\ q.added = conn[c].added /\ q.wshut = conn[c].wshut
    BY <2>1 DEF ConnRecord, ConnState
  <2>3. conn'[c] = [q EXCEPT !.fd = 0]
    BY <2>1 DEF ConnRecord
  <2> HIDE DEF q
  <2> QED
    BY <2>2, <2>3 DEF ConnRecord
<1>5. \A c \in ConnIds : c \notin Orphans => conn'[c] = conn[c]
  BY DEF BatchDone
<1>6. conn' \in [ConnIds -> ConnRecord]
  <2>1. \A c \in ConnIds : conn'[c] \in ConnRecord
    BY <1>1, <1>4, <1>5
  <2>2. conn' = [c \in ConnIds |-> conn'[c]]
    BY DEF BatchDone
  <2> QED
    BY <2>1, <2>2
<1>7. ServerTypeOK'
  BY <1>1, <1>6 DEF ServerInv, ServerTypeOK
<1>8. \A c \in ConnIds : /\ Up(c)' <=> Up(c)
                         /\ c \notin Orphans => (Alive(c)' <=> Alive(c))
                         /\ c \in Orphans => ~Alive(c)' /\ ~Up(c) /\ Alive(c)
                         /\ Legal(c)
  BY <1>2, <1>4, <1>5 DEF Up, Alive, Legal
<1>9. Tasks' = Tasks /\ Tasks = Range(pending)
  <2>1. Range(batch) = {}
    BY <1>1 DEF Range
  <2> QED
    BY <1>1, <2>1 DEF Tasks
<1>10. ASSUME NEW c \in ConnIds PROVE ConnOK(c)'
  <2>0. ConnOK(c)
    BY DEF ServerInv
  <2>1. CASE c \in Orphans
    <3>1. conn[c].state # "none" /\ conn'[c].state # "none" /\ conn'[c].state # "kDisconnected"
          /\ conn'[c].state # "kConnected"
      BY <1>2, <1>4, <2>1
    <3> QED
      BY <1>1, <1>2, <1>4, <1>8, <2>0, <2>1, <3>1 DEF ConnOK
  <2>2. CASE c \notin Orphans
    BY <1>1, <1>5, <1>8, <1>9, <2>0, <2>2 DEF ConnOK
  <2> QED
    BY <2>1, <2>2
<1>11. FdsDistinct'
  BY <1>5, <1>8 DEF ServerInv, FdsDistinct
<1>12. DispatchOK'
  BY <1>1 DEF ServerInv, DispatchOK
<1>13. TasksOK'
  <2>1. \A t \in Tasks : t[2] \in ConnIds /\ t[2] \notin Orphans
    BY <1>2, <1>9, TaskTypes, RangeOfSeq DEF ServerInv, ServerTypeOK
  <2>2. \A t \in Tasks' : Alive(t[2])'
    BY <1>8, <1>9, <2>1 DEF ServerInv, TasksOK
  <2>3. \A c \in ConnIds : Destroy(c) \in Tasks => c \notin Orphans
    <3>1. \A c : Destroy(c)[2] = c
      BY DEF Destroy
    <3> QED
      BY <2>1, <3>1
  <2>4. \A c \in ConnIds : Destroy(c) \in Tasks' => conn'[c].state = "kDisconnected" /\ conn'[c].added
    BY <1>5, <1>9, <2>3 DEF ServerInv, TasksOK
  <2> QED
    BY <1>1, <2>2, <2>4 DEF ServerInv, TasksOK
<1>14. Tracked
  BY <1>1, <1>3, <1>8 DEF Tracked, NoneMoves
<1> QED
  BY <1>7, <1>8, <1>10, <1>11, <1>12, <1>13, <1>14 DEF Kept, ServerInv

-----------------------------------------------------------------------------
(* Accepting. *)

LEMMA LowestExists == ASSUME NEW S, S \subseteq Nat, S # {} PROVE Min(S) \in S
<1>1. PICK x \in S : \A y \in S : ~(y < x)
  <2>1. IsWellFoundedOn(OpToRel(<, Nat), Nat)
    BY NatLessThanWellFounded
  <2>2. PICK x \in S : \A y \in S : ~(<<y, x>> \in OpToRel(<, Nat))
    BY <2>1, WFMin
  <2> QED
    BY <2>2 DEF OpToRel
<1>2. \A y \in S : x <= y
  BY <1>1
<1> QED
  BY <1>1, <1>2 DEF Min

Fresh(c, f) == [NoConn EXCEPT !.state = "kConnected", !.name = CallbackName(c),
                              !.events = {"read"}, !.added = TRUE, !.fd = f]

LEMMA Established ==
  ASSUME NEW c \in ConnIds, NEW f \in Nat
  PROVE  /\ Fresh(c, f) \in ConnRecord /\ Fresh(c, f).state = "kConnected"
         /\ Fresh(c, f).name = CallbackName(c) /\ Fresh(c, f).events = {"read"}
         /\ Fresh(c, f).added = TRUE /\ Fresh(c, f).fd = f
         /\ Fresh(c, f).out = 0 /\ Fresh(c, f).wshut = FALSE
<1> DEFINE n == CallbackName(c)
           a == [NoConn EXCEPT !.state = "kConnected"]
           b == [a EXCEPT !.name = n]
           e == [b EXCEPT !.events = {"read"}]
           g == [e EXCEPT !.added = TRUE]
           h == [g EXCEPT !.fd = f]
<1>0. n \in {<<>>} \cup {CallbackName(d) : d \in ConnIds}
  OBVIOUS
<1>1. /\ NoConn \in ConnRecord /\ NoConn.state = "none" /\ NoConn.name = <<>> /\ NoConn.events = {}
      /\ NoConn.added = FALSE /\ NoConn.fd = 0 /\ NoConn.out = 0 /\ NoConn.wshut = FALSE
  BY BoundsAssumption DEF NoConn, ConnRecord, ConnState
<1>2. /\ a \in ConnRecord /\ a.state = "kConnected" /\ a.name = <<>> /\ a.events = {}
      /\ a.added = FALSE /\ a.fd = 0 /\ a.out = 0 /\ a.wshut = FALSE
  BY <1>1 DEF ConnRecord, ConnState
<1>10. Fresh(c, f) = h
  BY DEF Fresh
<1> HIDE DEF a, n
<1>3. /\ b \in ConnRecord /\ b.state = "kConnected" /\ b.name = n /\ b.events = {}
      /\ b.added = FALSE /\ b.fd = 0 /\ b.out = 0 /\ b.wshut = FALSE
  BY <1>0, <1>2 DEF ConnRecord
<1> HIDE DEF b
<1>4. /\ e \in ConnRecord /\ e.state = "kConnected" /\ e.name = n /\ e.events = {"read"}
      /\ e.added = FALSE /\ e.fd = 0 /\ e.out = 0 /\ e.wshut = FALSE
  BY <1>3 DEF ConnRecord
<1> HIDE DEF e
<1>5. /\ g \in ConnRecord /\ g.state = "kConnected" /\ g.name = n /\ g.events = {"read"}
      /\ g.added = TRUE /\ g.fd = 0 /\ g.out = 0 /\ g.wshut = FALSE
  BY <1>4 DEF ConnRecord
<1> HIDE DEF g
<1>6. /\ h \in ConnRecord /\ h.state = "kConnected" /\ h.name = n /\ h.events = {"read"}
      /\ h.added = TRUE /\ h.fd = f /\ h.out = 0 /\ h.wshut = FALSE
  BY <1>5 DEF ConnRecord
<1> HIDE DEF h
<1> QED
  BY <1>6, <1>10 DEF n

(* newConnection(): the number is new, and the descriptor is none that an  *)
(* older connection still holds.                                           *)
LEMMA NewConnectionKeeps == ASSUME ServerInv, NewConnection PROVE Kept
<1>0. PICK c \in ConnIds : c = nextConnId
  BY BoundsAssumption DEF NewConnection, ServerInv, ServerTypeOK, ConnIds
<1>1. /\ lpc = "dispatch" /\ lpc' = "callback" /\ FreeFds # {} /\ nextConnId' = c + 1
      /\ connections' = connections \cup {<<ConnName(c), c>>}
      /\ UNCHANGED <<active, pending, batch, held>>
      /\ cur' = [id |-> c, ev |-> {}]
      /\ conn \in [ConnIds -> ConnRecord] /\ c \in Nat /\ c >= 1 /\ c <= MaxConns
  BY <1>0, BoundsAssumption DEF NewConnection, ServerInv, ServerTypeOK, ConnIds
<1>2. conn[c].state = "none"
  <2>1. ConnOK(c) /\ c >= nextConnId
    BY <1>0, <1>1 DEF ServerInv
  <2> QED
    BY <2>1 DEF ConnOK
<1>3. failed' = failed
  BY <1>0, <1>2 DEF NewConnection, Assert
<1> DEFINE f == Min(FreeFds)
<1>4. f \in FreeFds /\ f \in Fds /\ f \in Nat
  <2>1. FreeFds \subseteq Nat
    BY FdsAssumption DEF FreeFds
  <2>2. f \in FreeFds
    BY <1>1, <2>1, LowestExists
  <2> QED
    BY <2>1, <2>2 DEF FreeFds
<1>5. \A d \in ConnIds : Alive(d) => conn[d].fd # f
  BY <1>4 DEF FreeFds, UsedFds
<1> DEFINE r == Fresh(c, f)
<1>6. conn' = [conn EXCEPT ![c] = r]
  BY <1>0 DEF NewConnection, Fresh
<1> HIDE DEF f
<1>7. /\ r.state = "kConnected" /\ r.name = CallbackName(c) /\ r.events = {"read"} /\ r.added = TRUE
      /\ r.fd = f /\ r.out = 0 /\ r.wshut = FALSE
      /\ r \in ConnRecord
  BY ZenonT(40), <1>4, Established
<1> HIDE DEF r
<1>9. conn' \in [ConnIds -> ConnRecord] /\ conn'[c] = r /\ \A d \in ConnIds : d # c => conn'[d] = conn[d]
  BY <1>1, <1>6, <1>7
<1>10. ServerTypeOK'
  <2>1. nextConnId' \in 1..MaxConns + 1
    BY <1>1, BoundsAssumption
  <2>2. cur' \in [id : 0..MaxConns, ev : EventSet]
    BY <1>1, BoundsAssumption DEF EventSet
  <2>3. /\ active' \in SUBSET [id : ConnIds, ev : EventSet] /\ pending' \in Seq(TaskSet)
        /\ batch' \in Seq(TaskSet) /\ held' \in SUBSET ConnIds
        /\ batch' = <<>> /\ held' = {}
    BY <1>1 DEF ServerInv, ServerTypeOK
  <2> QED
    BY <1>1, <1>9, <2>1, <2>2, <2>3 DEF ServerTypeOK
<1>11. \A d \in ConnIds : d # c => (Up(d)' <=> Up(d)) /\ (Alive(d)' <=> Alive(d))
  BY <1>9 DEF Up, Alive
<1>12. Up(c)' /\ Alive(c)' /\ ~Up(c) /\ ~Alive(c)
  BY <1>2, <1>7, <1>9 DEF Up, Alive
<1>13. \A d \in ConnIds : Legal(d)
  BY <1>2, <1>7, <1>9 DEF Legal
<1>14. Tasks' = Tasks
  BY <1>1 DEF Tasks
<1>15. ASSUME NEW d \in ConnIds PROVE ConnOK(d)'
  <2>1. CASE d = c
    <3>1. conn'[c].state # "none" /\ ~(c >= nextConnId') /\ conn'[c].state # "kDisconnected"
      BY <1>1, <1>7, <1>9
    <3> QED
      BY <1>1, <1>4, <1>7, <1>9, <1>12, <2>1, <3>1 DEF ConnOK
  <2>2. CASE d # c
    <3>1. ConnOK(d) /\ conn'[d] = conn[d] /\ d \in Nat
      BY <1>9, <2>2 DEF ServerInv, ConnIds
    <3>2. d >= nextConnId' <=> d >= nextConnId
      BY <1>0, <1>1, <2>2, <3>1
    <3> QED
      BY <1>1, <1>11, <1>14, <2>2, <3>1, <3>2 DEF ConnOK
  <2> QED
    BY <2>1, <2>2
<1>16. FdsDistinct'
  <2> SUFFICES ASSUME NEW d \in ConnIds, NEW e \in ConnIds,
                      Alive(d)', Alive(e)', conn'[d].fd = conn'[e].fd
               PROVE  d = e
    BY DEF FdsDistinct
  <2>1. CASE d # c /\ e # c
    BY <1>9, <1>11, <2>1 DEF ServerInv, FdsDistinct
  <2>2. CASE d = c /\ e # c
    BY <1>5, <1>7, <1>9, <1>11, <2>2
  <2>3. CASE d # c /\ e = c
    BY <1>5, <1>7, <1>9, <1>11, <2>3
  <2> QED
    BY <2>1, <2>2, <2>3
<1>17. DispatchOK'
  <2>1. \A a \in active : a.id \in ConnIds /\ Up(a.id) /\ a.id # c
    BY <1>1, <1>12 DEF ServerInv, ServerTypeOK, DispatchOK
  <2>2. \A a \in active' : Up(a.id)' /\ a.id # cur'.id
    BY <1>1, <1>11, <2>1
  <2>3. \A a, b \in active' : a.id = b.id => a = b
    BY <1>1 DEF ServerInv, DispatchOK
  <2>4. cur'.id \in ConnIds /\ Alive(cur.id)' /\ Up(cur.id)'
    BY <1>1, <1>12 DEF Up, Alive
  <2> QED
    BY <2>2, <2>3, <2>4 DEF DispatchOK
<1>18. TasksOK'
  <2>1. (\A t \in Tasks : t[2] \in ConnIds) /\ held \subseteq ConnIds
    BY TaskTypes, RangeOfSeq DEF Tasks, ServerInv, ServerTypeOK
  <2>2. \A t \in Tasks' : Alive(t[2])'
    BY <1>11, <1>12, <1>14, <2>1 DEF ServerInv, TasksOK
  <2>3. \A d \in held' : Alive(d)'
    BY <1>1, <1>11, <1>12, <2>1 DEF ServerInv, TasksOK
  <2>4. \A d \in ConnIds : Destroy(d) \in Tasks' => conn'[d].state = "kDisconnected" /\ conn'[d].added
    BY <1>2, <1>9, <1>14 DEF ServerInv, TasksOK
  <2> QED
    BY <1>1, <2>2, <2>3, <2>4 DEF ServerInv, TasksOK
<1>19. Tracked
  <2>1. ComesUp(c)
    BY <1>1, <1>3, <1>11, <1>12 DEF ComesUp
  <2> QED
    BY <2>1 DEF Tracked
<1> QED
  BY <1>10, <1>13, <1>15, <1>16, <1>17, <1>18, <1>19 DEF Kept, ServerInv

-----------------------------------------------------------------------------
(* Every step. *)

LEMMA NextKeeps == ASSUME ServerInv, Next PROVE Kept
<1>1. CASE LoopStep
  BY <1>1, PollKeeps, TakeChannelKeeps, ChannelHupKeeps, ChannelReadKeeps, ChannelWriteKeeps,
     ControlKeeps, DispatchDoneKeeps, ForceCloseInLoopKeeps, ConnectDestroyedKeeps, BatchDoneKeeps
     DEF LoopStep
<1>2. CASE NewConnection
  BY <1>2, NewConnectionKeeps
<1>3. CASE UserCall
  BY <1>3, SendKeeps, ShutdownKeeps, ForceCloseKeeps, SetReadingKeeps DEF UserCall
<1>4. CASE \E c \in ConnIds : PeerSends(c) \/ PeerEnds(c)
  BY <1>4, PeerKeeps
<1> QED
  BY <1>1, <1>2, <1>3, <1>4 DEF Next

LEMMA StutterKeeps == ASSUME ServerInv, UNCHANGED vars PROVE Kept
<1>1. UNCHANGED <<nextConnId, conn, connections, pending, batch, held, failed, active, cur, lpc>>
  BY DEF vars, connVars, loopVars
<1>2. ServerTypeOK'
  BY <1>1 DEF ServerInv, ServerTypeOK
<1>3. DispatchOK'
  BY <1>1 DEF ServerInv, DispatchOK, Up, Alive
<1> QED
  BY <1>1, <1>2, <1>3, LoopMoves

-----------------------------------------------------------------------------
(* What the invariant gives. *)

LEMMA InvIsSafe ==
  ASSUME ServerInv
  PROVE  TypeOK /\ PollerFdsOwned /\ NoUseAfterFree /\ ShutdownDrains
<1>1. ASSUME NEW c \in ConnIds PROVE conn[c] \in ConnRecord /\ ConnOK(c)
  BY DEF ServerInv, ServerTypeOK
<1>2. Range(pending) \cup Range(batch) \subseteq TaskSet
  BY RangeOfSeq DEF ServerInv, ServerTypeOK
<1>3. TypeOK
  <2>1. ASSUME NEW c \in ConnIds
        PROVE  /\ conn[c].state \in States
               /\ conn[c].state = "none" <=> c >= nextConnId
               /\ conn[c].events \subseteq {"read", "write"}
               /\ conn[c].out \in 0..MaxOutput
               /\ "write" \in conn[c].events <=> conn[c].out > 0 /\ Up(c)
    BY <1>1 DEF ConnRecord, ConnState, ConnOK, States
  <2> QED
    BY <1>2, <2>1 DEF ServerInv, ServerTypeOK, TypeOK
<1>4. PollerFdsOwned
  <2> SUFFICES ASSUME NEW c \in ConnIds, NEW d \in ConnIds, conn[c].added
               PROVE  Alive(c) /\ (conn[c].fd = conn[d].fd => c = d)
    BY DEF PollerFdsOwned
  <2>1. Alive(c) /\ conn[c].fd \in Fds
    BY <1>1 DEF ConnOK
  <2>2. ~Alive(d) => conn[d].fd = 0
    BY <1>1 DEF ConnOK
  <2> QED
    BY <2>1, <2>2, FdsAssumption DEF ServerInv, FdsDistinct
<1>5. NoUseAfterFree
  BY DEF ServerInv, DispatchOK, TasksOK, Tasks, NoUseAfterFree
<1>6. ShutdownDrains
  BY <1>1 DEF ConnOK, ShutdownDrains
<1> QED
  BY <1>3, <1>4, <1>5, <1>6

(* The callback of TcpServer's user leaves the connection's name alone. *)
NamesKept == \A c \in ConnIds : CallbackName(c) = ConnName(c)

MapInv == MapIsUp /\ NoAssertFails

(* removeConnectionInLoop() erases one entry: the connection's own. *)
LEMMA ErasesItself ==
  ASSUME NamesKept, ServerInv, MapIsUp, NEW c \in ConnIds, Up(c)
  PROVE  Erased(c) = {<<ConnName(c), c>>}
<1>1. conn[c].name = ConnName(c)
  <2>1. ConnOK(c) /\ conn[c].state # "none"
    BY DEF ServerInv, Up
  <2> QED
    BY <2>1 DEF ConnOK, NamesKept
<1>2. \A d \in ConnIds : ConnName(d) = ConnName(c) => d = c
  BY DEF ConnName
<1>3. <<ConnName(c), c>> \in connections /\ <<ConnName(c), c>>[1] = ConnName(c)
  BY DEF MapIsUp
<1>4. ASSUME NEW p \in connections, p[1] = ConnName(c) PROVE p = <<ConnName(c), c>>
  <2>1. PICK d \in ConnIds : p = <<ConnName(d), d>>
    BY DEF MapIsUp
  <2>2. d = c
    BY <1>2, <1>4, <2>1
  <2> QED
    BY <2>1, <2>2
<1> QED
  BY <1>1, <1>3, <1>4 DEF Erased

LEMMA MapInitInv == Init => MapInv
<1> SUFFICES ASSUME Init PROVE MapInv
  OBVIOUS
<1>1. \A c \in ConnIds : ~Up(c)
  BY DEF Init, NoConn, Up
<1>2. connections = {} /\ failed = "none"
  BY DEF Init
<1> QED
  BY <1>1, <1>2 DEF MapInv, MapIsUp, NoAssertFails

LEMMA MapInvStep == ASSUME NamesKept, ServerInv, MapInv, Tracked PROVE MapInv'
<1>1. MapIsUp /\ failed = "none"
  BY DEF MapInv, NoAssertFails
<1>2. CASE NoneMoves
  BY <1>1, <1>2 DEF NoneMoves, MapInv, MapIsUp, NoAssertFails
<1>3. ASSUME NEW c \in ConnIds, GoesDown(c) PROVE MapInv'
  <2>1. Erased(c) = {<<ConnName(c), c>>}
    BY <1>1, <1>3, ErasesItself DEF GoesDown
  <2>2. Cardinality(Erased(c)) = 1
    BY <2>1, FS_Singleton
  <2>3. failed' = "none"
    BY <1>1, <1>3, <2>2 DEF GoesDown, Assert
  <2>4. connections' = connections \ {<<ConnName(c), c>>}
    BY <1>3, <2>1 DEF GoesDown
  <2>5. \A d \in ConnIds : Up(d)' <=> Up(d) /\ d # c
    BY <1>3 DEF GoesDown
  <2>6. MapIsUp'
    BY <1>1, <2>4, <2>5 DEF MapIsUp
  <2> QED
    BY <2>3, <2>6 DEF MapInv, NoAssertFails
<1>4. ASSUME NEW c \in ConnIds, ComesUp(c) PROVE MapInv'
  <2>1. \A d \in ConnIds : Up(d)' <=> Up(d) \/ d = c
    BY <1>4 DEF ComesUp
  <2>2. connections' = connections \cup {<<ConnName(c), c>>} /\ failed' = "none"
    BY <1>1, <1>4 DEF ComesUp
  <2>3. MapIsUp'
    BY <1>1, <2>1, <2>2 DEF MapIsUp
  <2> QED
    BY <2>2, <2>3 DEF MapInv, NoAssertFails
<1> QED
  BY <1>2, <1>3, <1>4 DEF Tracked

(* The invariant of TcpServer, whatever names the callback gives. *)
THEOREM ServerInvariant == Spec => []ServerInv
<1>1. ServerInv /\ [Next]_vars => ServerInv'
  BY NextKeeps, StutterKeeps DEF Kept
<1> QED
  BY ServerInitInv, <1>1, PTL DEF Spec

(* connections_ holds exactly the connections that are up, the poller maps *)
(* a descriptor to its present owner, and shutdown() cuts nothing off, for *)
(* any number of connections and descriptors.                              *)
THEOREM ConnectionsAreSound == ASSUME NamesKept PROVE Spec => []ConnectionsSound
<1>1. ServerInv /\ MapInv /\ [Next]_vars => ServerInv' /\ MapInv'
  BY NextKeeps, StutterKeeps, MapInvStep DEF Kept
<1>2. ServerInv /\ MapInv => ConnectionsSound
  BY InvIsSafe DEF MapInv, ConnectionsSound
<1> QED
  BY ServerInitInv, MapInitInv, <1>1, <1>2, PTL DEF Spec

(* Whatever order closes, functors queued earlier and the events of one    *)
(* poll() come in, no assert() fails and nothing runs on a destroyed       *)
(* connection.                                                             *)
THEOREM NothingIsMisused == ASSUME NamesKept PROVE Spec => []NoMisuse
<1>1. ServerInv /\ MapInv /\ [Next]_vars => ServerInv' /\ MapInv'
  BY NextKeeps, StutterKeeps, MapInvStep DEF Kept
<1>2. ServerInv /\ MapInv => NoMisuse
  BY InvIsSafe DEF MapInv, NoMisuse
<1> QED
  BY ServerInitInv, MapInitInv, <1>1, <1>2, PTL DEF Spec

-----------------------------------------------------------------------------
(* The sessions of IMServer. *)

LEMMA SessionsFollow ==
  ASSUME Renames, ServerInv, SessionsAreUp, Kept, OnConnection
  PROVE  SessionsAreUp'
<1>1. \A c, d \in ConnIds : Uuid(c) = Uuid(d) => c = d
  BY DEF Uuid
<1>2. \A c \in ConnIds : Up(c)' <=> (Up(c) /\ c \notin WentDown) \/ c \in CameUp
  <2> SUFFICES ASSUME NEW c \in ConnIds
               PROVE  Up(c)' <=> (Up(c) /\ c \notin WentDown) \/ c \in CameUp
    OBVIOUS
  <2>1. Legal(c)
    BY DEF Kept
  <2> QED
    BY <2>1 DEF Legal, UpStates, Up, WentDown, CameUp
<1>3. \A c \in WentDown : c \in ConnIds /\ c \notin CameUp /\ OnClose(c) = {Uuid(c)}
  <2> SUFFICES ASSUME NEW c \in WentDown PROVE c \in ConnIds /\ c \notin CameUp /\ OnClose(c) = {Uuid(c)}
    OBVIOUS
  <2>1. c \in ConnIds /\ Up(c) /\ conn'[c].state = "kDisconnected"
    BY DEF WentDown
  <2>2. conn'[c].name = CallbackName(c)
    BY <2>1 DEF Kept, ServerInv, ConnOK
  <2>3. conn'[c].name = Uuid(c)
    BY <2>1, <2>2 DEF Renames
  <2> QED
    BY <2>1, <2>3 DEF OnClose, CameUp
<1>4. UNION {OnClose(c) : c \in WentDown} = {Uuid(c) : c \in WentDown}
  BY <1>3
<1>5. sessions' = (sessions \cup {Uuid(c) : c \in CameUp}) \ {Uuid(c) : c \in WentDown}
  BY <1>4 DEF OnConnection
<1>6. CameUp \subseteq ConnIds /\ WentDown \subseteq ConnIds
  BY DEF CameUp, WentDown
<1>7. \A u : u \in sessions' <=> \E c \in ConnIds : u = Uuid(c) /\ ((Up(c) /\ c \notin WentDown) \/ c \in CameUp)
  BY <1>1, <1>3, <1>5, <1>6 DEF SessionsAreUp
<1>8. \A u : u \in sessions' <=> \E c \in ConnIds : u = Uuid(c) /\ Up(c)'
  BY <1>2, <1>7
<1> QED
  BY <1>5, <1>8 DEF SessionsAreUp

(* _mapClientSession has a session for each connection that is up and for  *)
(* no other, although the connections' names were overwritten, so that a   *)
(* message callback never runs without its session.                        *)
THEOREM SessionsAreSound == ASSUME Renames PROVE IMSpec => []SessionsSound
<1> DEFINE I == ServerInv /\ SessionsAreUp
<1>1. IMInit => I
  <2> SUFFICES ASSUME IMInit PROVE I
    OBVIOUS
  <2>1. ServerInv
    BY ServerInitInv DEF IMInit
  <2>2. \A c \in ConnIds : ~Up(c)
    BY DEF IMInit, Init, NoConn, Up
  <2>3. sessions = {}
    BY DEF IMInit
  <2> QED
    BY <2>1, <2>2, <2>3 DEF SessionsAreUp
<1>2. I /\ [IMNext]_IMVars => I'
  <2> SUFFICES ASSUME I, [IMNext]_IMVars PROVE I'
    OBVIOUS
  <2>1. CASE IMNext
    BY <2>1, NextKeeps, SessionsFollow DEF IMNext, Kept
  <2>2. CASE UNCHANGED IMVars
    <3>1. UNCHANGED vars /\ sessions' = sessions /\ conn' = conn
      BY <2>2 DEF IMVars, vars, connVars
    <3>2. ServerInv'
      BY <3>1, StutterKeeps DEF Kept
    <3>3. \A c \in ConnIds : Up(c)' <=> Up(c)
      BY <3>1 DEF Up
    <3> QED
      BY <3>1, <3>2, <3>3 DEF SessionsAreUp
  <2> QED
    BY <2>1, <2>2
<1>3. I => SessionsSound
  <2> SUFFICES ASSUME I PROVE SessionsSound
    OBVIOUS
  <2>1. ShutdownDrains
    BY InvIsSafe
  <2>2. lpc = "callback" => cur.id \in ConnIds /\ Up(cur.id)
    BY DEF ServerInv, DispatchOK
  <2>3. SessionOutlivesCallback
    BY <2>2 DEF SessionsAreUp, SessionOutlivesCallback
  <2> QED
    BY <2>1, <2>3 DEF SessionsSound
<1> QED
  BY <1>1, <1>2, <1>3, PTL DEF IMSpec
=============================================================================
