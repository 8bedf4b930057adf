---------------------------- MODULE CodecProofs ----------------------------
(***************************************************************************)
(* Proofs about what speaks a protocol on a connection: a session gives    *)
(* process() the packets as they were sent however TCP cuts the stream,    *)
(* BinaryWriter lays out an answer that its reader takes apart again, the  *)
(* protobuf codec hands out whole messages up to the first bad frame, the  *)
(* HTTP server gives each request its own reply in order, and every RPC    *)
(* call gets its own answer, for any number of packets, frames, requests   *)
(* and calling threads.                                                    *)
(***************************************************************************)
EXTENDS RpcChannel, ClientSession, BinaryWriter, ProtobufCodec, HttpServer, SequenceTheorems,
        FiniteSetTheorems, TLAPS

(* A queue of messages as a set. *)
LEMMA QueueGrows ==
  ASSUME NEW S, NEW s \in Seq(S), NEW e \in S
  PROVE  Append(s, e) \in Seq(S) /\ ToSet(Append(s, e)) = ToSet(s) \cup {e}
<1>1. /\ Append(s, e) \in Seq(S) /\ Len(s) \in Nat /\ DOMAIN s = 1..Len(s)
      /\ DOMAIN Append(s, e) = 1..(Len(s) + 1)
      /\ \A j \in 1..Len(s) : Append(s, e)[j] = s[j]
      /\ Append(s, e)[Len(s) + 1] = e
  BY AppendProperties, LenProperties
<1>2. Len(s) + 1 \in 1..(Len(s) + 1) /\ 1..Len(s) \subseteq 1..(Len(s) + 1)
      /\ \A j \in 1..(Len(s) + 1) : j \in 1..Len(s) \/ j = Len(s) + 1
  BY <1>1
<1> QED
  BY <1>1, <1>2 DEF ToSet

LEMMA QueueElements == ASSUME NEW S, NEW s \in Seq(S) PROVE \A e \in ToSet(s) : e \in S
<1>1. \A j \in DOMAIN s : s[j] \in S
  BY ElementOfSeq, LenProperties
<1> QED
  BY <1>1 DEF ToSet

LEMMA QueueShrinks ==
  ASSUME NEW S, NEW s \in Seq(S), s # <<>>
  PROVE  /\ Tail(s) \in Seq(S) /\ Head(s) \in S /\ Head(s) \in ToSet(s)
         /\ ToSet(s) = ToSet(Tail(s)) \cup {Head(s)}
<1>1. /\ Tail(s) \in Seq(S) /\ Head(s) \in S /\ Head(s) = s[1]
      /\ Len(s) \in Nat /\ Len(s) # 0 /\ DOMAIN s = 1..Len(s)
      /\ Len(Tail(s)) = Len(s) - 1 /\ DOMAIN Tail(s) = 1..(Len(s) - 1)
      /\ \A j \in 1..(Len(s) - 1) : Tail(s)[j] = s[j + 1]
  BY HeadTailProperties, LenProperties, EmptySeq
<1>2. /\ 1 \in 1..Len(s)
      /\ \A j \in 1..(Len(s) - 1) : j + 1 \in 1..Len(s)
      /\ \A j \in 1..Len(s) : j = 1 \/ (j - 1 \in 1..(Len(s) - 1) /\ (j - 1) + 1 = j)
  BY <1>1
<1>3. ToSet(Tail(s)) \subseteq ToSet(s)
  BY <1>1, <1>2 DEF ToSet
<1>4. \A e \in ToSet(s) : e \in ToSet(Tail(s)) \cup {Head(s)}
  <2> SUFFICES ASSUME NEW j \in 1..Len(s), j # 1 PROVE s[j] \in ToSet(Tail(s))
    BY <1>1 DEF ToSet
  <2>1. j - 1 \in DOMAIN Tail(s) /\ Tail(s)[j - 1] = s[j]
    BY <1>1, <1>2
  <2> QED
    BY <2>1 DEF ToSet
<1> QED
  BY <1>1, <1>2, <1>3, <1>4 DEF ToSet

-----------------------------------------------------------------------------
(* RpcChannel *)

RequestMessage == [id : Nat, body : RpcCallers]
Answers == RpcCallers \cup RpcErrors
ResponseMessage == [id : Nat, answer : Answers]
CallPoints == {"idle", "numbered", "stored", "sent"}

RpcTypeOK ==
  /\ id \in Nat /\ isUp \in BOOLEAN
  /\ at \in [RpcCallers -> CallPoints] /\ myId \in [RpcCallers -> Nat]
  /\ outstandings \subseteq Nat \X RpcCallers
  /\ requests \in Seq(RequestMessage) /\ serving \subseteq RequestMessage
  /\ responses \in Seq(ResponseMessage)
  /\ answered \in [RpcCallers -> Seq(Answers)]

LEMMA RequestTypes ==
  ASSUME RpcTypeOK
  PROVE  /\ \A m \in ToSet(requests) \cup serving : m \in RequestMessage /\ m.body \in RpcCallers /\ m.id \in Nat
         /\ \A m \in ToSet(responses) : m \in ResponseMessage /\ m.id \in Nat /\ m.answer \in Answers
<1>1. \A m \in ToSet(requests) \cup serving : m \in RequestMessage
  BY QueueElements DEF RpcTypeOK
<1>2. \A m \in ToSet(responses) : m \in ResponseMessage
  BY QueueElements DEF RpcTypeOK
<1> QED
  BY <1>1, <1>2 DEF RequestMessage, ResponseMessage

(* No two calls have one number. *)
NumbersOK == /\ \A c \in RpcCallers : myId[c] <= id
             /\ \A c, d \in RpcCallers : at[c] # "idle" /\ at[d] # "idle" /\ myId[c] = myId[d] => c = d

(* outstandings_ holds the calls that were stored and not answered. *)
OutstandingsOK ==
  /\ \A o \in outstandings : at[o[2]] \in {"stored", "sent"} /\ o[1] = myId[o[2]] /\ answered[o[2]] = <<>>
  /\ \A c \in RpcCallers : at[c] \in {"stored", "sent"} /\ answered[c] = <<>> => <<myId[c], c>> \in outstandings
  /\ \A c \in RpcCallers : answered[c] # <<>> => at[c] = "sent"

OfCall(m, c) == at[c] = "sent" /\ m.id = myId[c]

(* What is on the way belongs to a call that was sent. *)
MessagesOK ==
  /\ \A m \in ToSet(requests) \cup serving : OfCall(m, m.body)
  /\ \A m \in ToSet(responses) : \E c \in RpcCallers : OfCall(m, c) /\ m.answer \in {c} \cup RpcErrors

OnTheWay(c) == \/ \E m \in ToSet(requests) \cup serving : m.id = myId[c]
               \/ \E m \in ToSet(responses) : m.id = myId[c]
NotLost == isUp => \A c \in RpcCallers : at[c] = "sent" /\ answered[c] = <<>> => OnTheWay(c)

RpcInv == RpcTypeOK /\ NumbersOK /\ OutstandingsOK /\ MessagesOK /\ NotLost /\ OwnAnswerOnce

LEMMA RpcInitInv == RpcInit => RpcInv
<1> SUFFICES ASSUME RpcInit PROVE RpcInv
  OBVIOUS
<1>1. ToSet(requests) = {} /\ ToSet(responses) = {}
  BY DEF RpcInit, ToSet
<1>2. RpcTypeOK
  BY DEF RpcInit, RpcTypeOK, CallPoints
<1>3. NumbersOK /\ OutstandingsOK /\ MessagesOK /\ NotLost
  BY <1>1 DEF RpcInit, NumbersOK, OutstandingsOK, MessagesOK, NotLost
<1>4. OwnAnswerOnce
  <2>1. \A c \in RpcCallers : answered[c] = <<>>
    BY DEF RpcInit
  <2> QED
    BY <2>1 DEF OwnAnswerOnce
<1> QED
  BY <1>2, <1>3, <1>4 DEF RpcInv

LEMMA GetIdKeeps ==
  ASSUME RpcInv, NEW c \in RpcCallers, GoesOn(c, "idle", "numbered"), GetId(c),
         UNCHANGED <<serving, responses, isUp, answered>>
  PROVE  RpcInv'
<1>1. /\ at[c] = "idle" /\ at' = [at EXCEPT ![c] = "numbered"] /\ id' = id + 1
      /\ myId' = [myId EXCEPT ![c] = id + 1] /\ UNCHANGED <<outstandings, requests>>
      /\ RpcTypeOK
  BY DEF GoesOn, GetId, RpcInv
<1>2. RpcTypeOK'
  BY <1>1 DEF RpcTypeOK, CallPoints
<1>3. /\ at'[c] = "numbered" /\ myId'[c] = id + 1
      /\ \A d \in RpcCallers : d # c => at'[d] = at[d] /\ myId'[d] = myId[d]
      /\ \A d \in RpcCallers : myId[d] \in Nat /\ myId[d] <= id
  BY <1>1 DEF RpcTypeOK, RpcInv, NumbersOK
<1>4. NumbersOK'
  <2>1. \A d \in RpcCallers : myId'[d] <= id'
    BY <1>1, <1>3 DEF RpcTypeOK
  <2>2. \A d, e \in RpcCallers : at'[d] # "idle" /\ at'[e] # "idle" /\ myId'[d] = myId'[e] => d = e
    BY <1>1, <1>3 DEF RpcTypeOK, RpcInv, NumbersOK
  <2> QED
    BY <2>1, <2>2 DEF NumbersOK
<1>5. OutstandingsOK'
  <2>1. \A o \in outstandings : o[2] # c /\ o[2] \in RpcCallers
    BY <1>1 DEF RpcInv, OutstandingsOK, RpcTypeOK
  <2> QED
    BY <1>1, <1>3, <2>1 DEF RpcInv, OutstandingsOK
<1>6. \A m, d : OfCall(m, d) /\ d \in RpcCallers => OfCall(m, d)'
  BY <1>1, <1>3 DEF OfCall
<1>7. MessagesOK'
  <2>1. \A m \in ToSet(requests) \cup serving : m.body \in RpcCallers
    BY <1>1, RequestTypes
  <2> QED
    BY <1>1, <1>6, <2>1 DEF RpcInv, MessagesOK
<1>8. NotLost' /\ OwnAnswerOnce'
  BY <1>1, <1>3 DEF RpcInv, NotLost, OnTheWay, OwnAnswerOnce
<1> QED
  BY <1>2, <1>4, <1>5, <1>7, <1>8 DEF RpcInv

LEMMA StoreCallKeeps ==
  ASSUME RpcInv, NEW c \in RpcCallers, GoesOn(c, "numbered", "stored"), StoreCall(c),
         UNCHANGED <<serving, responses, isUp, answered>>
  PROVE  RpcInv'
<1>1. /\ at[c] = "numbered" /\ at' = [at EXCEPT ![c] = "stored"]
      /\ outstandings' = outstandings \cup {<<myId[c], c>>} /\ UNCHANGED <<id, myId, requests>>
      /\ RpcTypeOK
  BY DEF GoesOn, StoreCall, RpcInv
<1>2. RpcTypeOK'
  BY <1>1 DEF RpcTypeOK, CallPoints
<1>3. /\ at'[c] = "stored" /\ \A d \in RpcCallers : d # c => at'[d] = at[d]
  BY <1>1 DEF RpcTypeOK
<1>4. NumbersOK'
  BY <1>1, <1>3 DEF RpcInv, NumbersOK
<1>5. OutstandingsOK'
  <2>1. answered[c] = <<>>
    BY <1>1 DEF RpcInv, OutstandingsOK
  <2>2. \A o \in outstandings : o[2] \in RpcCallers
    BY <1>1 DEF RpcTypeOK
  <2> QED
    BY <1>1, <1>3, <2>1, <2>2 DEF RpcInv, OutstandingsOK
<1>6. \A m, d : OfCall(m, d) /\ d \in RpcCallers => OfCall(m, d)'
  BY <1>1, <1>3 DEF OfCall
<1>7. MessagesOK'
  <2>1. \A m \in ToSet(requests) \cup serving : m.body \in RpcCallers
    BY <1>1, RequestTypes
  <2> QED
    BY <1>1, <1>6, <2>1 DEF RpcInv, MessagesOK
<1>8. NotLost' /\ OwnAnswerOnce'
  BY <1>1, <1>3 DEF RpcInv, NotLost, OnTheWay, OwnAnswerOnce
<1> QED
  BY <1>2, <1>4, <1>5, <1>7, <1>8 DEF RpcInv

LEMMA SendRequestKeeps ==
  ASSUME RpcInv, NEW c \in RpcCallers, GoesOn(c, "stored", "sent"), SendRequest(c),
         UNCHANGED <<serving, responses, isUp, answered>>
  PROVE  RpcInv'
<1>0. PICK r \in RequestMessage : r = [id |-> myId[c], body |-> c] /\ r.id = myId[c] /\ r.body = c
  <2> DEFINE r == [id |-> myId[c], body |-> c]
  <2>1. myId[c] \in Nat
    BY DEF RpcInv, RpcTypeOK
  <2>2. r \in RequestMessage /\ r.id = myId[c] /\ r.body = c
    BY <2>1 DEF RequestMessage
  <2> HIDE DEF r
  <2>3. \E q \in RequestMessage : q = r /\ q.id = myId[c] /\ q.body = c
    BY <2>2
  <2> QED
    BY <2>3 DEF r
<1>1. /\ at[c] = "stored" /\ at' = [at EXCEPT ![c] = "sent"]
      /\ requests' = IF isUp THEN Append(requests, r) ELSE requests
      /\ UNCHANGED <<id, myId, outstandings>>
      /\ RpcTypeOK
  BY <1>0 DEF GoesOn, SendRequest, RpcInv
<1>2. r.id = myId[c] /\ r.body = c
  BY <1>0
<1>3. /\ requests' \in Seq(RequestMessage)
      /\ ToSet(requests') = IF isUp THEN ToSet(requests) \cup {r} ELSE ToSet(requests)
  <2>1. requests \in Seq(RequestMessage)
    BY <1>1 DEF RpcTypeOK
  <2>2. Append(requests, r) \in Seq(RequestMessage) /\ ToSet(Append(requests, r)) = ToSet(requests) \cup {r}
    BY <2>1, QueueGrows
  <2> QED
    BY <1>1, <2>1, <2>2
<1>4. RpcTypeOK'
  BY <1>1, <1>3 DEF RpcTypeOK, CallPoints
<1>5. /\ at'[c] = "sent" /\ \A d \in RpcCallers : d # c => at'[d] = at[d]
  BY <1>1 DEF RpcTypeOK
<1>6. NumbersOK'
  BY <1>1, <1>5 DEF RpcInv, NumbersOK
<1>7. OutstandingsOK'
  <2>1. \A o \in outstandings : o[2] \in RpcCallers
    BY <1>1 DEF RpcTypeOK
  <2> QED
    BY <1>1, <1>5, <2>1 DEF RpcInv, OutstandingsOK
<1>8. OfCall(r, c)' /\ \A m, d : OfCall(m, d) /\ d \in RpcCallers => OfCall(m, d)'
  BY <1>1, <1>2, <1>5 DEF OfCall
<1>9. MessagesOK'
  <2>1. \A m \in ToSet(requests) \cup serving : m.body \in RpcCallers
    BY <1>1, RequestTypes
  <2>2. \A m \in ToSet(requests') \cup serving' : OfCall(m, m.body)'
    BY <1>1, <1>2, <1>3, <1>8, <2>1 DEF RpcInv, MessagesOK
  <2>3. \A m \in ToSet(responses') : \E d \in RpcCallers : OfCall(m, d)' /\ m.answer \in {d} \cup RpcErrors
    BY <1>8 DEF RpcInv, MessagesOK
  <2> QED
    BY <2>2, <2>3 DEF MessagesOK
<1>10. NotLost'
  <2> SUFFICES ASSUME isUp', NEW d \in RpcCallers, at'[d] = "sent", answered'[d] = <<>> PROVE OnTheWay(d)'
    BY DEF NotLost
  <2>1. CASE d = c
    BY <1>1, <1>2, <1>3, <2>1 DEF OnTheWay
  <2>2. CASE d # c
    BY <1>1, <1>3, <1>5, <2>2 DEF OnTheWay, RpcInv, NotLost
  <2> QED
    BY <2>1, <2>2
<1>11. OwnAnswerOnce'
  BY DEF RpcInv, OwnAnswerOnce
<1> QED
  BY <1>4, <1>6, <1>7, <1>9, <1>10, <1>11 DEF RpcInv

LEMMA ServeRequestKeeps == ASSUME RpcInv, ServeRequest PROVE RpcInv'
<1>1. /\ requests # <<>> /\ requests' = Tail(requests) /\ RpcTypeOK
      /\ UNCHANGED <<id, at, myId, outstandings, isUp, answered>>
  BY DEF ServeRequest, RpcInv
<1>2. PICK q \in RequestMessage : q = Head(requests)
  BY <1>1, QueueShrinks DEF RpcTypeOK
<1>3. /\ requests' \in Seq(RequestMessage) /\ q \in ToSet(requests) /\ ToSet(requests) = ToSet(requests') \cup {q}
  BY <1>1, <1>2, QueueShrinks DEF RpcTypeOK
<1>4. OfCall(q, q.body) /\ q.body \in RpcCallers /\ q.id \in Nat
  BY <1>3, <1>1, RequestTypes DEF RpcInv, MessagesOK
<1>5. \A m, d : OfCall(m, d)' <=> OfCall(m, d)
  BY <1>1 DEF OfCall
<1>6. NumbersOK' /\ OutstandingsOK' /\ OwnAnswerOnce'
  BY <1>1 DEF RpcInv, NumbersOK, OutstandingsOK, OwnAnswerOnce
<1>7. CASE serving' = serving \cup {q} /\ UNCHANGED responses
  <2>1. RpcTypeOK'
    BY <1>1, <1>3, <1>7 DEF RpcTypeOK
  <2>2. ToSet(requests') \cup serving' = ToSet(requests) \cup serving
    BY <1>3, <1>7
  <2>3. MessagesOK'
    BY <1>5, <1>7, <2>2 DEF RpcInv, MessagesOK
  <2>4. NotLost'
    BY <1>1, <1>7, <2>2 DEF RpcInv, NotLost, OnTheWay
  <2> QED
    BY <1>6, <2>1, <2>3, <2>4 DEF RpcInv
<1>8. CASE /\ \E e \in RpcErrors : responses' = Append(responses, [id |-> q.id, answer |-> e])
           /\ UNCHANGED serving
  <2>1. PICK e \in RpcErrors : responses' = Append(responses, [id |-> q.id, answer |-> e])
    BY <1>8
  <2> DEFINE r == [id |-> q.id, answer |-> e]
  <2>2. r \in ResponseMessage /\ r.id = q.id /\ r.answer = e
    BY <1>4 DEF ResponseMessage, Answers
  <2>3. responses' = Append(responses, r)
    BY <2>1
  <2> HIDE DEF r
  <2>4. responses' \in Seq(ResponseMessage) /\ ToSet(responses') = ToSet(responses) \cup {r}
    BY <1>1, <2>2, <2>3, QueueGrows DEF RpcTypeOK
  <2>5. RpcTypeOK'
    BY <1>1, <1>3, <1>8, <2>4 DEF RpcTypeOK
  <2>6. \E c \in RpcCallers : OfCall(r, c) /\ r.answer \in {c} \cup RpcErrors
    BY <1>4, <2>2 DEF OfCall
  <2>7. MessagesOK'
    <3>1. \A m \in ToSet(requests') \cup serving' : OfCall(m, m.body)
      BY <1>3, <1>8 DEF RpcInv, MessagesOK
    <3>2. \A m \in ToSet(responses') : \E c \in RpcCallers : OfCall(m, c) /\ m.answer \in {c} \cup RpcErrors
      BY <2>4, <2>6 DEF RpcInv, MessagesOK
    <3> QED
      BY <1>5, <3>1, <3>2 DEF MessagesOK
  <2>8. NotLost'
    <3> SUFFICES ASSUME isUp, NEW c \in RpcCallers, OnTheWay(c) PROVE OnTheWay(c)'
      BY <1>1 DEF RpcInv, NotLost
    <3> QED
      BY <1>1, <1>3, <1>8, <2>2, <2>4 DEF OnTheWay
  <2> QED
    BY <1>6, <2>5, <2>7, <2>8 DEF RpcInv
<1> QED
  BY <1>2, <1>7, <1>8 DEF ServeRequest

LEMMA DoneCallbackKeeps == ASSUME RpcInv, DoneCallback PROVE RpcInv'
<1>1. PICK q \in serving :
        /\ serving' = serving \ {q}
        /\ responses' = IF isUp THEN Append(responses, [id |-> q.id, answer |-> q.body]) ELSE responses
        /\ UNCHANGED <<id, at, myId, outstandings, requests, isUp, answered>>
  BY DEF DoneCallback
<1> DEFINE r == [id |-> q.id, answer |-> q.body]
<1>2. RpcTypeOK
  BY DEF RpcInv
<1>3. OfCall(q, q.body) /\ q.body \in RpcCallers /\ q.id \in Nat
  BY <1>2, RequestTypes DEF RpcInv, MessagesOK
<1>4. r \in ResponseMessage /\ r.id = q.id /\ r.answer = q.body
  BY <1>3 DEF ResponseMessage, Answers
<1>5. responses' = IF isUp THEN Append(responses, r) ELSE responses
  BY <1>1
<1> HIDE DEF r
<1>6. /\ responses' \in Seq(ResponseMessage)
      /\ ToSet(responses') = IF isUp THEN ToSet(responses) \cup {r} ELSE ToSet(responses)
  <2>1. responses \in Seq(ResponseMessage)
    BY <1>2 DEF RpcTypeOK
  <2>2. Append(responses, r) \in Seq(ResponseMessage) /\ ToSet(Append(responses, r)) = ToSet(responses) \cup {r}
    BY <1>4, <2>1, QueueGrows
  <2> QED
    BY <1>5, <2>1, <2>2
<1>7. RpcTypeOK'
  BY <1>1, <1>2, <1>6 DEF RpcTypeOK
<1>8. NumbersOK' /\ OutstandingsOK' /\ OwnAnswerOnce'
  BY <1>1 DEF RpcInv, NumbersOK, OutstandingsOK, OwnAnswerOnce
<1>9. \A m, d : OfCall(m, d)' <=> OfCall(m, d)
  BY <1>1 DEF OfCall
<1>10. MessagesOK'
  <2>1. \A m \in ToSet(requests') \cup serving' : OfCall(m, m.body)
    BY <1>1 DEF RpcInv, MessagesOK
  <2>2. \E c \in RpcCallers : OfCall(r, c) /\ r.answer \in {c} \cup RpcErrors
    BY <1>3, <1>4 DEF OfCall
  <2>3. \A m \in ToSet(responses') : \E c \in RpcCallers : OfCall(m, c) /\ m.answer \in {c} \cup RpcErrors
    BY <1>6, <2>2 DEF RpcInv, MessagesOK
  <2> QED
    BY <1>9, <2>1, <2>3 DEF MessagesOK
<1>11. NotLost'
  <2> SUFFICES ASSUME isUp, NEW c \in RpcCallers, OnTheWay(c) PROVE OnTheWay(c)'
    BY <1>1 DEF RpcInv, NotLost
  <2> QED
    BY <1>1, <1>4, <1>6 DEF OnTheWay
<1> QED
  BY <1>7, <1>8, <1>10, <1>11 DEF RpcInv

LEMMA OneAnswer ==
  ASSUME NEW x
  PROVE  Append(<<>>, x) # <<>> /\ Len(Append(<<>>, x)) = 1 /\ DOMAIN Append(<<>>, x) = {1} /\ Append(<<>>, x)[1] = x
<1>1. <<>> \in Seq({x}) /\ Len(<<>>) = 0
  OBVIOUS
<1>2. /\ Append(<<>>, x) \in Seq({x}) /\ Len(Append(<<>>, x)) = 1
      /\ DOMAIN Append(<<>>, x) = 1..1 /\ Append(<<>>, x)[1] = x
  BY <1>1, AppendProperties
<1> QED
  BY <1>2

(* The answer goes to the call with its number, which has none yet. *)
LEMMA TakeResponseKeeps == ASSUME RpcInv, TakeResponse PROVE RpcInv'
<1>1. /\ responses # <<>> /\ responses' = Tail(responses) /\ RpcTypeOK
      /\ UNCHANGED <<id, at, myId, requests, serving, isUp>>
  BY DEF TakeResponse, RpcInv
<1>2. PICK r \in ResponseMessage : r = Head(responses)
  BY <1>1, QueueShrinks DEF RpcTypeOK
<1>3. /\ responses' \in Seq(ResponseMessage) /\ r \in ToSet(responses) /\ ToSet(responses) = ToSet(responses') \cup {r}
  BY <1>1, <1>2, QueueShrinks DEF RpcTypeOK
<1>4. PICK c \in RpcCallers : OfCall(r, c) /\ r.answer \in {c} \cup RpcErrors
  BY <1>3 DEF RpcInv, MessagesOK
<1>5. r.answer \in Answers /\ at[c] = "sent" /\ r.id = myId[c]
  BY <1>4 DEF Answers, OfCall
<1>6. \A o \in outstandings : o[2] \in RpcCallers /\ o = <<o[1], o[2]>>
        /\ (o[1] = r.id => o[2] = c /\ o = <<myId[c], c>>)
  <2> TAKE o \in outstandings
  <2>1. o[2] \in RpcCallers /\ o = <<o[1], o[2]>>
    BY <1>1 DEF RpcTypeOK
  <2>2. at[o[2]] # "idle" /\ o[1] = myId[o[2]]
    BY DEF RpcInv, OutstandingsOK
  <2>3. myId[o[2]] = myId[c] => o[2] = c
    BY <1>5, <2>1, <2>2 DEF RpcInv, NumbersOK
  <2> QED
    BY <1>5, <2>1, <2>2, <2>3
<1>7. /\ outstandings' = outstandings \ {o \in outstandings : o[1] = r.id}
      /\ answered' = [d \in RpcCallers |->
                        IF \E o \in outstandings : o[1] = r.id /\ o[2] = d
                        THEN Append(answered[d], r.answer) ELSE answered[d]]
  BY <1>2 DEF TakeResponse
<1>8. \A d \in RpcCallers : d # c => answered'[d] = answered[d]
  BY <1>6, <1>7
<1>9. outstandings' = outstandings \ {<<myId[c], c>>}
  BY <1>5, <1>6, <1>7
<1>10. \A m, d : OfCall(m, d)' <=> OfCall(m, d)
  BY <1>1 DEF OfCall
<1>11. NumbersOK' /\ MessagesOK'
  <2>1. NumbersOK'
    BY <1>1 DEF RpcInv, NumbersOK
  <2>2. MessagesOK'
    BY <1>1, <1>3, <1>10 DEF RpcInv, MessagesOK
  <2> QED
    BY <2>1, <2>2
<1>12. CASE <<myId[c], c>> \in outstandings
  <2>1. answered[c] = <<>>
    BY <1>12 DEF RpcInv, OutstandingsOK
  <2>2. answered'[c] = Append(<<>>, r.answer)
    BY <1>5, <1>7, <1>12, <2>1
  <2>3. /\ answered'[c] # <<>> /\ Len(answered'[c]) = 1 /\ DOMAIN answered'[c] = {1}
        /\ answered'[c][1] = r.answer
    BY <2>2, OneAnswer
  <2>4. answered'[c] \in Seq(Answers)
    BY <1>5, <2>2, AppendProperties, EmptySeq
  <2>5. RpcTypeOK'
    <3>1. answered' \in [RpcCallers -> Seq(Answers)]
      BY <1>1, <1>7, <1>8, <2>4 DEF RpcTypeOK
    <3> QED
      BY <1>1, <1>3, <1>9, <3>1 DEF RpcTypeOK
  <2>6. OutstandingsOK'
    <3>1. \A o \in outstandings' : o \in outstandings /\ o[2] # c
      BY <1>1, <1>6, <1>9 DEF RpcInv, OutstandingsOK
    <3>2. \A o \in outstandings' :
            at'[o[2]] \in {"stored", "sent"} /\ o[1] = myId'[o[2]] /\ answered'[o[2]] = <<>>
      BY <1>1, <1>6, <1>8, <3>1 DEF RpcInv, OutstandingsOK
    <3>3. \A d \in RpcCallers : at'[d] \in {"stored", "sent"} /\ answered'[d] = <<>> => <<myId'[d], d>> \in outstandings'
      BY <1>1, <1>8, <1>9, <2>3 DEF RpcInv, OutstandingsOK
    <3>4. \A d \in RpcCallers : answered'[d] # <<>> => at'[d] = "sent"
      BY <1>1, <1>5, <1>8 DEF RpcInv, OutstandingsOK
    <3> QED
      BY <3>2, <3>3, <3>4 DEF OutstandingsOK
  <2>7. NotLost'
    <3> SUFFICES ASSUME isUp, NEW d \in RpcCallers, at[d] = "sent", answered'[d] = <<>> PROVE OnTheWay(d)'
      BY <1>1 DEF NotLost
    <3>1. d # c /\ answered[d] = <<>>
      BY <1>8, <2>3
    <3>2. OnTheWay(d) /\ myId[d] # r.id
      BY <1>5, <3>1 DEF RpcInv, NotLost, NumbersOK
    <3> QED
      BY <1>1, <1>3, <3>2 DEF OnTheWay
  <2>8. OwnAnswerOnce'
    <3>1. Len(answered'[c]) <= 1 /\ \A j \in DOMAIN answered'[c] : answered'[c][j] \in {c} \cup RpcErrors
      BY <1>4, <2>3
    <3>2. \A d \in RpcCallers : d # c =>
            Len(answered'[d]) <= 1 /\ \A j \in DOMAIN answered'[d] : answered'[d][j] \in {d} \cup RpcErrors
      BY <1>8 DEF RpcInv, OwnAnswerOnce
    <3> QED
      BY <3>1, <3>2 DEF OwnAnswerOnce
  <2> QED
    BY <1>11, <2>5, <2>6, <2>7, <2>8 DEF RpcInv
<1>13. CASE <<myId[c], c>> \notin outstandings
  <2>1. outstandings' = outstandings /\ \A d \in RpcCallers : answered'[d] = answered[d]
    BY <1>6, <1>7, <1>9, <1>13
  <2>2. answered' = answered
    BY <1>1, <1>7, <2>1 DEF RpcTypeOK
  <2>3. RpcTypeOK' /\ OutstandingsOK' /\ OwnAnswerOnce'
    BY <1>1, <1>3, <2>1, <2>2 DEF RpcInv, RpcTypeOK, OutstandingsOK, OwnAnswerOnce
  <2>4. NotLost'
    <3> SUFFICES ASSUME isUp, NEW d \in RpcCallers, at[d] = "sent", answered[d] = <<>> PROVE OnTheWay(d)'
      BY <1>1, <2>2 DEF NotLost
    <3>1. d # c
      BY <1>13 DEF RpcInv, OutstandingsOK
    <3>2. OnTheWay(d) /\ myId[d] # r.id
      BY <1>5, <3>1 DEF RpcInv, NotLost, NumbersOK
    <3> QED
      BY <1>1, <1>3, <3>2 DEF OnTheWay
  <2> QED
    BY <1>11, <2>3, <2>4 DEF RpcInv
<1> QED
  BY <1>12, <1>13

LEMMA DisconnectKeeps == ASSUME RpcInv, Disconnect PROVE RpcInv'
<1>1. /\ isUp' = FALSE /\ requests' = <<>> /\ responses' = <<>>
      /\ UNCHANGED <<id, at, myId, outstandings, serving, answered>> /\ RpcTypeOK
  BY DEF Disconnect, RpcInv
<1>2. ToSet(requests') = {} /\ ToSet(responses') = {}
  BY <1>1 DEF ToSet
<1>3. \A m, d : OfCall(m, d)' <=> OfCall(m, d)
  BY <1>1 DEF OfCall
<1>4. RpcTypeOK' /\ NumbersOK' /\ OutstandingsOK' /\ OwnAnswerOnce' /\ NotLost'
  <2>1. RpcTypeOK'
    BY <1>1, EmptySeq DEF RpcTypeOK
  <2>2. NumbersOK' /\ OutstandingsOK' /\ NotLost'
    BY <1>1 DEF RpcInv, NumbersOK, OutstandingsOK, NotLost
  <2>3. OwnAnswerOnce'
    BY <1>1 DEF RpcInv, OwnAnswerOnce
  <2> QED
    BY <2>1, <2>2, <2>3
<1>5. MessagesOK'
  BY <1>1, <1>2, <1>3 DEF RpcInv, MessagesOK
<1> QED
  BY <1>4, <1>5 DEF RpcInv

LEMMA RpcStepKeeps == ASSUME RpcInv, [RpcNext]_rpcVars PROVE RpcInv'
<1>1. ASSUME NEW c \in RpcCallers, CallMethod(c) PROVE RpcInv'
  BY <1>1, GetIdKeeps, StoreCallKeeps, SendRequestKeeps DEF CallMethod
<1>2. CASE UNCHANGED rpcVars
  BY <1>2 DEF rpcVars, RpcInv, RpcTypeOK, NumbersOK, OutstandingsOK, MessagesOK, OfCall, NotLost, OnTheWay,
              OwnAnswerOnce
<1> QED
  BY <1>1, <1>2, ServeRequestKeeps, DoneCallbackKeeps, TakeResponseKeeps, DisconnectKeeps DEF RpcNext

(* Nothing is on its way once the connection ended, and only then is the   *)
(* server's channel gone.                                                  *)
EndOK == /\ ~isUp => requests = <<>> /\ responses = <<>>
         /\ orphans # {} => ~isUp

LEMMA EndKeeps == ASSUME RpcInv, EndOK, [RpcNext]_rpcVars PROVE EndOK'
<1>0. isUp \in BOOLEAN
  BY DEF RpcInv, RpcTypeOK
<1>1. ASSUME NEW c \in RpcCallers, CallMethod(c) PROVE EndOK'
  BY <1>0, <1>1 DEF EndOK, CallMethod, GetId, StoreCall, SendRequest
<1>2. CASE ServeRequest
  <2>1. isUp /\ isUp' = isUp /\ orphans' = orphans
    BY <1>2 DEF EndOK, ServeRequest
  <2> QED
    BY <2>1 DEF EndOK
<1>3. CASE DoneCallback
  <2>1. /\ requests' = requests /\ isUp' = isUp
        /\ ~isUp => responses' = responses
        /\ isUp => orphans' = orphans
    BY <1>3 DEF DoneCallback
  <2> QED
    BY <2>1 DEF EndOK
<1>4. CASE TakeResponse
  <2>1. isUp /\ isUp' = isUp /\ orphans' = orphans
    BY <1>4 DEF EndOK, TakeResponse
  <2> QED
    BY <2>1 DEF EndOK
<1>5. CASE Disconnect
  BY <1>5 DEF EndOK, Disconnect
<1>6. CASE UNCHANGED rpcVars
  BY <1>6 DEF EndOK, rpcVars
<1> QED
  BY <1>1, <1>2, <1>3, <1>4, <1>5, <1>6 DEF RpcNext

(* However calls of several threads interleave with answers that come in   *)
(* any order, and whenever the connection ends, each closure runs at most  *)
(* once and with the answer to its own request; while the connection is up *)
(* no answer comes for a call that outstandings_ does not hold, and no     *)
(* service answers through a channel that was destroyed.                   *)
THEOREM RpcIsSound == RpcSpec => []RpcSound
<1>1. RpcInit => RpcInv /\ EndOK
  BY RpcInitInv DEF RpcInit, EndOK
<1>2. RpcInv /\ EndOK /\ [RpcNext]_rpcVars => (RpcInv /\ EndOK)'
  BY RpcStepKeeps, EndKeeps
<1>3. RpcInv /\ EndOK => RpcSound
  <2> SUFFICES ASSUME RpcInv, EndOK PROVE OwnAnswerOnce /\ CallIsKnown /\ OrphansAreCutOff
    BY DEF RpcSound
  <2>1. CallIsKnown
    BY DEF RpcInv, OutstandingsOK, NotLost, OnTheWay, CallIsKnown
  <2>2. OrphansAreCutOff
    BY DEF EndOK, OrphansAreCutOff
  <2> QED
    BY <2>1, <2>2 DEF RpcInv
<1> QED
  BY <1>1, <1>2, <1>3, PTL DEF RpcSpec

-----------------------------------------------------------------------------
(* Streams.  s is what follows the first p - 1 of the units U on a stream: *)
(* unit j starts behind st[j] elements of s, and nothing is between them.  *)

Laid(s, U, p, st) ==
  /\ st \in [p..Len(U) + 1 -> Nat]
  /\ st[p] = 0 /\ st[Len(U) + 1] = Len(s)
  /\ \A j \in p..Len(U) : st[j + 1] = st[j] + Len(U[j])
  /\ \A j, k \in p..Len(U) + 1 : j < k => st[j] + Len(U[j]) <= st[k]
  /\ \A j \in p..Len(U) : \A k \in 1..Len(U[j]) : s[st[j] + k] = U[j][k]

Stream(s, U, p) == \E st \in [p..Len(U) + 1 -> Nat] : Laid(s, U, p, st)

(* What is read next is the first unit that was not read. *)
LEMMA StreamFirst ==
  ASSUME NEW V, NEW s \in Seq(V), NEW U \in Seq(Seq(V)), NEW p \in 1..Len(U) + 1, Stream(s, U, p)
  PROVE  /\ s # <<>> => p \in 1..Len(U)
         /\ p \in 1..Len(U) => /\ Len(U[p]) <= Len(s)
                               /\ \A k \in 1..Len(U[p]) : s[k] = U[p][k]
<1>1. PICK st \in [p..Len(U) + 1 -> Nat] : Laid(s, U, p, st)
  BY DEF Stream
<1>2. Len(U) \in Nat /\ p \in Nat /\ Len(s) \in Nat /\ (s # <<>> => Len(s) # 0)
  BY LenProperties, EmptySeq
<1>3. s # <<>> => p \in 1..Len(U)
  <2>1. p = Len(U) + 1 => Len(s) = 0
    BY <1>1 DEF Laid
  <2> QED
    BY <1>2, <2>1
<1>4. ASSUME p \in 1..Len(U)
      PROVE  Len(U[p]) <= Len(s) /\ \A k \in 1..Len(U[p]) : s[k] = U[p][k]
  <2>1. p \in p..Len(U) /\ p \in p..Len(U) + 1 /\ Len(U) + 1 \in p..Len(U) + 1 /\ p < Len(U) + 1
    BY <1>2, <1>4
  <2>2. U[p] \in Seq(V) /\ Len(U[p]) \in Nat
    BY <1>4, ElementOfSeq, LenProperties
  <2>3. st[p] + Len(U[p]) <= st[Len(U) + 1] /\ st[p] = 0 /\ st[Len(U) + 1] = Len(s)
    BY <1>1, <2>1 DEF Laid
  <2>4. \A k \in 1..Len(U[p]) : s[st[p] + k] = U[p][k]
    BY <1>1, <2>1 DEF Laid
  <2>5. \A k \in 1..Len(U[p]) : st[p] + k = k
    BY <2>2, <2>3
  <2> QED
    BY <1>2, <2>2, <2>3, <2>4, <2>5
<1> QED
  BY <1>3, <1>4

(* The peer sends one unit more. *)
LEMMA StreamGrows ==
  ASSUME NEW V, NEW s \in Seq(V), NEW U \in Seq(Seq(V)), NEW p \in 1..Len(U) + 1, Stream(s, U, p),
         NEW u \in Seq(V)
  PROVE  Stream(s \o u, Append(U, u), p)
<1>1. PICK st \in [p..Len(U) + 1 -> Nat] : Laid(s, U, p, st)
  BY DEF Stream
<1> DEFINE n == Len(U)
           W == Append(U, u)
           t == s \o u
           su == [j \in p..n + 2 |-> IF j = n + 2 THEN Len(s) + Len(u) ELSE st[j]]
<1>0. n \in Nat /\ p \in Nat /\ p >= 1 /\ p <= n + 1 /\ Len(s) \in Nat /\ Len(u) \in Nat
  BY LenProperties
<1>2. /\ n \in Nat /\ p \in Nat /\ p <= n + 1 /\ Len(s) \in Nat /\ Len(u) \in Nat
      /\ \A j \in p..n : U[j] \in Seq(V) /\ Len(U[j]) \in Nat
  <2>1. n \in Nat /\ p \in Nat /\ p >= 1 /\ p <= n + 1 /\ Len(s) \in Nat /\ Len(u) \in Nat
    BY LenProperties
  <2>2. \A j \in p..n : j \in 1..n
    BY <2>1
  <2>3. \A j \in 1..n : U[j] \in Seq(V)
    BY ElementOfSeq
  <2> QED
    BY <2>1, <2>2, <2>3, LenProperties
<1>3. /\ Len(W) = n + 1 /\ W[n + 1] = u /\ \A j \in p..n : W[j] = U[j]
  BY <1>2, AppendProperties
<1>4. /\ t \in Seq(V) /\ Len(t) = Len(s) + Len(u)
      /\ \A k \in 1..Len(s) : t[k] = s[k]
      /\ \A k \in 1..Len(u) : t[Len(s) + k] = u[k]
  <2>1. /\ t \in Seq(V) /\ Len(t) = Len(s) + Len(u)
        /\ \A k \in 1..Len(s) + Len(u) : t[k] = IF k <= Len(s) THEN s[k] ELSE u[k - Len(s)]
    BY ConcatProperties
  <2>2. \A k \in 1..Len(s) : t[k] = s[k]
    BY <1>2, <2>1
  <2>3. \A k \in 1..Len(u) : Len(s) + k \in 1..Len(s) + Len(u) /\ ~(Len(s) + k <= Len(s)) /\ (Len(s) + k) - Len(s) = k
    BY <1>2
  <2> QED
    BY <2>1, <2>2, <2>3
<1>5. /\ st[p] = 0 /\ st[n + 1] = Len(s)
      /\ \A j \in p..n : st[j + 1] = st[j] + Len(U[j])
      /\ \A j, k \in p..n + 1 : j < k => st[j] + Len(U[j]) <= st[k]
      /\ \A j \in p..n : \A k \in 1..Len(U[j]) : s[st[j] + k] = U[j][k]
  BY <1>1 DEF Laid
<1> HIDE DEF W, t
<1>6. /\ su \in [p..n + 2 -> Nat] /\ su[n + 2] = Len(s) + Len(u)
      /\ \A j \in p..n + 1 : su[j] = st[j] /\ st[j] \in Nat
  <2>1. \A j \in p..n + 1 : st[j] \in Nat
    OBVIOUS
  <2>2. \A j \in p..n + 2 : j = n + 2 \/ j \in p..n + 1
    BY <1>2
  <2>3. n + 2 \in p..n + 2 /\ Len(s) + Len(u) \in Nat /\ \A j \in p..n + 1 : j \in p..n + 2 /\ j # n + 2
    BY <1>2
  <2> QED
    BY <2>1, <2>2, <2>3
<1> HIDE DEF su
<1>7. p \in p..n + 1 /\ n + 1 \in p..n + 1
  BY <1>2
<1>8. \A j \in p..n + 1 : su[j + 1] = su[j] + Len(W[j])
  <2> TAKE j \in p..n + 1
  <2>1. CASE j = n + 1
    <3>1. j + 1 = n + 2
      BY <1>2, <2>1
    <3> QED
      BY <1>3, <1>5, <1>6, <2>1, <3>1
  <2>2. CASE j # n + 1
    <3>1. j \in p..n /\ j + 1 \in p..n + 1
      BY <1>2, <2>2
    <3> QED
      BY <1>3, <1>5, <1>6, <3>1
  <2> QED
    BY <2>1, <2>2
<1>9. \A j, k \in p..n + 2 : j < k => su[j] + Len(W[j]) <= su[k]
  <2> TAKE j, k \in p..n + 2
  <2> HAVE j < k
  <2>1. CASE k # n + 2
    <3>1. j \in p..n + 1 /\ k \in p..n + 1 /\ j \in p..n
      BY <1>0, <2>1
    <3> QED
      BY <1>3, <1>5, <1>6, <3>1
  <2>2. CASE k = n + 2 /\ j = n + 1
    <3>1. su[j] = Len(s) /\ Len(W[j]) = Len(u) /\ su[k] = Len(s) + Len(u)
      BY <1>3, <1>5, <1>6, <1>7, <2>2
    <3> QED
      BY <1>0, <3>1
  <2>3. CASE k = n + 2 /\ j # n + 1
    <3>1. j \in p..n + 1 /\ j \in p..n /\ j < n + 1
      BY <1>2, <2>3
    <3>2. st[j] + Len(U[j]) <= Len(s)
      BY <1>5, <1>7, <3>1
    <3>3. st[j] \in Nat /\ Len(U[j]) \in Nat
      BY <1>2, <1>6, <3>1
    <3>4. st[j] + Len(U[j]) <= Len(s) + Len(u)
      BY <1>2, <3>2, <3>3
    <3> QED
      BY <1>3, <1>6, <2>3, <3>1, <3>4
  <2> QED
    BY <1>2, <2>1, <2>2, <2>3
<1>10. \A j \in p..n + 1 : \A k \in 1..Len(W[j]) : t[su[j] + k] = W[j][k]
  <2> TAKE j \in p..n + 1
  <2> TAKE k \in 1..Len(W[j])
  <2>1. CASE j = n + 1
    <3>1. su[j] = Len(s) /\ W[j] = u /\ k \in 1..Len(u)
      BY <1>3, <1>5, <1>6, <1>7, <2>1
    <3> QED
      BY <1>4, <3>1
  <2>2. CASE j # n + 1
    <3>1. j \in p..n /\ j < n + 1
      BY SMTT(30), <1>2, <2>2
    <3>2. k \in 1..Len(U[j]) /\ st[j] + Len(U[j]) <= Len(s) /\ W[j] = U[j]
      BY <1>3, <1>5, <1>7, <3>1
    <3>3. st[j] \in Nat /\ Len(U[j]) \in Nat
      BY <1>2, <1>6, <3>1
    <3>4. st[j] + k \in 1..Len(s)
      BY <1>2, <3>2, <3>3
    <3>5. su[j] = st[j] /\ s[st[j] + k] = U[j][k]
      BY <1>5, <1>6, <3>1, <3>2
    <3>6. t[st[j] + k] = s[st[j] + k]
      BY <1>4, <3>4
    <3> QED
      BY <3>2, <3>5, <3>6
  <2> QED
    BY <2>1, <2>2
<1>11. Laid(t, W, p, su)
  <2>1. Len(W) + 1 = n + 2
    BY <1>2, <1>3
  <2>2. su[p] = 0 /\ su[n + 2] = Len(t)
    BY <1>4, <1>5, <1>6, <1>7
  <2> QED
    BY <1>3, <1>6, <1>8, <1>9, <1>10, <2>1, <2>2 DEF Laid
<1>12. su \in [p..Len(W) + 1 -> Nat]
  BY <1>11 DEF Laid
<1> QED
  BY <1>11, <1>12 DEF Stream, W, t

(* The first unit is taken off. *)
LEMMA StreamShrinks ==
  ASSUME NEW V, NEW s \in Seq(V), NEW U \in Seq(Seq(V)), NEW p \in 1..Len(U), Stream(s, U, p),
         NEW r \in Seq(V), Len(r) = Len(s) - Len(U[p]),
         \A k \in 1..Len(r) : r[k] = s[k + Len(U[p])]
  PROVE  Stream(r, U, p + 1)
<1>1. PICK st \in [p..Len(U) + 1 -> Nat] : Laid(s, U, p, st)
  BY DEF Stream
<1> DEFINE n == Len(U)
           m == Len(U[p])
           su == [j \in p + 1..n + 1 |-> st[j] - m]
<1>0. n \in Nat /\ p \in Nat /\ p >= 1 /\ p <= n /\ Len(s) \in Nat /\ Len(r) \in Nat /\ m \in Nat
  <2>1. U[p] \in Seq(V)
    BY ElementOfSeq
  <2> QED
    BY <2>1, LenProperties
<1>2. /\ n \in Nat /\ p \in Nat /\ p <= n /\ Len(s) \in Nat /\ Len(r) \in Nat /\ m \in Nat
      /\ \A j \in p..n : U[j] \in Seq(V) /\ Len(U[j]) \in Nat
  <2>1. n \in Nat /\ p \in Nat /\ p >= 1 /\ p <= n /\ Len(s) \in Nat /\ Len(r) \in Nat
    BY LenProperties
  <2>2. \A j \in p..n : j \in 1..n
    BY <2>1
  <2>3. \A j \in 1..n : U[j] \in Seq(V)
    BY ElementOfSeq
  <2> QED
    BY <2>1, <2>2, <2>3, LenProperties
<1>3. /\ st[p] = 0 /\ st[n + 1] = Len(s)
      /\ \A j \in p..n : st[j + 1] = st[j] + Len(U[j])
      /\ \A j, k \in p..n + 1 : j < k => st[j] + Len(U[j]) <= st[k]
      /\ \A j \in p..n : \A k \in 1..Len(U[j]) : s[st[j] + k] = U[j][k]
  BY <1>1 DEF Laid
<1>4. \A j \in p + 1..n + 1 : st[j] \in Nat /\ m <= st[j]
  <2> TAKE j \in p + 1..n + 1
  <2>1. p \in p..n + 1 /\ j \in p..n + 1 /\ p < j
    BY <1>2
  <2>2. st[p] + Len(U[p]) <= st[j] /\ st[j] \in Nat
    BY <1>3, <2>1
  <2> QED
    BY <1>2, <1>3, <2>2
<1>5. su \in [p + 1..n + 1 -> Nat] /\ \A j \in p + 1..n + 1 : su[j] = st[j] - m
  <2>1. \A j \in p + 1..n + 1 : st[j] - m \in Nat
    BY <1>2, <1>4
  <2> QED
    BY <2>1
<1> HIDE DEF su
<1>6. su[p + 1] = 0
  <2>1. p + 1 \in p + 1..n + 1 /\ p \in p..n
    BY <1>2
  <2>2. st[p + 1] = st[p] + m
    BY <1>3, <2>1
  <2>3. su[p + 1] = (0 + m) - m
    BY <1>3, <1>5, <2>1, <2>2
  <2> QED
    BY <1>0, <2>3
<1>7. su[n + 1] = Len(r)
  <2>1. n + 1 \in p + 1..n + 1
    BY <1>2
  <2> QED
    BY <1>2, <1>3, <1>5, <2>1
<1>8. \A j \in p + 1..n : su[j + 1] = su[j] + Len(U[j])
  <2> TAKE j \in p + 1..n
  <2> HIDE DEF n, m
  <2>1. j \in p..n /\ j \in p + 1..n + 1 /\ j + 1 \in p + 1..n + 1
    BY <1>0
  <2>2. st[j + 1] = st[j] + Len(U[j]) /\ st[j] \in Nat /\ Len(U[j]) \in Nat /\ st[j + 1] \in Nat
    BY <1>2, <1>3, <1>4, <2>1
  <2>3. su[j] = st[j] - m /\ su[j + 1] = st[j + 1] - m
    BY <1>5, <2>1
  <2> QED
    BY SMTT(30), <1>0, <2>2, <2>3
<1>9. \A j, k \in p + 1..n + 1 : j < k => su[j] + Len(U[j]) <= su[k]
  <2> TAKE j, k \in p + 1..n + 1
  <2> HAVE j < k
  <2> HIDE DEF n, m
  <2>1. j \in p..n /\ j \in p..n + 1 /\ k \in p..n + 1
    BY <1>0
  <2>2. st[j] + Len(U[j]) <= st[k] /\ st[j] \in Nat /\ Len(U[j]) \in Nat /\ st[k] \in Nat
    BY <1>2, <1>3, <1>4, <2>1
  <2>3. su[j] = st[j] - m /\ su[k] = st[k] - m
    BY <1>5
  <2> QED
    BY SMTT(30), <1>0, <2>2, <2>3
<1>10. \A j \in p + 1..n : \A k \in 1..Len(U[j]) : r[su[j] + k] = U[j][k]
  <2> TAKE j \in p + 1..n
  <2> TAKE k \in 1..Len(U[j])
  <2>1. j \in p..n /\ j \in p + 1..n + 1 /\ j \in p..n + 1 /\ n + 1 \in p..n + 1 /\ j < n + 1
    BY <1>2
  <2>2. /\ st[j] + Len(U[j]) <= Len(s) /\ st[j] \in Nat /\ Len(U[j]) \in Nat /\ m <= st[j]
        /\ s[st[j] + k] = U[j][k]
    BY <1>2, <1>3, <1>4, <2>1
  <2>3. su[j] = st[j] - m
    BY <1>5, <2>1
  <2>4. su[j] + k \in 1..Len(r) /\ su[j] + k + m = st[j] + k
    <3>1. Len(r) = Len(s) - m
      OBVIOUS
    <3> HIDE DEF m, n
    <3>2. PICK a \in Nat, b \in Nat, x \in Nat : a = st[j] /\ b = Len(U[j]) /\ x = m
      BY <1>0, <2>2
    <3>3. k \in 1..b /\ a + b <= Len(s) /\ x <= a /\ su[j] = a - x /\ Len(r) = Len(s) - x
      BY <2>2, <2>3, <3>1, <3>2
    <3>4. k \in Nat /\ k >= 1 /\ k <= b
      BY <3>3
    <3>5. (a - x) + k >= 1 /\ (a - x) + k <= Len(s) - x /\ (a - x) + k \in Int /\ (a - x) + k + x = a + k
      <4>1. PICK z \in Nat : z = Len(s)
        BY <1>0
      <4>2. a + k <= z /\ (a - x) + k >= 1 /\ (a - x) + k \in Int /\ (a - x) + k + x = a + k
        BY <3>3, <3>4, <4>1
      <4>3. (a - x) + k <= z - x
        BY <3>4, <4>2
      <4> QED
        BY <4>1, <4>2, <4>3
    <3>6. su[j] + k \in 1..Len(r)
      <4>1. PICK y \in Int : y = (a - x) + k
        BY <3>5
      <4>2. y >= 1 /\ y <= Len(r) /\ Len(r) \in Nat
        BY <1>0, <3>3, <3>5, <4>1
      <4>3. y \in 1..Len(r)
        BY <4>2
      <4> QED
        BY <3>3, <4>1, <4>3
    <3> QED
      BY <3>2, <3>3, <3>5, <3>6
  <2> QED
    BY <2>2, <2>4
<1>11. Laid(r, U, p + 1, su)
  BY <1>5, <1>6, <1>7, <1>8, <1>9, <1>10 DEF Laid
<1> QED
  BY <1>5, <1>11 DEF Stream

LEMMA CutIs ==
  ASSUME NEW V, NEW s \in Seq(V), NEW m \in Nat, NEW n \in Nat, m <= n, n <= Len(s)
  PROVE  /\ SubSeq(s, m + 1, n) \in Seq(V) /\ Len(SubSeq(s, m + 1, n)) = n - m
         /\ \A k \in 1..n - m : SubSeq(s, m + 1, n)[k] = s[m + k]
<1> DEFINE f == m + 1
           q == SubSeq(s, f, n)
<1>1. Len(s) \in Nat /\ \A k \in 1..Len(s) : s[k] \in V
  BY LenProperties, ElementOfSeq
<1>2. f \in Int /\ n \in Int /\ (IF f <= n THEN n - f + 1 ELSE 0) = n - m /\ n - f + 1 = n - m
  OBVIOUS
<1>3. \A k \in f..n : s[k] \in V
  <2>1. \A k \in f..n : k \in 1..Len(s)
    BY <1>1
  <2> QED
    BY <1>1, <2>1
<1>4. \A k \in 1..n - m : f + k - 1 = m + k
  OBVIOUS
<1> HIDE DEF f
<1>5. /\ q \in Seq(V) /\ Len(q) = IF f <= n THEN n - f + 1 ELSE 0
      /\ \A k \in 1..n - f + 1 : q[k] = s[f + k - 1]
  BY <1>2, <1>3, SubSeqProperties
<1>6. Len(q) = n - m /\ \A k \in 1..n - m : q[k] = s[m + k]
  BY <1>2, <1>4, <1>5
<1> QED
  BY <1>5, <1>6 DEF f

LEMMA RestIs ==
  ASSUME NEW V, NEW s \in Seq(V), NEW n \in Nat, n <= Len(s)
  PROVE  /\ SubSeq(s, n + 1, Len(s)) \in Seq(V) /\ Len(SubSeq(s, n + 1, Len(s))) = Len(s) - n
         /\ \A k \in 1..Len(s) - n : SubSeq(s, n + 1, Len(s))[k] = s[n + k]
<1>1. PICK l \in Nat : l = Len(s)
  BY LenProperties
<1>2. n <= l /\ l <= Len(s)
  BY <1>1
<1>3. /\ SubSeq(s, n + 1, l) \in Seq(V) /\ Len(SubSeq(s, n + 1, l)) = l - n
      /\ \A k \in 1..l - n : SubSeq(s, n + 1, l)[k] = s[n + k]
  BY <1>2, CutIs
<1> QED
  BY <1>1, <1>3

LEMMA SameSeq ==
  ASSUME NEW V, NEW W, NEW s \in Seq(V), NEW t \in Seq(W), Len(s) = Len(t), \A k \in 1..Len(s) : s[k] = t[k]
  PROVE  s = t
<1>1. DOMAIN s = 1..Len(s) /\ DOMAIN t = 1..Len(s)
  BY LenProperties
<1>2. s = [k \in 1..Len(s) |-> s[k]] /\ t = [k \in 1..Len(s) |-> t[k]]
  BY <1>1
<1> QED
  BY <1>2

(* The reader has the part a of the stream, b is still to come. *)
LEMMA StreamFront ==
  ASSUME NEW V, NEW a \in Seq(V), NEW b \in Seq(V), NEW U \in Seq(Seq(V)), NEW p \in 1..Len(U) + 1,
         Stream(a \o b, U, p), a # <<>>
  PROVE  p \in 1..Len(U) /\ \A k \in 1..Len(a) : k <= Len(U[p]) => a[k] = U[p][k]
<1>1. PICK s \in Seq(V) : s = a \o b
  BY ConcatProperties
<1>2. /\ Len(s) = Len(a) + Len(b) /\ Len(a) \in Nat /\ Len(b) \in Nat /\ Len(a) # 0
      /\ \A k \in 1..Len(a) + Len(b) : s[k] = IF k <= Len(a) THEN a[k] ELSE b[k - Len(a)]
  BY <1>1, ConcatProperties, LenProperties, EmptySeq
<1>3. s # <<>>
  <2>1. Len(s) # 0
    BY <1>2
  <2> QED
    BY <2>1
<1>4. p \in 1..Len(U) /\ \A k \in 1..Len(U[p]) : s[k] = U[p][k]
  <2>1. Stream(s, U, p)
    BY <1>1
  <2> QED
    BY <1>3, <2>1, StreamFirst
<1>5. U[p] \in Seq(V) /\ Len(U[p]) \in Nat
  BY <1>4, ElementOfSeq, LenProperties
<1>6. ASSUME NEW k \in 1..Len(a), k <= Len(U[p]) PROVE a[k] = U[p][k]
  <2>1. k \in 1..Len(a) + Len(b) /\ k <= Len(a) /\ k \in 1..Len(U[p])
    BY <1>2, <1>5, <1>6
  <2> QED
    BY <1>2, <1>4, <2>1
<1> QED
  BY <1>4, <1>6

(* n elements arrive: the stream is the same. *)
LEMMA StreamMoves ==
  ASSUME NEW V, NEW a \in Seq(V), NEW b \in Seq(V), NEW n \in 1..Len(b)
  PROVE  /\ a \o SubSeq(b, 1, n) \in Seq(V) /\ SubSeq(b, n + 1, Len(b)) \in Seq(V)
         /\ (a \o SubSeq(b, 1, n)) \o SubSeq(b, n + 1, Len(b)) = a \o b
<1>1. Len(b) \in Nat /\ n \in Nat /\ n <= Len(b)
  BY LenProperties
<1>2. SubSeq(b, 1, n) \in Seq(V) /\ SubSeq(b, n + 1, Len(b)) \in Seq(V)
  <2>1. SubSeq(b, 0 + 1, n) \in Seq(V) /\ SubSeq(b, n + 1, Len(b)) \in Seq(V)
    BY <1>1, CutIs
  <2>2. 0 + 1 = 1
    OBVIOUS
  <2> QED
    BY <2>1, <2>2
<1>3. SubSeq(b, 1, n) \o SubSeq(b, n + 1, Len(b)) = b
  <2>1. 1 \in 1..Len(b) + 1 /\ n \in 1 - 1..Len(b) /\ Len(b) \in n..Len(b)
    BY <1>1
  <2> QED
    BY <2>1, ConcatAdjacentSubSeq, SubSeqFull
<1>4. PICK x \in Seq(V), y \in Seq(V) : x = SubSeq(b, 1, n) /\ y = SubSeq(b, n + 1, Len(b))
  BY <1>2
<1>5. (a \o x) \o y = a \o (x \o y) /\ a \o x \in Seq(V)
  BY SMTT(30), ConcatAssociative, ConcatProperties
<1> QED
  BY <1>3, <1>4, <1>5

(* The reader takes the first unit out of its part. *)
LEMMA StreamTakes ==
  ASSUME NEW V, NEW a \in Seq(V), NEW b \in Seq(V), NEW U \in Seq(Seq(V)), NEW p \in 1..Len(U),
         Stream(a \o b, U, p), NEW n \in Nat, n = Len(U[p]), n <= Len(a)
  PROVE  SubSeq(a, n + 1, Len(a)) \in Seq(V) /\ Stream(SubSeq(a, n + 1, Len(a)) \o b, U, p + 1)
<1>1. PICK x \in Nat, y \in Nat : x = Len(a) /\ y = Len(b)
  BY LenProperties
<1>2. PICK c \in Seq(V) : c = SubSeq(a, n + 1, Len(a)) /\ Len(c) = x - n /\ \A k \in 1..x - n : c[k] = a[n + k]
  <2>2. /\ SubSeq(a, n + 1, Len(a)) \in Seq(V) /\ Len(SubSeq(a, n + 1, Len(a))) = Len(a) - n
        /\ \A k \in 1..Len(a) - n : SubSeq(a, n + 1, Len(a))[k] = a[n + k]
    BY RestIs
  <2> QED
    BY <1>1, <2>2
<1>3. PICK s \in Seq(V), r \in Seq(V) : s = a \o b /\ r = c \o b
  BY ConcatProperties
<1>4. /\ Len(s) = x + y
      /\ \A k \in 1..x + y : s[k] = IF k <= x THEN a[k] ELSE b[k - x]
  BY <1>1, <1>3, ConcatProperties
<1>5. /\ Len(r) = (x - n) + y
      /\ \A k \in 1..(x - n) + y : r[k] = IF k <= x - n THEN c[k] ELSE b[k - (x - n)]
  <2>1. /\ Len(r) = Len(c) + Len(b)
        /\ \A k \in 1..Len(c) + Len(b) : r[k] = IF k <= Len(c) THEN c[k] ELSE b[k - Len(c)]
    BY <1>3, ConcatProperties
  <2> QED
    BY <1>1, <1>2, <2>1
<1>6. \A k \in 1..Len(r) : r[k] = s[k + n]
  <2> SUFFICES ASSUME NEW k \in 1..(x - n) + y PROVE r[k] = s[k + n]
    BY <1>5
  <2>1. k + n \in 1..x + y /\ k \in Nat /\ k >= 1
    BY <1>1
  <2>2. CASE k <= x - n
    <3>1. k + n <= x /\ k \in 1..x - n /\ n + k = k + n
      BY <1>1, <2>1, <2>2
    <3> QED
      BY <1>2, <1>4, <1>5, <2>1, <2>2, <3>1
  <2>3. CASE ~(k <= x - n)
    <3>1. ~(k + n <= x) /\ k - (x - n) = (k + n) - x
      BY <1>1, <2>1, <2>3
    <3> QED
      BY <1>4, <1>5, <2>1, <2>3, <3>1
  <2> QED
    BY <2>2, <2>3
<1>7. Len(r) = Len(s) - Len(U[p])
  BY <1>4, <1>5
<1>8. Stream(r, U, p + 1)
  <2>1. \A k \in 1..Len(r) : r[k] = s[k + Len(U[p])]
    BY <1>6
  <2>2. Stream(s, U, p)
    BY <1>3
  <2> QED
    BY <1>7, <2>1, <2>2, StreamShrinks
<1> QED
  BY <1>2, <1>3, <1>8

-----------------------------------------------------------------------------
(* ClientSession *)

ByteNames == Nat \X Nat
Packets == [j \in 1..Len(sent) |-> BytesOf(j, sent[j])]
First == Len(processed) + 1

(* The input buffer and the wire hold the packets that were not processed, *)
(* one behind the other: the reader is in step between two packets.        *)
SessionInv ==
  /\ sent \in Seq(BodySizes) /\ wire \in Seq(ByteNames) /\ inputBuffer \in Seq(ByteNames)
  /\ processed \in Seq(Seq(ByteNames)) /\ spc \in {"idle", "onRead"}
  /\ Len(processed) <= Len(sent)
  /\ Stream(inputBuffer \o wire, Packets, First)
  /\ PacketsIntact
  /\ NothingHeldBack

LEMMA BytesType ==
  ASSUME NEW j \in Nat, NEW n \in Nat
  PROVE  BytesOf(j, n) \in Seq(ByteNames) /\ Len(BytesOf(j, n)) = IntSize + n
<1>1. IntSize + n \in Nat
  BY DEF IntSize
<1>2. BytesOf(j, n) \in [1..IntSize + n -> ByteNames]
  BY <1>1 DEF BytesOf, ByteNames
<1> QED
  BY <1>1, <1>2, SeqDef, LenProperties

LEMMA PacketsType ==
  ASSUME sent \in Seq(BodySizes)
  PROVE  /\ Packets \in Seq(Seq(ByteNames)) /\ Len(Packets) = Len(sent) /\ Len(sent) \in Nat
         /\ \A j \in 1..Len(sent) : /\ sent[j] \in Nat /\ Packets[j] = BytesOf(j, sent[j])
                                    /\ Packets[j] \in Seq(ByteNames) /\ Len(Packets[j]) = IntSize + sent[j]
<1>1. Len(sent) \in Nat /\ \A j \in 1..Len(sent) : sent[j] \in Nat /\ j \in Nat
  <2>1. Len(sent) \in Nat /\ \A j \in 1..Len(sent) : sent[j] \in BodySizes
    BY LenProperties, ElementOfSeq
  <2>2. \A j \in 1..Len(sent) : sent[j] \in Nat
    BY <2>1, PacketsAssumption
  <2>3. \A j \in 1..Len(sent) : j \in Nat
    BY <2>1
  <2> QED
    BY <2>1, <2>2, <2>3
<1>2. \A j \in 1..Len(sent) : Packets[j] = BytesOf(j, sent[j])
  BY DEF Packets
<1>3. \A j \in 1..Len(sent) : Packets[j] \in Seq(ByteNames) /\ Len(Packets[j]) = IntSize + sent[j]
  BY <1>1, <1>2, BytesType
<1>4. Packets \in [1..Len(sent) -> Seq(ByteNames)]
  <2>1. \A j \in 1..Len(sent) : BytesOf(j, sent[j]) \in Seq(ByteNames)
    BY <1>2, <1>3
  <2> QED
    BY <2>1 DEF Packets
<1> QED
  BY <1>1, <1>2, <1>3, <1>4, SeqDef, LenProperties

(* What the reader finds at the front of its buffer. *)
LEMMA FrontIsFirst ==
  ASSUME SessionInv, inputBuffer # <<>>
  PROVE  /\ First \in 1..Len(sent) /\ sent[First] \in Nat
         /\ Head(inputBuffer) = <<First, 1>> /\ PacketSizes = {sent[First]}
         /\ Len(Packets[First]) = IntSize + sent[First]
         /\ \A k \in 1..Len(inputBuffer) : k <= IntSize + sent[First] => inputBuffer[k] = <<First, k>>
<1>1. /\ sent \in Seq(BodySizes) /\ wire \in Seq(ByteNames) /\ inputBuffer \in Seq(ByteNames)
      /\ Len(processed) <= Len(sent) /\ Stream(inputBuffer \o wire, Packets, First)
      /\ processed \in Seq(Seq(ByteNames))
  BY DEF SessionInv
<1>2. Len(inputBuffer) \in Nat /\ Len(inputBuffer) # 0 /\ Len(processed) \in Nat
  BY <1>1, LenProperties, EmptySeq
<1>3. Packets \in Seq(Seq(ByteNames)) /\ Len(Packets) = Len(sent) /\ Len(sent) \in Nat
  BY <1>1, PacketsType
<1>4. First \in 1..Len(Packets) + 1
  BY <1>1, <1>2, <1>3 DEF First
<1>7. /\ First \in 1..Len(sent)
      /\ \A k \in 1..Len(inputBuffer) : k <= Len(Packets[First]) => inputBuffer[k] = Packets[First][k]
  <2>1. PICK a \in Seq(ByteNames), b \in Seq(ByteNames), U \in Seq(Seq(ByteNames)), p \in 1..Len(Packets) + 1 :
          a = inputBuffer /\ b = wire /\ U = Packets /\ p = First
    BY <1>1, <1>3, <1>4
  <2>2. Stream(a \o b, U, p) /\ a # <<>>
    BY <1>1, <2>1
  <2>3. p \in 1..Len(U) /\ \A k \in 1..Len(a) : k <= Len(U[p]) => a[k] = U[p][k]
    <3>1. p \in 1..Len(U) + 1
      BY <2>1
    <3> QED
      BY <2>2, <3>1, StreamFront
  <2> QED
    BY <1>3, <2>1, <2>3
<1>8. sent[First] \in Nat /\ Packets[First] = BytesOf(First, sent[First]) /\ Len(Packets[First]) = IntSize + sent[First]
  BY <1>1, <1>7, PacketsType
<1>9. \A k \in 1..IntSize + sent[First] : Packets[First][k] = <<First, k>>
  BY <1>8 DEF BytesOf
<1>10. \A k \in 1..Len(inputBuffer) : k <= IntSize + sent[First] => inputBuffer[k] = <<First, k>>
  <2> TAKE k \in 1..Len(inputBuffer)
  <2> HAVE k <= IntSize + sent[First]
  <2>1. k \in 1..IntSize + sent[First]
    BY <1>2, <1>8 DEF IntSize
  <2> QED
    BY <1>7, <1>8, <1>9, <2>1
<1>11. Head(inputBuffer) = <<First, 1>>
  <2>1. 1 \in 1..Len(inputBuffer) /\ 1 <= IntSize + sent[First]
    BY <1>2, <1>8 DEF IntSize
  <2>2. Head(inputBuffer) = inputBuffer[1]
    BY <1>1
  <2> QED
    BY <1>10, <2>1, <2>2
<1>12. PacketSizes = {sent[First]}
  BY <1>11 DEF PacketSizes
<1> QED
  BY <1>7, <1>8, <1>10, <1>11, <1>12

LEMMA SessionInitInv == SessionInit => SessionInv
<1> SUFFICES ASSUME SessionInit PROVE SessionInv
  OBVIOUS
<1>1. sent = <<>> /\ wire = <<>> /\ inputBuffer = <<>> /\ spc = "idle" /\ processed = <<>>
  BY DEF SessionInit
<1>2. Len(sent) = 0 /\ Len(processed) = 0 /\ sent \in Seq(BodySizes)
  BY <1>1, EmptySeq
<1>3. inputBuffer \o wire = <<>>
  BY <1>1, ConcatEmptySeq, EmptySeq
<1>4. Len(Packets) = 0 /\ First = 1
  BY <1>2, PacketsType DEF First
<1>5. Stream(inputBuffer \o wire, Packets, First)
  <2> DEFINE st == [j \in 1..1 |-> 0]
  <2>1. st \in [1..0 + 1 -> Nat] /\ st[1] = 0 /\ st[0 + 1] = 0 /\ Len(<<>>) = 0
    OBVIOUS
  <2> HIDE DEF st
  <2>2. Laid(<<>>, Packets, 1, st)
    BY <1>4, <2>1 DEF Laid
  <2> QED
    BY <1>3, <1>4, <2>1, <2>2 DEF Stream
<1>6. PacketsIntact /\ NothingHeldBack
  BY <1>1, <1>2 DEF PacketsIntact, NothingHeldBack
<1> QED
  BY <1>1, <1>2, <1>5, <1>6, EmptySeq DEF SessionInv

LEMMA ClientSendsKeeps == ASSUME SessionInv, NEW n \in BodySizes, ClientSends(n) PROVE SessionInv'
<1> DEFINE u == BytesOf(Len(sent) + 1, n)
<1>1. /\ sent' = Append(sent, n) /\ wire' = wire \o u /\ UNCHANGED <<inputBuffer, spc, processed>>
      /\ sent \in Seq(BodySizes) /\ wire \in Seq(ByteNames) /\ inputBuffer \in Seq(ByteNames)
      /\ processed \in Seq(Seq(ByteNames)) /\ Len(processed) <= Len(sent)
      /\ Stream(inputBuffer \o wire, Packets, First)
  BY DEF ClientSends, SessionInv
<1>2. Len(sent) \in Nat /\ Len(processed) \in Nat /\ n \in Nat
  BY <1>1, LenProperties, PacketsAssumption
<1>3. /\ sent' \in Seq(BodySizes) /\ Len(sent') = Len(sent) + 1
      /\ \A j \in 1..Len(sent) : sent'[j] = sent[j]
      /\ sent'[Len(sent) + 1] = n
  BY <1>1, AppendProperties
<1>4. u \in Seq(ByteNames)
  BY <1>2, BytesType
<1>5. wire' \in Seq(ByteNames) /\ inputBuffer \o wire \in Seq(ByteNames)
      /\ inputBuffer' \o wire' = (inputBuffer \o wire) \o u
  <2>1. PICK a \in Seq(ByteNames), b \in Seq(ByteNames), v \in Seq(ByteNames) :
          a = inputBuffer /\ b = wire /\ v = u
    BY <1>1, <1>4
  <2>2. b \o v \in Seq(ByteNames) /\ a \o b \in Seq(ByteNames)
    BY ConcatProperties
  <2>3. a \o (b \o v) = (a \o b) \o v
    BY ConcatAssociative
  <2>4. inputBuffer' = a /\ wire' = b \o v /\ inputBuffer \o wire = a \o b /\ v = u
    BY <1>1, <2>1
  <2> QED
    BY <2>2, <2>3, <2>4
<1>6. Packets' = Append(Packets, u)
  <2>1. /\ Packets \in Seq(Seq(ByteNames)) /\ Len(Packets) = Len(sent)
        /\ \A j \in 1..Len(sent) : Packets[j] = BytesOf(j, sent[j])
    BY <1>1, PacketsType
  <2>2. /\ Append(Packets, u) \in Seq(Seq(ByteNames)) /\ Len(Append(Packets, u)) = Len(sent) + 1
        /\ \A j \in 1..Len(sent) : Append(Packets, u)[j] = Packets[j]
        /\ Append(Packets, u)[Len(sent) + 1] = u
    BY <1>4, <2>1, AppendProperties
  <2>3. Packets' = [j \in 1..Len(sent) + 1 |-> BytesOf(j, sent'[j])]
    BY <1>3 DEF Packets, BytesOf
  <2>4. \A j \in 1..Len(sent) + 1 : BytesOf(j, sent'[j]) = Append(Packets, u)[j]
    <3> TAKE j \in 1..Len(sent) + 1
    <3>1. j = Len(sent) + 1 \/ j \in 1..Len(sent)
      BY <1>2
    <3> QED
      BY <1>3, <2>1, <2>2, <3>1
  <2>5. DOMAIN Append(Packets, u) = 1..Len(sent) + 1
    BY <2>2, LenProperties
  <2>6. Append(Packets, u) = [j \in 1..Len(sent) + 1 |-> Append(Packets, u)[j]]
    BY <2>2, <2>5
  <2> QED
    BY <2>3, <2>4, <2>6
<1>7. First' = First /\ First \in 1..Len(Packets) + 1 /\ Packets \in Seq(Seq(ByteNames))
  BY <1>1, <1>2, PacketsType DEF First
<1>8. Stream(inputBuffer \o wire, Packets, First)'
  <2>1. Stream((inputBuffer \o wire) \o u, Append(Packets, u), First)
    BY <1>1, <1>4, <1>5, <1>7, StreamGrows
  <2>2. Stream(inputBuffer' \o wire', Packets', First')
    BY <1>5, <1>6, <1>7, <2>1
  <2> QED
    BY <2>2 DEF Stream, Laid
<1>9. PacketsIntact'
  <2>1. \A j \in 1..Len(processed) : j \in 1..Len(sent) /\ sent'[j] = sent[j]
    BY <1>1, <1>2, <1>3
  <2>2. \A j \in 1..Len(processed) : processed'[j] = BodyOf(j)'
    BY <1>1, <2>1 DEF SessionInv, PacketsIntact, BodyOf
  <2>3. Len(processed') <= Len(sent')
    BY <1>1, <1>2, <1>3
  <2> QED
    BY <1>1, <2>2, <2>3 DEF PacketsIntact
<1>10. NothingHeldBack'
  <2> SUFFICES ASSUME spc = "idle", inputBuffer # <<>>
               PROVE  Len(inputBuffer) < IntSize + sent'[Head(inputBuffer)[1]]
    BY <1>1 DEF NothingHeldBack
  <2>1. Len(inputBuffer) < IntSize + sent[Head(inputBuffer)[1]]
    BY DEF SessionInv, NothingHeldBack
  <2>2. Head(inputBuffer)[1] = First /\ First \in 1..Len(sent)
    BY FrontIsFirst
  <2> QED
    BY <1>3, <2>1, <2>2
<1> QED
  BY <1>1, <1>2, <1>3, <1>5, <1>8, <1>9, <1>10 DEF SessionInv

(* Bytes move from the wire to the buffer; the stream is the same. *)
LEMMA BytesArriveKeeps == ASSUME SessionInv, NEW n \in 1..Len(wire), BytesArrive(n) PROVE SessionInv'
<1> DEFINE a == SubSeq(wire, 1, n)
           b == SubSeq(wire, n + 1, Len(wire))
<1>1. /\ inputBuffer' = inputBuffer \o a /\ wire' = b /\ spc' = "onRead" /\ UNCHANGED <<sent, processed>>
      /\ sent \in Seq(BodySizes) /\ wire \in Seq(ByteNames) /\ inputBuffer \in Seq(ByteNames)
      /\ processed \in Seq(Seq(ByteNames)) /\ Len(processed) <= Len(sent)
      /\ Stream(inputBuffer \o wire, Packets, First)
  BY DEF BytesArrive, SessionInv
<1>3. b \in Seq(ByteNames) /\ inputBuffer' \in Seq(ByteNames) /\ inputBuffer' \o wire' = inputBuffer \o wire
  BY ZenonT(40), <1>1, StreamMoves
<1> HIDE DEF a, b
<1>6. Packets' = Packets /\ First' = First
  BY <1>1 DEF Packets, BytesOf, First
<1>7. Stream(inputBuffer \o wire, Packets, First)'
  <2>1. Stream(inputBuffer' \o wire', Packets', First')
    BY <1>1, <1>3, <1>6
  <2> QED
    BY <2>1 DEF Stream, Laid
<1>8. PacketsIntact' /\ NothingHeldBack'
  BY <1>1 DEF SessionInv, PacketsIntact, BodyOf, NothingHeldBack
<1> QED
  BY <1>1, <1>3, <1>7, <1>8 DEF SessionInv

(* A packet that is taken is the first that was not processed, whole. *)
LEMMA TakePacketKeeps == ASSUME SessionInv, TakePacket PROVE SessionInv'
<1>1. /\ spc = "onRead" /\ Len(inputBuffer) >= 4 /\ UNCHANGED <<sent, wire, spc>>
      /\ sent \in Seq(BodySizes) /\ wire \in Seq(ByteNames) /\ inputBuffer \in Seq(ByteNames)
      /\ processed \in Seq(Seq(ByteNames)) /\ Len(processed) <= Len(sent)
      /\ Stream(inputBuffer \o wire, Packets, First)
  BY DEF TakePacket, HasSize, SessionInv, IntSize
<1>2. inputBuffer # <<>>
  BY <1>1
<1>3. PICK n \in Nat : n = sent[First]
  BY <1>2, FrontIsFirst
<1>4. /\ First \in 1..Len(sent) /\ PacketSizes = {n} /\ Len(Packets[First]) = 4 + n
      /\ \A k \in 1..Len(inputBuffer) : k <= 4 + n => inputBuffer[k] = <<First, k>>
  BY <1>2, <1>3, FrontIsFirst DEF IntSize
<1>5. /\ Len(inputBuffer) >= 4 + n
      /\ inputBuffer' = SubSeq(inputBuffer, 4 + n + 1, Len(inputBuffer))
      /\ processed' = Append(processed, Body(n))
  BY <1>4 DEF TakePacket, Complete, IntSize
<1>6. /\ Len(inputBuffer) \in Nat /\ Len(wire) \in Nat /\ Len(processed) \in Nat /\ Len(sent) \in Nat
      /\ \A k \in 1..Len(inputBuffer) : inputBuffer[k] \in ByteNames
  BY <1>1, LenProperties, ElementOfSeq
<1>7. /\ Body(n) \in Seq(ByteNames) /\ Len(Body(n)) = n
      /\ \A k \in 1..n : Body(n)[k] = <<First, 4 + k>>
  <2>1. Body(n) = SubSeq(inputBuffer, 4 + 1, 4 + n) /\ (4 + n) - 4 = n /\ 4 + n \in Nat /\ 4 <= 4 + n
    BY <1>3 DEF Body, IntSize
  <2>2. /\ Body(n) \in Seq(ByteNames) /\ Len(Body(n)) = n
        /\ \A k \in 1..n : Body(n)[k] = inputBuffer[4 + k]
    <3>1. inputBuffer \in Seq(ByteNames) /\ 4 \in Nat /\ 4 + n <= Len(inputBuffer)
      BY <1>1, <1>3, <1>5, <1>6
    <3>2. PICK a \in Seq(ByteNames), m \in Nat : a = inputBuffer /\ m = 4 + n
      BY <2>1, <3>1
    <3>3. /\ SubSeq(a, 4 + 1, m) \in Seq(ByteNames) /\ Len(SubSeq(a, 4 + 1, m)) = m - 4
          /\ \A k \in 1..m - 4 : SubSeq(a, 4 + 1, m)[k] = a[4 + k]
      BY <2>1, <3>1, <3>2, CutIs
    <3> QED
      BY <2>1, <3>2, <3>3
  <2>3. \A k \in 1..n : 4 + k \in 1..Len(inputBuffer) /\ 4 + k <= 4 + n
    BY <1>3, <1>5, <1>6
  <2> QED
    BY <1>4, <2>2, <2>3
<1>9. processed' \in Seq(Seq(ByteNames)) /\ Len(processed') = Len(processed) + 1
      /\ (\A j \in 1..Len(processed) : processed'[j] = processed[j]) /\ processed'[Len(processed) + 1] = Body(n)
  BY <1>1, <1>5, <1>7, AppendProperties
<1>10. Packets' = Packets /\ First' = First + 1 /\ Len(processed') <= Len(sent') /\ First \in Nat
  <2>1. Packets' = Packets
    BY <1>1 DEF Packets, BytesOf
  <2>2. First' = First + 1
    BY <1>9 DEF First
  <2>3. Len(processed) + 1 <= Len(sent)
    BY <1>4, <1>6 DEF First
  <2> QED
    BY <1>1, <1>4, <1>9, <2>1, <2>2, <2>3
<1>11. inputBuffer' \in Seq(ByteNames) /\ Stream(inputBuffer \o wire, Packets, First)'
  <2>1. Packets \in Seq(Seq(ByteNames)) /\ First \in 1..Len(Packets) /\ 4 + n = Len(Packets[First]) /\ 4 + n \in Nat
    BY <1>1, <1>3, <1>4, PacketsType
  <2>6. inputBuffer' \in Seq(ByteNames) /\ Stream(inputBuffer' \o wire, Packets, First + 1)
    BY <1>1, <1>5, <2>1, StreamTakes
  <2>7. Stream(inputBuffer' \o wire', Packets', First')
    BY <1>1, <1>10, <2>6
  <2> QED
    BY <2>6, <2>7 DEF Stream, Laid
<1>12. PacketsIntact'
  <2>1. BodyOf(First) = [k \in 1..n |-> <<First, 4 + k>>]
    BY <1>3 DEF BodyOf, IntSize
  <2>2. Body(n) = BodyOf(First)
    <3>1. DOMAIN Body(n) = 1..n /\ Body(n) = [k \in 1..n |-> Body(n)[k]]
      BY <1>7, LenProperties
    <3> QED
      BY <1>7, <2>1, <3>1
  <2>3. \A j : BodyOf(j)' = BodyOf(j)
    BY <1>1 DEF BodyOf
  <2>4. \A j \in 1..Len(processed) + 1 : processed'[j] = BodyOf(j)
    <3> TAKE j \in 1..Len(processed) + 1
    <3>1. j = Len(processed) + 1 \/ j \in 1..Len(processed)
      BY <1>6
    <3>2. processed'[Len(processed) + 1] = BodyOf(Len(processed) + 1)
      BY <1>9, <2>2 DEF First
    <3>3. \A k \in 1..Len(processed) : processed'[k] = BodyOf(k)
      BY <1>9 DEF SessionInv, PacketsIntact
    <3> QED
      BY <3>1, <3>2, <3>3
  <2> QED
    BY <1>9, <1>10, <2>3, <2>4 DEF PacketsIntact
<1>13. NothingHeldBack'
  BY <1>1 DEF NothingHeldBack
<1> QED
  BY <1>1, <1>9, <1>10, <1>11, <1>12, <1>13 DEF SessionInv

LEMMA ReturnKeeps == ASSUME SessionInv, ReturnFromOnRead PROVE SessionInv'
<1>1. /\ spc' = "idle" /\ UNCHANGED <<sent, wire, inputBuffer, processed>>
      /\ HasSize => \E n \in PacketSizes : ~Complete(n)
      /\ inputBuffer \in Seq(ByteNames)
  BY DEF ReturnFromOnRead, SessionInv
<1>2. Packets' = Packets /\ First' = First
  BY <1>1 DEF Packets, BytesOf, First
<1>3. Stream(inputBuffer \o wire, Packets, First)'
  <2>1. Stream(inputBuffer' \o wire', Packets', First')
    BY <1>1, <1>2 DEF SessionInv
  <2> QED
    BY <2>1 DEF Stream, Laid
<1>4. PacketsIntact'
  BY <1>1 DEF SessionInv, PacketsIntact, BodyOf
<1>5. NothingHeldBack'
  <2> SUFFICES ASSUME inputBuffer # <<>> PROVE Len(inputBuffer) < IntSize + sent[Head(inputBuffer)[1]]
    BY <1>1 DEF NothingHeldBack
  <2>1. Head(inputBuffer)[1] = First /\ sent[First] \in Nat /\ PacketSizes = {sent[First]}
    BY FrontIsFirst
  <2>2. Len(inputBuffer) \in Nat
    BY <1>1, LenProperties
  <2>3. CASE HasSize
    BY <1>1, <2>1, <2>2, <2>3 DEF Complete, IntSize
  <2>4. CASE ~HasSize
    BY <2>1, <2>2, <2>4 DEF HasSize, IntSize
  <2> QED
    BY <2>3, <2>4
<1> QED
  BY <1>1, <1>3, <1>4, <1>5 DEF SessionInv

LEMMA SessionStepKeeps == ASSUME SessionInv, [SessionNext]_sessionVars PROVE SessionInv'
<1>1. CASE UNCHANGED sessionVars
  <2>1. UNCHANGED <<sent, wire, inputBuffer, spc, processed>>
    BY <1>1 DEF sessionVars
  <2>2. Packets' = Packets /\ First' = First
    BY <2>1 DEF Packets, BytesOf, First
  <2>3. Stream(inputBuffer' \o wire', Packets', First')
    BY <2>1, <2>2 DEF SessionInv
  <2>4. Stream(inputBuffer \o wire, Packets, First)'
    BY <2>3 DEF Stream, Laid
  <2>5. PacketsIntact' /\ NothingHeldBack'
    BY <2>1 DEF SessionInv, PacketsIntact, BodyOf, NothingHeldBack
  <2> QED
    BY <2>1, <2>4, <2>5 DEF SessionInv
<1> QED
  BY <1>1, ClientSendsKeeps, BytesArriveKeeps, TakePacketKeeps, ReturnKeeps DEF SessionNext

(* However TCP cuts and joins the bytes of the client's packets, onRead()  *)
(* gives process() the bodies that were sent, whole, in order and once,    *)
(* and when it returns no whole packet is left in the input buffer.        *)
THEOREM PacketsAreSound == SessionSpec => []PacketsSound
<1>1. SessionInit => SessionInv
  BY SessionInitInv
<1>2. SessionInv /\ [SessionNext]_sessionVars => SessionInv'
  BY SessionStepKeeps
<1>3. SessionInv => PacketsSound
  BY DEF SessionInv, PacketsSound
<1> QED
  BY <1>1, <1>2, <1>3, PTL DEF SessionSpec

-----------------------------------------------------------------------------
(* BinaryWriter *)

WriterBytes == {"cmd", "seq", "length", "data", "byte", "nul"} \X Nat
WriterPoints == {"idle", "writeCmd", "writeSeq", "compress", "append", "getMsg", "send", "round", "dead"}

(* The message once both numbers are in it. *)
Numbers == [k \in 1..8 |-> IF k <= 4 THEN <<"seq", k>> ELSE Nul]

WriterInv ==
  /\ wpc \in WriterPoints /\ handler \in Handlers /\ size \in Nat
  /\ IndexIsSize
  /\ wpc = "writeCmd" => msg = <<>> /\ out = <<>>
  /\ wpc = "writeSeq" => Len(msg) = 4 /\ out = <<>>
  /\ wpc = "compress" => msg = Numbers /\ out = <<>>
  /\ wpc = "append" => msg = Numbers /\ out = <<Byte(size)>>
  /\ wpc = "getMsg" => msg = Message
  /\ wpc = "send" => msg = <<>> /\ out = Message
  /\ AnswerLayout
  /\ OnlySmallIsSent

LEMMA WriterInitInv == WriterInit => WriterInv
<1> SUFFICES ASSUME WriterInit PROVE WriterInv
  OBVIOUS
<1>1. wpc = "idle" /\ handler \in Handlers /\ size = 0 /\ msg = <<>> /\ index = 0 /\ packet = <<>>
  BY DEF WriterInit
<1>2. IndexIsSize
  BY <1>1, EmptySeq DEF IndexIsSize
<1>3. ~Sent
  BY <1>1 DEF Sent
<1>4. AnswerLayout /\ OnlySmallIsSent
  BY <1>1, <1>3 DEF AnswerLayout, OnlySmallIsSent
<1> QED
  BY <1>1, <1>2, <1>4 DEF WriterInv, WriterPoints

(* A function on 1..n is a sequence of length n. *)
LEMMA FunIsSeq ==
  ASSUME NEW V, NEW n \in Nat, NEW f \in [1..n -> V]
  PROVE  f \in Seq(V) /\ Len(f) = n
<1>1. f \in Seq(V) /\ DOMAIN f = 1..n
  BY SeqDef
<1> QED
  BY <1>1, LenProperties

LEMMA BytesAre ==
  ASSUME NEW name \in {"cmd", "seq", "length", "data", "byte", "nul"}, NEW n \in Nat
  PROVE  Bytes(name, n) \in Seq(WriterBytes) /\ Len(Bytes(name, n)) = n
<1>1. Bytes(name, n) \in [1..n -> WriterBytes]
  BY DEF Bytes, WriterBytes
<1>2. PICK f \in [1..n -> WriterBytes] : f = Bytes(name, n)
  BY <1>1
<1> QED
  BY <1>2, FunIsSeq

(* A number written to an empty message is the whole message. *)
LEMMA FirstFixed ==
  ASSUME msg = <<>>, index = 0,
         NEW name \in {"cmd", "seq", "length", "data", "byte", "nul"}, NEW n \in Nat
  PROVE  Fixed(name, n) = Bytes(name, n) /\ Len(Fixed(name, n)) = n
<1>1. 1..index + n = 1..n /\ \A k \in 1..n : k <= n
  OBVIOUS
<1>2. Fixed(name, n) = Bytes(name, n)
  BY <1>1 DEF Fixed, Bytes
<1> QED
  BY <1>2, BytesAre

(* The second number takes the place of the first, and zeros follow it. *)
LEMMA SecondFixed ==
  ASSUME Len(msg) = 4, index = 4
  PROVE  Fixed("seq", 4) = Numbers
<1>1. index + 4 = 8
  OBVIOUS
<1>2. \A k \in 1..8 : ~(k <= 4) => Resized(8)[k] = Nul
  BY DEF Resized
<1>3. \A k \in 1..8 : (IF k <= 4 THEN <<"seq", k>> ELSE Resized(8)[k]) = (IF k <= 4 THEN <<"seq", k>> ELSE Nul)
  BY <1>2
<1>4. Fixed("seq", 4) = [k \in 1..8 |-> IF k <= 4 THEN <<"seq", k>> ELSE Resized(8)[k]]
  BY <1>1 DEF Fixed
<1> QED
  BY <1>3, <1>4 DEF Numbers

LEMMA NumbersAre == Numbers \in Seq(WriterBytes) /\ Len(Numbers) = 8
<1>1. Numbers \in [1..8 -> WriterBytes]
  BY DEF Numbers, WriterBytes, Nul
<1>2. PICK f \in [1..8 -> WriterBytes] : f = Numbers
  BY <1>1
<1> QED
  BY <1>2, FunIsSeq

LEMMA MessageIs ==
  ASSUME size \in Nat
  PROVE  /\ Message = Numbers \o <<Byte(size)>> \o Bytes("data", size)
         /\ Message \in Seq(WriterBytes) /\ Len(Message) = 9 + size
<1>1. Message = Numbers \o <<Byte(size)>> \o Bytes("data", size)
  <2>1. 1..2 * IntWidth = 1..8 /\ IntWidth = 4
    BY DEF IntWidth
  <2> QED
    BY <2>1 DEF Message, Numbers
<1>2. PICK b \in Seq(WriterBytes) : b = <<Byte(size)>> /\ Len(b) = 1
  <2>1. PICK x \in WriterBytes : x = Byte(size)
    BY DEF Byte, WriterBytes
  <2>2. <<x>> \in Seq(WriterBytes) /\ Len(<<x>>) = 1
    OBVIOUS
  <2> QED
    BY <2>1, <2>2
<1>3. PICK a \in Seq(WriterBytes) : a = Numbers /\ Len(a) = 8
  BY NumbersAre
<1>4. a \o b \in Seq(WriterBytes) /\ Len(a \o b) = 9
  <2>1. a \o b \in Seq(WriterBytes) /\ Len(a \o b) = Len(a) + Len(b)
    BY ConcatProperties
  <2> QED
    BY <1>2, <1>3, <2>1
<1>5. PICK d \in Seq(WriterBytes) : d = Bytes("data", size) /\ Len(d) = size
  BY BytesAre
<1>6. (a \o b) \o d \in Seq(WriterBytes) /\ Len((a \o b) \o d) = 9 + size
  <2>1. (a \o b) \o d \in Seq(WriterBytes) /\ Len((a \o b) \o d) = Len(a \o b) + Len(d)
    BY <1>4, ConcatProperties
  <2> QED
    BY <1>4, <1>5, <2>1
<1> QED
  BY <1>1, <1>2, <1>3, <1>5, <1>6

LEMMA BeginKeeps == ASSUME WriterInv, NEW h \in Handlers, NEW n \in DataSizes, Begin(h, n) PROVE WriterInv'
<1>1. n \in Nat
  BY SizesAssumption
<1>2. wpc' = "writeCmd" /\ handler' = h /\ size' = n /\ msg' = <<>> /\ index' = 0 /\ out' = <<>>
  BY DEF Begin
<1>3. AnswerLayout' /\ OnlySmallIsSent'
  BY <1>2 DEF AnswerLayout, OnlySmallIsSent, Sent
<1> QED
  BY <1>1, <1>2, <1>3, EmptySeq DEF WriterInv, WriterPoints, IndexIsSize

LEMMA WriteFixedKeeps == ASSUME WriterInv, WriteCmd \/ WriteSeq PROVE WriterInv'
<1>1. CASE WriteCmd
  <2>1. /\ wpc = "writeCmd" /\ wpc' = "writeSeq" /\ msg' = Fixed("cmd", 4) /\ index' = index + 4
        /\ UNCHANGED <<handler, size, out, i, packet>>
    BY <1>1 DEF WriteCmd, IntWidth
  <2>2. msg = <<>> /\ index = 0 /\ out = <<>>
    BY <2>1, EmptySeq DEF WriterInv, IndexIsSize
  <2>3. Len(msg') = 4 /\ index' = 4
    <3>1. "cmd" \in {"cmd", "seq", "length", "data", "byte", "nul"} /\ 4 \in Nat
      OBVIOUS
    <3>2. Len(Fixed("cmd", 4)) = 4
      BY <2>2, <3>1, FirstFixed
    <3> QED
      BY <2>1, <2>2, <3>2
  <2>4. AnswerLayout' /\ OnlySmallIsSent'
    BY <2>1 DEF AnswerLayout, OnlySmallIsSent, Sent
  <2> QED
    BY <2>1, <2>2, <2>3, <2>4 DEF WriterInv, WriterPoints, IndexIsSize
<1>2. CASE WriteSeq
  <2>1. /\ wpc = "writeSeq" /\ wpc' = "compress" /\ msg' = Fixed("seq", 4) /\ index' = index + 4
        /\ UNCHANGED <<handler, size, out, i, packet>>
    BY <1>2 DEF WriteSeq, IntWidth
  <2>2. Len(msg) = 4 /\ index = 4 /\ out = <<>>
    BY <2>1 DEF WriterInv, IndexIsSize
  <2>3. msg' = Numbers /\ Len(msg') = 8 /\ index' = 8
    BY <2>1, <2>2, SecondFixed, NumbersAre
  <2>4. AnswerLayout' /\ OnlySmallIsSent'
    BY <2>1 DEF AnswerLayout, OnlySmallIsSent, Sent
  <2>5. Numbers' = Numbers
    BY DEF Numbers, Nul
  <2> QED
    BY <2>1, <2>2, <2>3, <2>4, <2>5 DEF WriterInv, WriterPoints, IndexIsSize
<1> QED
  BY <1>1, <1>2

LEMMA CompressKeeps ==
  ASSUME WriterInv, CompressSmall \/ CompressLarge \/ Round \/ OutOfMemory PROVE WriterInv'
<1> USE DEF Numbers, Nul
<1>1. CASE CompressSmall
  <2>1. /\ wpc = "compress" /\ wpc' = "append" /\ out' = Append(out, Byte(size)) /\ size < 128
        /\ UNCHANGED <<handler, size, msg, index, packet>>
    BY <1>1 DEF CompressSmall
  <2>2. out = <<>> /\ msg = Numbers
    BY <2>1 DEF WriterInv
  <2>3. out' = <<Byte(size)>>
    BY <2>1, <2>2
  <2>4. AnswerLayout' /\ OnlySmallIsSent'
    BY <2>1 DEF AnswerLayout, OnlySmallIsSent, Sent
  <2>5. Byte(size)' = Byte(size)
    BY <2>1 DEF Byte
  <2> QED
    BY <2>1, <2>2, <2>3, <2>4, <2>5 DEF WriterInv, WriterPoints, IndexIsSize
<1>2. CASE CompressLarge \/ Round \/ OutOfMemory
  <2>1. wpc' \in {"round", "dead"} /\ UNCHANGED <<handler, size, msg, index, packet>>
    BY <1>2 DEF CompressLarge, Round, OutOfMemory
  <2>2. size >= 128
    BY <1>2 DEF CompressLarge, Round, OutOfMemory, WriterInv, OnlySmallIsSent
  <2>3. wpc' = "dead" => Len(out') = MaxOut
    BY <1>2 DEF CompressLarge, Round, OutOfMemory
  <2>4. AnswerLayout' /\ OnlySmallIsSent'
    BY <2>1, <2>2, <2>3 DEF AnswerLayout, OnlySmallIsSent, Sent
  <2> QED
    BY <2>1, <2>4 DEF WriterInv, WriterPoints, IndexIsSize
<1> QED
  BY <1>1, <1>2

LEMMA AppendDataKeeps == ASSUME WriterInv, AppendData PROVE WriterInv'
<1>1. /\ wpc = "append" /\ wpc' = "getMsg" /\ msg' = msg \o out \o Bytes("data", size)
      /\ index' = index + Len(out) + size
      /\ UNCHANGED <<handler, size, out, packet>> /\ size \in Nat
      /\ msg = Numbers /\ index = Len(msg) /\ out = <<Byte(size)>>
  BY DEF AppendData, Grown, WriterInv, IndexIsSize
<1>2. msg' = Message /\ Len(msg') = 9 + size
  BY <1>1, MessageIs
<1>3. Len(out) = 1 /\ index = 8
  BY <1>1, NumbersAre
<1>4. index' = Len(msg')
  BY <1>1, <1>2, <1>3
<1>5. size < 128
  BY <1>1 DEF WriterInv, OnlySmallIsSent
<1>6. AnswerLayout' /\ OnlySmallIsSent'
  BY <1>1, <1>5 DEF AnswerLayout, OnlySmallIsSent, Sent
<1>7. Message' = Message
  BY <1>1 DEF Message, Bytes, Byte, Nul
<1> QED
  BY <1>1, <1>2, <1>4, <1>6, <1>7 DEF WriterInv, WriterPoints, IndexIsSize

LEMMA TakeMsgKeeps == ASSUME WriterInv, TakeMsg PROVE WriterInv'
<1>1. /\ wpc = "getMsg" /\ wpc' = "send" /\ out' = msg /\ msg' = <<>> /\ index' = 0
      /\ UNCHANGED <<handler, size, packet>>
  BY DEF TakeMsg, Clear
<1>2. out' = Message /\ size < 128
  BY <1>1 DEF WriterInv, OnlySmallIsSent
<1>3. Message' = Message
  BY <1>1 DEF Message, Bytes, Byte, Nul
<1>4. AnswerLayout' /\ OnlySmallIsSent'
  BY <1>1, <1>2 DEF AnswerLayout, OnlySmallIsSent, Sent
<1> QED
  BY <1>1, <1>2, <1>3, <1>4, EmptySeq DEF WriterInv, WriterPoints, IndexIsSize

LEMMA SendPacketKeeps == ASSUME WriterInv, SendPacket PROVE WriterInv'
<1>1. /\ wpc = "send" /\ wpc' = "idle" /\ msg' = Fixed("length", LengthSize) /\ index' = index + LengthSize
      /\ packet' = msg' \o out /\ UNCHANGED <<handler, size, out>>
      /\ msg = <<>> /\ index = 0 /\ out = Message /\ size < 128
  BY EmptySeq DEF SendPacket, WriterInv, IndexIsSize, OnlySmallIsSent
<1>2. LengthSize \in Nat /\ LengthSize' = LengthSize
  BY <1>1 DEF LengthSize, IntWidth, SizeTSize
<1>3. msg' = Bytes("length", LengthSize) /\ Len(msg') = LengthSize /\ index' = LengthSize
  <2>1. PICK n \in Nat : n = LengthSize
    BY <1>2
  <2>2. Fixed("length", n) = Bytes("length", n) /\ Len(Fixed("length", n)) = n
    BY <1>1, FirstFixed
  <2>3. index + n = n
    BY <1>1
  <2> QED
    BY <1>1, <2>1, <2>2, <2>3
<1>4. Message' = Message /\ Bytes("length", LengthSize)' = Bytes("length", LengthSize)
  BY <1>1, <1>2 DEF Message, Bytes, Byte, Nul
<1>5. AnswerLayout'
  BY <1>1, <1>3, <1>4 DEF AnswerLayout
<1>6. OnlySmallIsSent'
  BY <1>1 DEF OnlySmallIsSent
<1> QED
  BY <1>1, <1>3, <1>5, <1>6 DEF WriterInv, WriterPoints, IndexIsSize

LEMMA WriterStepKeeps == ASSUME WriterInv, [WriterNext]_writerVars PROVE WriterInv'
<1>1. CASE UNCHANGED writerVars
  <2>1. UNCHANGED <<wpc, handler, size, msg, index, out, packet>>
    BY <1>1 DEF writerVars
  <2>2. Message' = Message /\ Numbers' = Numbers /\ Byte(size)' = Byte(size)
    BY <2>1 DEF Message, Numbers, Bytes, Byte, Nul
  <2>3. Bytes("length", LengthSize)' = Bytes("length", LengthSize)
    BY <2>1 DEF Bytes, LengthSize
  <2>4. AnswerLayout' /\ OnlySmallIsSent' /\ IndexIsSize'
    BY <2>1, <2>2, <2>3 DEF WriterInv, AnswerLayout, OnlySmallIsSent, Sent, IndexIsSize
  <2> QED
    BY <2>1, <2>2, <2>4 DEF WriterInv
<1> QED
  BY <1>1, BeginKeeps, WriteFixedKeeps, CompressKeeps, AppendDataKeeps, TakeMsgKeeps, SendPacketKeeps
     DEF WriterNext, WriterRuns

(* _index is the length of the message at every step of every handler, and *)
(* what a handler sends, heartbeat included, is for data of any size the   *)
(* length, the sequence number in the command's place, zeros in its own,   *)
(* and the data whole; nothing is sent for data of 128 bytes or more.      *)
THEOREM AnswersAreSound == WriterSpec => []AnswerSound
<1>1. WriterInit => WriterInv
  BY WriterInitInv
<1>2. WriterInv /\ [WriterNext]_writerVars => WriterInv'
  BY WriterStepKeeps
<1>3. WriterInv => AnswerSound
  BY DEF WriterInv, AnswerSound
<1> QED
  BY <1>1, <1>2, <1>3, PTL DEF WriterSpec

-----------------------------------------------------------------------------
(* ProtobufCodec *)

Tags == {"RPC0", "OTHR"}
ContentUnits == Tags \cup PayloadUnits
CodecUnits == Nat \cup ContentUnits \cup {Checksum(c) : c \in Seq(ContentUnits)}
Codes == {"kInvalidLength", "kCheckSumError", "kUnknownMessageType", "kParseError"}

(* What a frame is made of *)
Tag(f) == IF f.fault = "tag" THEN "OTHR" ELSE "RPC0"
ContentOf(f) == <<Tag(f)>> \o f.payload
Announced(f) == IF f.fault = "short" THEN 1
                ELSE IF f.fault = "long" THEN MaxMessageLen + 1 ELSE Len(f.payload) + 2
SumOf(f) == IF f.fault = "sum" THEN Checksum(<<>>) ELSE Checksum(ContentOf(f))

LEMMA FrameTypes ==
  ASSUME NEW f \in Frames
  PROVE  /\ f.payload \in Payloads /\ f.payload \in Seq(PayloadUnits) /\ Len(f.payload) \in Nat
         /\ Len(f.payload) + 2 <= MaxMessageLen /\ MaxMessageLen \in Nat
         /\ f.fault \in {"none", "short", "long", "sum", "tag"}
<1>1. f.payload \in Payloads /\ f.fault \in {"none"} \cup Faults
  BY DEF Frames
<1>2. f.payload \in Seq(PayloadUnits) /\ Len(f.payload) + 2 <= MaxMessageLen /\ MaxMessageLen \in Nat
  BY <1>1, CodecAssumption
<1>3. f.fault \in {"none", "short", "long", "sum", "tag"}
  BY <1>1, CodecAssumption
<1> QED
  BY <1>1, <1>2, <1>3, LenProperties

LEMMA InFront ==
  ASSUME NEW V, NEW c \in Seq(V), NEW x \in V
  PROVE  /\ <<x>> \o c \in Seq(V) /\ Len(<<x>> \o c) = Len(c) + 1 /\ (<<x>> \o c)[1] = x
         /\ \A j \in 1..Len(c) : (<<x>> \o c)[j + 1] = c[j]
<1>1. <<x>> \in Seq(V) /\ Len(<<x>>) = 1 /\ <<x>>[1] = x /\ Len(c) \in Nat
  BY LenProperties
<1>2. PICK a \in Seq(V) : a = <<x>>
  BY <1>1
<1>3. /\ a \o c \in Seq(V) /\ Len(a \o c) = Len(a) + Len(c)
      /\ \A k \in 1..Len(a) + Len(c) : (a \o c)[k] = IF k <= Len(a) THEN a[k] ELSE c[k - Len(a)]
  BY ConcatProperties
<1>4. Len(a) = 1 /\ a[1] = x
  BY <1>1, <1>2
<1>5. \A j \in 1..Len(c) : j + 1 \in 1..1 + Len(c) /\ ~(j + 1 <= 1) /\ (j + 1) - 1 = j
  BY <1>1
<1>6. \A j \in 1..Len(c) : (a \o c)[j + 1] = c[j]
  BY <1>3, <1>4, <1>5
<1>7. (a \o c)[1] = x /\ Len(a \o c) = Len(c) + 1
  BY <1>1, <1>3, <1>4
<1> QED
  BY <1>2, <1>3, <1>6, <1>7

LEMMA Framed ==
  ASSUME NEW V, NEW c \in Seq(V), NEW x \in V, NEW y \in V, NEW m \in Nat, m = Len(c)
  PROVE  /\ <<x>> \o c \o <<y>> \in Seq(V) /\ Len(<<x>> \o c \o <<y>>) = m + 2
         /\ (<<x>> \o c \o <<y>>)[1] = x /\ (<<x>> \o c \o <<y>>)[m + 2] = y
         /\ \A j \in 1..m : (<<x>> \o c \o <<y>>)[j + 1] = c[j]
<1>1. PICK a \in Seq(V) : a = <<x>> \o c /\ Len(a) = m + 1 /\ a[1] = x /\ \A j \in 1..m : a[j + 1] = c[j]
  <2>1. /\ <<x>> \o c \in Seq(V) /\ Len(<<x>> \o c) = Len(c) + 1 /\ (<<x>> \o c)[1] = x
        /\ \A j \in 1..Len(c) : (<<x>> \o c)[j + 1] = c[j]
    BY InFront
  <2> DEFINE b == <<x>> \o c
  <2>2. b \in Seq(V) /\ Len(b) = m + 1 /\ b[1] = x /\ \A j \in 1..m : b[j + 1] = c[j]
    BY <2>1
  <2> HIDE DEF b
  <2>3. \E a \in Seq(V) : a = b /\ Len(a) = m + 1 /\ a[1] = x /\ \A j \in 1..m : a[j + 1] = c[j]
    BY <2>2
  <2> QED
    BY <2>3 DEF b
<1>2. Append(a, y) = a \o <<y>>
  BY AppendIsConcat
<1>3. /\ Append(a, y) \in Seq(V) /\ Len(Append(a, y)) = (m + 1) + 1
      /\ \A j \in 1..m + 1 : Append(a, y)[j] = a[j]
      /\ Append(a, y)[(m + 1) + 1] = y
  BY <1>1, AppendProperties
<1>4. (m + 1) + 1 = m + 2 /\ 1 \in 1..m + 1 /\ \A j \in 1..m : j + 1 \in 1..m + 1
  OBVIOUS
<1>5. Append(a, y)[1] = x /\ \A j \in 1..m : Append(a, y)[j + 1] = c[j]
  BY <1>1, <1>3, <1>4
<1> QED
  BY <1>1, <1>2, <1>3, <1>4, <1>5

LEMMA ContentIs ==
  ASSUME NEW f \in Frames, NEW n \in Nat, n = Len(f.payload)
  PROVE  /\ ContentOf(f) \in Seq(ContentUnits) /\ Len(ContentOf(f)) = n + 1 /\ ContentOf(f)[1] = Tag(f)
         /\ \A j \in 1..n : ContentOf(f)[j + 1] = f.payload[j]
         /\ Tag(f) \in ContentUnits
<1>1. Tag(f) \in ContentUnits
  BY DEF Tag, ContentUnits, Tags
<1>2. PICK c \in Seq(ContentUnits) : c = f.payload
  <2>1. f.payload \in Seq(PayloadUnits)
    BY FrameTypes
  <2> QED
    BY <2>1, SeqMonotonic DEF ContentUnits
<1>3. /\ <<Tag(f)>> \o c \in Seq(ContentUnits) /\ Len(<<Tag(f)>> \o c) = Len(c) + 1 /\ (<<Tag(f)>> \o c)[1] = Tag(f)
      /\ \A j \in 1..Len(c) : (<<Tag(f)>> \o c)[j + 1] = c[j]
  BY <1>1, InFront
<1> QED
  BY <1>1, <1>2, <1>3 DEF ContentOf

(* One unit of a sequence is damaged. *)
LEMMA Damaged ==
  ASSUME NEW V, NEW s \in Seq(V), NEW m \in 1..Len(s), NEW x \in V
  PROVE  /\ [s EXCEPT ![m] = x] \in Seq(V) /\ Len([s EXCEPT ![m] = x]) = Len(s)
         /\ [s EXCEPT ![m] = x][m] = x
         /\ \A k \in 1..Len(s) : k # m => [s EXCEPT ![m] = x][k] = s[k]
<1>1. Len(s) \in Nat /\ s \in [1..Len(s) -> V]
  BY LenProperties, ElementOfSeq
<1>2. [s EXCEPT ![m] = x] \in [1..Len(s) -> V]
  BY <1>1
<1>3. /\ [s EXCEPT ![m] = x][m] = x
      /\ \A k \in 1..Len(s) : k # m => [s EXCEPT ![m] = x][k] = s[k]
  BY <1>1
<1> QED
  BY <1>1, <1>2, <1>3, SeqDef, LenProperties

LEMMA FrameIs ==
  ASSUME NEW f \in Frames, NEW n \in Nat, n = Len(f.payload)
  PROVE  /\ FrameUnits(f) \in Seq(CodecUnits) /\ Len(FrameUnits(f)) = n + 3
         /\ FrameUnits(f)[1] = Announced(f) /\ FrameUnits(f)[n + 3] = SumOf(f)
         /\ \A j \in 1..n + 1 : FrameUnits(f)[j + 1] = ContentOf(f)[j]
<1>1. /\ MaxMessageLen \in Nat /\ f.fault \in {"none", "short", "long", "sum", "tag"}
  BY FrameTypes
<1>2. ContentOf(f) \in Seq(ContentUnits) /\ Len(ContentOf(f)) = n + 1
  BY ContentIs
<1>3. ContentOf(f) \in Seq(CodecUnits)
  BY <1>2, SeqMonotonic DEF CodecUnits
<1>4. Checksum(ContentOf(f)) \in CodecUnits /\ Checksum(<<>>) \in CodecUnits
  BY <1>2, EmptySeq DEF CodecUnits
<1>5. n + 2 \in CodecUnits /\ 1 \in CodecUnits /\ MaxMessageLen + 1 \in CodecUnits
  BY <1>1 DEF CodecUnits
<1>6. PICK u \in Seq(CodecUnits) :
        /\ u = FillEmptyBuffer(Tag(f), f.payload) /\ Len(u) = n + 3
        /\ u[1] = n + 2 /\ u[n + 3] = Checksum(ContentOf(f))
        /\ \A j \in 1..n + 1 : u[j + 1] = ContentOf(f)[j]
  <2>1. PICK c \in Seq(CodecUnits), x \in CodecUnits, y \in CodecUnits, m \in Nat :
          c = ContentOf(f) /\ x = n + 2 /\ y = Checksum(c) /\ m = n + 1
    BY <1>3, <1>4, <1>5
  <2>2. m = Len(c)
    BY <1>2, <2>1
  <2>3. /\ <<x>> \o c \o <<y>> \in Seq(CodecUnits) /\ Len(<<x>> \o c \o <<y>>) = m + 2
        /\ (<<x>> \o c \o <<y>>)[1] = x /\ (<<x>> \o c \o <<y>>)[m + 2] = y
        /\ \A j \in 1..m : (<<x>> \o c \o <<y>>)[j + 1] = c[j]
    BY <2>2, Framed
  <2>4. m + 2 = n + 3 /\ Len(c) + 1 = x
    BY <2>1, <2>2
  <2>5. FillEmptyBuffer(Tag(f), f.payload) = <<x>> \o c \o <<y>>
    BY <2>1, <2>4 DEF FillEmptyBuffer, ContentOf, kChecksumLen
  <2> QED
    BY <2>1, <2>3, <2>4, <2>5
<1>7. FrameUnits(f) = CASE f.fault = "short" -> [u EXCEPT ![1] = 1]
                        [] f.fault = "long" -> [u EXCEPT ![1] = MaxMessageLen + 1]
                        [] f.fault = "sum" -> [u EXCEPT ![Len(u)] = Checksum(<<>>)]
                        [] OTHER -> u
  BY <1>6 DEF FrameUnits, Tag, kMinMessageLen, kChecksumLen
<1>8. 1 \in 1..Len(u) /\ n + 3 \in 1..Len(u) /\ n + 3 # 1 /\ \A j \in 1..n + 1 : j + 1 \in 1..Len(u) /\ j + 1 # 1 /\ j + 1 # n + 3
  BY <1>6
<1>9. ASSUME NEW x \in CodecUnits, FrameUnits(f) = [u EXCEPT ![1] = x]
      PROVE  /\ FrameUnits(f) \in Seq(CodecUnits) /\ Len(FrameUnits(f)) = n + 3
             /\ FrameUnits(f)[1] = x /\ FrameUnits(f)[n + 3] = Checksum(ContentOf(f))
             /\ \A j \in 1..n + 1 : FrameUnits(f)[j + 1] = ContentOf(f)[j]
  <2>1. /\ [u EXCEPT ![1] = x] \in Seq(CodecUnits) /\ Len([u EXCEPT ![1] = x]) = Len(u)
        /\ [u EXCEPT ![1] = x][1] = x
        /\ \A k \in 1..Len(u) : k # 1 => [u EXCEPT ![1] = x][k] = u[k]
    BY <1>8, Damaged
  <2> QED
    BY <1>6, <1>8, <1>9, <2>1
<1>10. CASE f.fault = "short"
  BY <1>5, <1>7, <1>9, <1>10 DEF Announced, SumOf
<1>11. CASE f.fault = "long"
  BY <1>5, <1>7, <1>9, <1>11 DEF Announced, SumOf
<1>12. CASE f.fault = "sum"
  <2> DEFINE m == n + 3
             v == [u EXCEPT ![m] = Checksum(<<>>)]
  <2>1. FrameUnits(f) = v /\ m \in 1..Len(u)
    BY <1>6, <1>7, <1>8, <1>12
  <2> HIDE DEF m
  <2>2. /\ v \in Seq(CodecUnits) /\ Len(v) = Len(u) /\ v[m] = Checksum(<<>>)
        /\ \A k \in 1..Len(u) : k # m => v[k] = u[k]
    BY <1>4, <2>1, Damaged
  <2> QED
    BY <1>6, <1>8, <1>12, <2>1, <2>2 DEF Announced, SumOf, m
<1>13. CASE f.fault \in {"none", "tag"}
  BY <1>6, <1>7, <1>13 DEF Announced, SumOf
<1> QED
  BY <1>1, <1>10, <1>11, <1>12, <1>13

(* parse() of a whole frame finds what is wrong with it, or its payload. *)
LEMMA ParseIs ==
  ASSUME NEW f \in Frames, NEW n \in Nat, n = Len(f.payload),
         inbuf \in Seq(CodecUnits), Len(inbuf) >= n + 3, inbuf[1] = n + 2,
         f.fault \notin {"short", "long"},
         \A k \in 1..n + 3 : inbuf[k] = FrameUnits(f)[k]
  PROVE  /\ Payload(Content) = f.payload
         /\ ParseContent(Content) = "kNoError" <=> Good(f)
         /\ ~Good(f) => ParseContent(Content) = FaultCode(f)
<1>1. /\ ContentOf(f) \in Seq(ContentUnits) /\ Len(ContentOf(f)) = n + 1 /\ ContentOf(f)[1] = Tag(f)
      /\ \A j \in 1..n : ContentOf(f)[j + 1] = f.payload[j]
  BY ContentIs
<1>2. /\ FrameUnits(f)[n + 3] = SumOf(f)
      /\ \A j \in 1..n + 1 : FrameUnits(f)[j + 1] = ContentOf(f)[j]
  BY FrameIs
<1>3. PICK q \in Seq(CodecUnits) : /\ q = Content /\ Len(q) = n + 2
                                   /\ \A k \in 1..n + 2 : q[k] = inbuf[1 + k]
  <2>1. PICK m \in Nat : m = n + 3
    OBVIOUS
  <2>2. 1 <= m /\ m <= Len(inbuf) /\ 1 \in Nat
    BY <2>1
  <2>3. /\ SubSeq(inbuf, 1 + 1, m) \in Seq(CodecUnits) /\ Len(SubSeq(inbuf, 1 + 1, m)) = m - 1
        /\ \A k \in 1..m - 1 : SubSeq(inbuf, 1 + 1, m)[k] = inbuf[1 + k]
    BY <2>2, CutIs
  <2>4. m - 1 = n + 2 /\ 1 + (n + 2) = m
    BY <2>1
  <2>5. Content = SubSeq(inbuf, 1 + 1, m)
    BY <2>4 DEF Content, kHeaderLen
  <2> QED
    BY <2>3, <2>4, <2>5
<1>4. /\ \A j \in 1..n + 1 : q[j] = ContentOf(f)[j]
      /\ q[n + 2] = SumOf(f)
  <2>1. \A j \in 1..n + 1 : j \in 1..n + 2 /\ 1 + j \in 1..n + 3 /\ 1 + j = j + 1
    OBVIOUS
  <2>2. n + 2 \in 1..n + 2 /\ 1 + (n + 2) = n + 3 /\ n + 3 \in 1..n + 3
    OBVIOUS
  <2>3. q[n + 2] = SumOf(f)
    BY <1>2, <1>3, <2>2
  <2> QED
    BY <1>2, <1>3, <2>1, <2>3
<1>5. SubSeq(q, 1, n + 1) = ContentOf(f)
  <2>1. PICK m \in Nat : m = n + 1
    OBVIOUS
  <2>2. 0 <= m /\ m <= Len(q) /\ 0 \in Nat
    BY <1>3, <2>1
  <2>3. /\ SubSeq(q, 0 + 1, m) \in Seq(CodecUnits) /\ Len(SubSeq(q, 0 + 1, m)) = m - 0
        /\ \A k \in 1..m - 0 : SubSeq(q, 0 + 1, m)[k] = q[0 + k]
    BY <2>2, CutIs
  <2>4. m - 0 = m /\ 0 + 1 = 1 /\ \A k \in 1..m : 0 + k = k
    OBVIOUS
  <2>5. PICK s \in Seq(CodecUnits) : s = SubSeq(q, 1, m)
    BY <2>3, <2>4
  <2>6. Len(s) = Len(ContentOf(f)) /\ \A k \in 1..Len(s) : s[k] = ContentOf(f)[k]
    BY <1>1, <1>4, <2>1, <2>3, <2>4, <2>5
  <2>7. s = ContentOf(f)
    BY <1>1, <2>6, SameSeq
  <2> QED
    BY <2>1, <2>5, <2>7
<1>6. Payload(Content) = f.payload
  <2>1. PICK m \in Nat : m = n + 1
    OBVIOUS
  <2>2. 1 <= m /\ m <= Len(q) /\ 1 \in Nat
    BY <1>3, <2>1
  <2>3. /\ SubSeq(q, 1 + 1, m) \in Seq(CodecUnits) /\ Len(SubSeq(q, 1 + 1, m)) = m - 1
        /\ \A k \in 1..m - 1 : SubSeq(q, 1 + 1, m)[k] = q[1 + k]
    BY <2>2, CutIs
  <2>4. m - 1 = n /\ 1 + 1 = 2 /\ (n + 2) - 1 = m /\ \A k \in 1..n : 1 + k \in 1..n + 1 /\ 1 + k = k + 1
    BY <2>1
  <2>5. PICK s \in Seq(CodecUnits) : s = SubSeq(q, 2, m)
    BY <2>3, <2>4
  <2>6. Len(s) = n /\ \A k \in 1..n : s[k] = f.payload[k]
    BY <1>1, <1>4, <2>1, <2>3, <2>4, <2>5
  <2>7. s = f.payload
    <3>1. PICK t \in Seq(PayloadUnits) : t = f.payload
      BY FrameTypes
    <3>2. Len(s) = Len(t) /\ \A k \in 1..Len(s) : s[k] = t[k]
      BY <1>1, <2>6, <3>1
    <3>3. s = t
      BY <3>2, SameSeq
    <3> QED
      BY <3>1, <3>3
  <2> QED
    BY <1>3, <2>4, <2>5, <2>7 DEF Payload, kChecksumLen
<1>7. ValidateChecksum(Content) <=> f.fault # "sum"
  <2>1. ValidateChecksum(q) <=> SumOf(f) = Checksum(ContentOf(f))
    <3>1. Len(q) - 1 = n + 1
      BY <1>3
    <3> QED
      BY <1>3, <1>4, <1>5, <3>1 DEF ValidateChecksum, kChecksumLen
  <2>2. Checksum(<<>>) # Checksum(ContentOf(f))
    <3>1. ContentOf(f) # <<>>
      BY <1>1
    <3>2. Checksum(<<>>).checksum = <<>> /\ Checksum(ContentOf(f)).checksum = ContentOf(f)
      BY DEF Checksum
    <3> QED
      BY <3>1, <3>2
  <2> QED
    BY <1>3, <2>1, <2>2 DEF SumOf
<1>8. Head(Content) = Tag(f)
  <2>1. Head(q) = q[1]
    BY <1>3
  <2>2. 1 \in 1..n + 1
    OBVIOUS
  <2> QED
    BY <1>1, <1>3, <1>4, <2>1, <2>2
<1>9. f.fault \in {"none", "sum", "tag"}
  BY FrameTypes
<1>10. ParseContent(Content) = IF f.fault = "sum" THEN "kCheckSumError"
                               ELSE IF f.fault = "tag" THEN "kUnknownMessageType"
                               ELSE IF "garbled" \in ToSet(f.payload) THEN "kParseError" ELSE "kNoError"
  <2>1. Tag(f) # "RPC0" <=> f.fault = "tag"
    BY DEF Tag
  <2> QED
    BY <1>6, <1>7, <1>8, <2>1 DEF ParseContent
<1> QED
  BY <1>6, <1>9, <1>10 DEF Good, FaultCode

-----------------------------------------------------------------------------

Units == [j \in 1..Len(frames) |-> FrameUnits(frames[j])]
Upcoming == Len(messages) + 1

(* The input buffer and what is coming hold the frames that were not       *)
(* taken, from the start of one.                                           *)
CodecTypeOK ==
  /\ frames \in Seq(Frames) /\ coming \in Seq(CodecUnits) /\ inbuf \in Seq(CodecUnits)
  /\ reading \in BOOLEAN /\ messages \in Seq(Payloads) /\ errors \in Seq(Codes)
  /\ Len(messages) <= Len(frames)
CodecInv == CodecTypeOK /\ Stream(inbuf \o coming, Units, Upcoming) /\ MessagesIntact /\ NoFrameHeldBack

LEMMA UnitsType ==
  ASSUME frames \in Seq(Frames)
  PROVE  /\ Units \in Seq(Seq(CodecUnits)) /\ Len(Units) = Len(frames) /\ Len(frames) \in Nat
         /\ \A j \in 1..Len(frames) : /\ frames[j] \in Frames /\ Units[j] = FrameUnits(frames[j])
                                      /\ Units[j] \in Seq(CodecUnits)
<1>1. Len(frames) \in Nat /\ \A j \in 1..Len(frames) : frames[j] \in Frames
  BY LenProperties, ElementOfSeq
<1>2. \A j \in 1..Len(frames) : Units[j] = FrameUnits(frames[j])
  BY DEF Units
<1>3. \A f \in Frames : FrameUnits(f) \in Seq(CodecUnits)
  BY FrameIs, FrameTypes
<1>4. \A j \in 1..Len(frames) : Units[j] \in Seq(CodecUnits)
  BY <1>1, <1>2, <1>3
<1>5. Units \in [1..Len(frames) -> Seq(CodecUnits)]
  BY <1>1, <1>3 DEF Units
<1> QED
  BY <1>1, <1>2, <1>4, <1>5, SeqDef, LenProperties

LEMMA FrontFrame ==
  ASSUME CodecInv, inbuf # <<>>
  PROVE  /\ Upcoming \in 1..Len(frames) /\ frames[Upcoming] \in Frames
         /\ \A k \in 1..Len(inbuf) : k <= Len(FrameUnits(frames[Upcoming])) => inbuf[k] = FrameUnits(frames[Upcoming])[k]
<1>1. CodecTypeOK /\ Stream(inbuf \o coming, Units, Upcoming)
  BY DEF CodecInv
<1>2. Units \in Seq(Seq(CodecUnits)) /\ Len(Units) = Len(frames) /\ Len(frames) \in Nat
  BY <1>1, UnitsType DEF CodecTypeOK
<1>3. Upcoming \in 1..Len(Units) + 1
  BY <1>1, <1>2, LenProperties DEF CodecTypeOK, Upcoming
<1>4. PICK a \in Seq(CodecUnits), b \in Seq(CodecUnits), U \in Seq(Seq(CodecUnits)), p \in 1..Len(Units) + 1 :
        a = inbuf /\ b = coming /\ U = Units /\ p = Upcoming
  BY <1>1, <1>2, <1>3 DEF CodecTypeOK
<1>5. Stream(a \o b, U, p) /\ a # <<>> /\ p \in 1..Len(U) + 1
  BY <1>1, <1>4
<1>6. p \in 1..Len(U) /\ \A k \in 1..Len(a) : k <= Len(U[p]) => a[k] = U[p][k]
  BY <1>5, StreamFront
<1>7. Upcoming \in 1..Len(frames)
  BY <1>2, <1>4, <1>6
<1>8. frames[Upcoming] \in Frames /\ Units[Upcoming] = FrameUnits(frames[Upcoming])
  BY <1>1, <1>7, UnitsType DEF CodecTypeOK
<1> QED
  BY <1>4, <1>6, <1>7, <1>8

(* What onMessage() makes of the front of the buffer. *)
LEMMA FrontCases ==
  ASSUME CodecInv, LengthIsThere, NEW f, f = frames[Upcoming]
  PROVE  /\ Upcoming \in 1..Len(frames) /\ f \in Frames
         /\ InvalidLength <=> f.fault \in {"short", "long"}
         /\ ~InvalidLength => /\ FrameIsThere <=> Len(inbuf) >= Len(FrameUnits(f))
                              /\ inbuf[1] + 1 = Len(FrameUnits(f))
         /\ ~InvalidLength /\ FrameIsThere =>
              /\ Payload(Content) = f.payload
              /\ ParseContent(Content) = "kNoError" <=> Good(f)
              /\ ~Good(f) => ParseContent(Content) = FaultCode(f)
<1>1. inbuf \in Seq(CodecUnits) /\ Len(inbuf) >= 3 /\ Len(inbuf) \in Nat
  BY LenProperties DEF CodecInv, CodecTypeOK, LengthIsThere, kMinMessageLen, kHeaderLen, kChecksumLen
<1>2. inbuf # <<>>
  BY <1>1
<1>3. /\ Upcoming \in 1..Len(frames) /\ f \in Frames
      /\ \A k \in 1..Len(inbuf) : k <= Len(FrameUnits(f)) => inbuf[k] = FrameUnits(f)[k]
  BY <1>2, FrontFrame
<1>4. PICK n \in Nat : n = Len(f.payload)
  BY <1>3, FrameTypes
<1>5. Len(FrameUnits(f)) = n + 3 /\ FrameUnits(f)[1] = Announced(f)
  BY <1>3, <1>4, FrameIs
<1>6. inbuf[1] = Announced(f)
  BY <1>1, <1>3, <1>5
<1>7. n + 2 <= MaxMessageLen /\ MaxMessageLen \in Nat
  BY <1>3, <1>4, FrameTypes
<1>8. InvalidLength <=> f.fault \in {"short", "long"}
  BY <1>4, <1>6, <1>7 DEF InvalidLength, Announced, kMinMessageLen, kChecksumLen
<1>9. ASSUME ~InvalidLength
      PROVE  inbuf[1] = n + 2 /\ (FrameIsThere <=> Len(inbuf) >= n + 3) /\ inbuf[1] + 1 = n + 3
  <2>1. inbuf[1] = n + 2
    BY <1>4, <1>6, <1>8, <1>9 DEF Announced
  <2>2. 1 + (n + 2) = n + 3 /\ (n + 2) + 1 = n + 3
    OBVIOUS
  <2> QED
    BY <2>1, <2>2 DEF FrameIsThere, kHeaderLen
<1>10. ASSUME ~InvalidLength, FrameIsThere
       PROVE  /\ Payload(Content) = f.payload
              /\ ParseContent(Content) = "kNoError" <=> Good(f)
              /\ ~Good(f) => ParseContent(Content) = FaultCode(f)
  <2>1. Len(inbuf) >= n + 3 /\ inbuf[1] = n + 2 /\ f.fault \notin {"short", "long"}
    BY <1>8, <1>9, <1>10
  <2>2. \A k \in 1..n + 3 : inbuf[k] = FrameUnits(f)[k]
    <3>1. \A k \in 1..n + 3 : k \in 1..Len(inbuf) /\ k <= n + 3
      BY <1>1, <2>1
    <3> QED
      BY <1>3, <1>5, <3>1
  <2> QED
    BY <1>1, <1>3, <1>4, <2>1, <2>2, ParseIs
<1> QED
  BY <1>3, <1>5, <1>8, <1>9, <1>10

LEMMA CodecInitInv == CodecInit => CodecInv
<1> SUFFICES ASSUME CodecInit PROVE CodecInv
  OBVIOUS
<1>1. /\ frames = <<>> /\ coming = <<>> /\ inbuf = <<>> /\ reading = FALSE /\ messages = <<>> /\ errors = <<>>
  BY DEF CodecInit
<1>2. CodecTypeOK
  <2>1. \A S : <<>> \in Seq(S)
    BY EmptySeq
  <2>2. Len(messages) <= Len(frames)
    <3>1. Len(messages) = 0 /\ Len(frames) = 0
      BY <1>1, EmptySeq
    <3> QED
      BY <3>1
  <2>3. frames \in Seq(Frames) /\ coming \in Seq(CodecUnits) /\ inbuf \in Seq(CodecUnits)
    BY <1>1, <2>1
  <2> QED
    BY <1>1, <2>1, <2>2, <2>3 DEF CodecTypeOK
<1>3. inbuf \o coming = <<>>
  BY <1>1, ConcatEmptySeq, EmptySeq
<1>4. Len(Units) = 0 /\ Upcoming = 1
  BY <1>1, <1>2, UnitsType DEF Upcoming, CodecTypeOK
<1>5. Stream(inbuf \o coming, Units, Upcoming)
  <2> DEFINE st == [j \in 1..1 |-> 0]
  <2>1. st \in [1..0 + 1 -> Nat] /\ st[1] = 0 /\ st[0 + 1] = 0 /\ Len(<<>>) = 0
    OBVIOUS
  <2> HIDE DEF st
  <2>2. Laid(<<>>, Units, 1, st)
    BY <1>4, <2>1 DEF Laid
  <2> QED
    BY <1>3, <1>4, <2>1, <2>2 DEF Stream
<1>6. MessagesIntact /\ NoFrameHeldBack
  BY <1>1 DEF MessagesIntact, NoFrameHeldBack
<1> QED
  BY <1>2, <1>5, <1>6 DEF CodecInv

(* A frame's units depend on the frame alone. *)
LEMMA SameUnits == ASSUME UNCHANGED frames PROVE Units' = Units
  BY DEF Units, FrameUnits, FillEmptyBuffer, Checksum

LEMMA PeerSendsKeeps == ASSUME CodecInv, NEW f \in Frames, PeerSends(f) PROVE CodecInv'
<1>1. /\ frames' = Append(frames, f) /\ coming' = coming \o FrameUnits(f)
      /\ UNCHANGED <<inbuf, reading, messages, errors>> /\ CodecTypeOK
      /\ frames \in Seq(Frames) /\ coming \in Seq(CodecUnits) /\ inbuf \in Seq(CodecUnits)
      /\ messages \in Seq(Payloads) /\ Len(messages) <= Len(frames)
  BY DEF PeerSends, CodecInv, CodecTypeOK
<1>2. PICK l \in Nat, m \in Nat : l = Len(frames) /\ m = Len(messages) /\ m <= l
  BY <1>1, LenProperties
<1>3. /\ frames' \in Seq(Frames) /\ Len(frames') = l + 1
      /\ (\A j \in 1..l : frames'[j] = frames[j]) /\ frames'[l + 1] = f
  BY <1>1, <1>2, AppendProperties
<1>4. PICK u \in Seq(CodecUnits) : u = FrameUnits(f)
  BY FrameIs, FrameTypes
<1>5. PICK a \in Seq(CodecUnits), b \in Seq(CodecUnits) : a = inbuf /\ b = coming
  BY <1>1
<1>6. b \o u \in Seq(CodecUnits) /\ a \o b \in Seq(CodecUnits)
  BY ConcatProperties
<1>7. (a \o b) \o u = a \o (b \o u)
  BY ConcatAssociative
<1>8. CodecTypeOK'
  <2>1. Len(messages') <= Len(frames')
    BY <1>1, <1>2, <1>3
  <2> QED
    BY <1>1, <1>3, <1>4, <1>5, <1>6, <2>1 DEF CodecTypeOK
<1>9. Units' = Append(Units, u)
  <2>1. PICK U \in Seq(Seq(CodecUnits)) : U = Units /\ Len(U) = l /\ \A j \in 1..l : U[j] = FrameUnits(frames[j])
    BY <1>1, <1>2, UnitsType
  <2>2. /\ Append(U, u) \in Seq(Seq(CodecUnits)) /\ Len(Append(U, u)) = l + 1
        /\ \A j \in 1..l : Append(U, u)[j] = U[j]
        /\ Append(U, u)[l + 1] = u
    BY <2>1, AppendProperties
  <2>3. Units' = [j \in 1..l + 1 |-> FrameUnits(frames'[j])]
    BY <1>3 DEF Units, FrameUnits, FillEmptyBuffer, Checksum
  <2>4. \A j \in 1..l + 1 : FrameUnits(frames'[j]) = Append(U, u)[j]
    <3> TAKE j \in 1..l + 1
    <3>1. j = l + 1 \/ j \in 1..l
      OBVIOUS
    <3> QED
      BY <1>3, <1>4, <2>1, <2>2, <3>1
  <2>5. Append(U, u) = [j \in 1..l + 1 |-> Append(U, u)[j]]
    BY <2>2, LenProperties
  <2> QED
    BY <2>1, <2>3, <2>4, <2>5
<1>10. /\ Upcoming' = Upcoming /\ Upcoming \in 1..Len(Units) + 1 /\ Units \in Seq(Seq(CodecUnits))
       /\ Len(Units) = l /\ Upcoming = m + 1
  <2>1. Units \in Seq(Seq(CodecUnits)) /\ Len(Units) = l
    BY <1>1, <1>2, UnitsType
  <2> QED
    BY <1>1, <1>2, <2>1 DEF Upcoming
<1>11. Stream(inbuf \o coming, Units, Upcoming)'
  <2>1. PICK s \in Seq(CodecUnits), U \in Seq(Seq(CodecUnits)), p \in 1..Len(Units) + 1 :
          s = a \o b /\ U = Units /\ p = Upcoming
    BY <1>6, <1>10
  <2>2. Stream(s, U, p) /\ p \in 1..Len(U) + 1
    BY <1>5, <2>1 DEF CodecInv
  <2>3. Stream(s \o u, Append(U, u), p)
    BY <2>2, StreamGrows
  <2>4. Stream(inbuf' \o coming', Units', Upcoming')
    BY <1>1, <1>4, <1>5, <1>7, <1>9, <1>10, <2>1, <2>3
  <2> QED
    BY <2>4 DEF Stream, Laid
<1>12. MessagesIntact'
  <2>1. \A j \in 1..m : j \in 1..l
    BY <1>2
  <2>2. DOMAIN messages = 1..m
    BY <1>1, <1>2, LenProperties
  <2>3. \A j \in DOMAIN messages' : Good(frames'[j]) /\ messages'[j] = frames'[j].payload
    BY <1>1, <1>2, <1>3, <2>1, <2>2 DEF CodecInv, MessagesIntact
  <2>4. errors # <<>> => /\ m + 1 \in 1..l /\ ~Good(frames[m + 1])
                         /\ \A j \in DOMAIN errors : errors[j] = FaultCode(frames[m + 1])
    BY <1>2 DEF CodecInv, MessagesIntact
  <2>5. errors' # <<>> => /\ m + 1 <= l + 1 /\ ~Good(frames'[m + 1])
                          /\ \A j \in DOMAIN errors' : errors'[j] = FaultCode(frames'[m + 1])
    BY <1>1, <1>2, <1>3, <2>4
  <2>6. Len(messages') = m /\ m <= l + 1
    BY <1>1, <1>2
  <2> QED
    BY <1>3, <2>3, <2>5, <2>6 DEF MessagesIntact
<1>13. NoFrameHeldBack'
  <2> SUFFICES ASSUME ~reading, errors = <<>> PROVE Len(inbuf) < Len(FrameUnits(frames'[m + 1]))
    BY <1>1, <1>2 DEF NoFrameHeldBack, FrameUnits, FillEmptyBuffer, Checksum
  <2>1. CASE m < l
    <3>1. Len(inbuf) < Len(FrameUnits(frames[m + 1]))
      BY <1>2, <2>1 DEF CodecInv, NoFrameHeldBack
    <3>2. m + 1 \in 1..l
      BY <1>2, <2>1
    <3> QED
      BY <1>3, <3>1, <3>2
  <2>2. CASE m = l
    <3>1. inbuf = <<>>
      <4> SUFFICES ASSUME inbuf # <<>> PROVE FALSE
        OBVIOUS
      <4>1. Upcoming \in 1..l
        BY <1>2, FrontFrame
      <4> QED
        BY <1>10, <2>2, <4>1
    <3>2. Len(FrameUnits(f)) = Len(f.payload) + 3 /\ Len(f.payload) \in Nat
      BY FrameIs, FrameTypes
    <3>3. Len(inbuf) = 0
      BY <3>1
    <3> QED
      BY <1>3, <2>2, <3>2, <3>3
  <2> QED
    BY <1>2, <2>1, <2>2
<1> QED
  BY <1>8, <1>11, <1>12, <1>13 DEF CodecInv

LEMMA PiecesArriveKeeps == ASSUME CodecInv, PiecesArrive PROVE CodecInv'
<1>1. PICK n \in 1..Len(coming) :
        /\ inbuf' = inbuf \o SubSeq(coming, 1, n) /\ coming' = SubSeq(coming, n + 1, Len(coming))
        /\ reading' = TRUE /\ UNCHANGED <<frames, messages, errors>>
  BY DEF PiecesArrive
<1>2. PICK a \in Seq(CodecUnits), b \in Seq(CodecUnits) : a = inbuf /\ b = coming
  BY DEF CodecInv, CodecTypeOK
<1>3. /\ a \o SubSeq(b, 1, n) \in Seq(CodecUnits) /\ SubSeq(b, n + 1, Len(b)) \in Seq(CodecUnits)
      /\ (a \o SubSeq(b, 1, n)) \o SubSeq(b, n + 1, Len(b)) = a \o b
  <2>1. n \in 1..Len(b)
    BY <1>2
  <2> QED
    BY ZenonT(40), <2>1, StreamMoves
<1>4. /\ inbuf' \in Seq(CodecUnits) /\ coming' \in Seq(CodecUnits) /\ inbuf' \o coming' = inbuf \o coming
  BY <1>1, <1>2, <1>3
<1>5. CodecTypeOK'
  BY <1>1, <1>4 DEF CodecInv, CodecTypeOK
<1>6. Units' = Units /\ Upcoming' = Upcoming
  BY <1>1, SameUnits DEF Upcoming
<1>7. Stream(inbuf \o coming, Units, Upcoming)'
  <2>1. Stream(inbuf' \o coming', Units', Upcoming')
    BY <1>4, <1>6 DEF CodecInv
  <2> QED
    BY <2>1 DEF Stream, Laid
<1>8. MessagesIntact' /\ NoFrameHeldBack'
  BY <1>1 DEF CodecInv, MessagesIntact, Good, FaultCode, NoFrameHeldBack
<1> QED
  BY <1>5, <1>7, <1>8 DEF CodecInv

LEMMA TakeMessageKeeps == ASSUME CodecInv, TakeMessage PROVE CodecInv'
<1>1. /\ FrameIsThere /\ ~InvalidLength /\ ParseContent(Content) = "kNoError" /\ LengthIsThere
      /\ messages' = Append(messages, Payload(Content)) /\ UNCHANGED <<frames, coming, reading, errors>>
      /\ inbuf' = SubSeq(inbuf, 1 + inbuf[1] + 1, Len(inbuf)) /\ reading /\ CodecTypeOK
  BY DEF TakeMessage, RetrieveFrame, kHeaderLen, FrameIsThere, CodecInv
<1>2. PICK f : f = frames[Upcoming]
  OBVIOUS
<1>3. /\ Upcoming \in 1..Len(frames) /\ f \in Frames /\ Payload(Content) = f.payload /\ Good(f)
      /\ Len(inbuf) >= Len(FrameUnits(f)) /\ inbuf[1] + 1 = Len(FrameUnits(f))
      /\ f.fault \notin {"short", "long"}
  BY <1>1, <1>2, FrontCases
<1>4. PICK n \in Nat : n = Len(f.payload)
  BY <1>3, FrameTypes
<1>5. Len(FrameUnits(f)) = n + 3
  BY <1>3, <1>4, FrameIs
<1>6. PICK a \in Seq(CodecUnits), b \in Seq(CodecUnits), x \in Nat, m \in Nat, l \in Nat :
        a = inbuf /\ b = coming /\ x = n + 3 /\ m = Len(messages) /\ l = Len(frames)
  <2>1. inbuf \in Seq(CodecUnits) /\ coming \in Seq(CodecUnits)
    BY <1>1 DEF CodecTypeOK
  <2>2. Len(messages) \in Nat /\ Len(frames) \in Nat
    BY <1>1, LenProperties DEF CodecTypeOK
  <2>3. n + 3 \in Nat
    OBVIOUS
  <2> QED
    BY <2>1, <2>2, <2>3, Zenon
<1>7. inbuf' = SubSeq(a, x + 1, Len(a)) /\ x <= Len(a)
  <2>1. a \in Seq(CodecUnits) /\ Len(a) \in Nat
    BY LenProperties
  <2>2. inbuf[1] = n + 2
    <3>1. inbuf # <<>>
      BY <1>3, <1>4, <1>5
    <3>2. inbuf[1] = FrameUnits(f)[1]
      BY <1>2, <1>3, <1>4, <1>5, <1>6, <2>1, <3>1, FrontFrame
    <3>3. FrameUnits(f)[1] = n + 2
      BY <1>3, <1>4, FrameIs DEF Announced
    <3> QED
      BY <3>2, <3>3
  <2>3. 1 + (n + 2) + 1 = x + 1
    BY <1>6
  <2> QED
    BY <1>1, <1>3, <1>5, <1>6, <2>1, <2>2, <2>3
<1>8. Upcoming = m + 1 /\ m + 1 \in 1..l
  BY <1>3, <1>6 DEF Upcoming
<1>9. PICK U \in Seq(Seq(CodecUnits)) : U = Units /\ Len(U) = l /\ U[m + 1] = FrameUnits(f)
  <2>1. Units \in Seq(Seq(CodecUnits)) /\ Len(Units) = l /\ \A j \in 1..l : Units[j] = FrameUnits(frames[j])
    BY <1>1, <1>6, UnitsType DEF CodecTypeOK
  <2> QED
    BY <1>2, <1>8, <2>1
<1>10. SubSeq(a, x + 1, Len(a)) \in Seq(CodecUnits) /\ Stream(SubSeq(a, x + 1, Len(a)) \o b, U, (m + 1) + 1)
  <2>1. PICK p \in 1..Len(U) : p = m + 1
    BY <1>8, <1>9
  <2>2. Stream(a \o b, U, p) /\ x = Len(U[p]) /\ x <= Len(a)
    BY <1>5, <1>6, <1>7, <1>8, <1>9, <2>1 DEF CodecInv
  <2>3. SubSeq(a, x + 1, Len(a)) \in Seq(CodecUnits) /\ Stream(SubSeq(a, x + 1, Len(a)) \o b, U, p + 1)
    BY <2>2, StreamTakes
  <2> QED
    BY <2>1, <2>3
<1>11. /\ messages' \in Seq(Payloads) /\ Len(messages') = m + 1
       /\ (\A j \in 1..m : messages'[j] = messages[j]) /\ messages'[m + 1] = f.payload
  <2>1. f.payload \in Payloads /\ messages \in Seq(Payloads)
    BY <1>1, <1>3, FrameTypes DEF CodecTypeOK
  <2> QED
    BY <1>1, <1>3, <1>6, <2>1, AppendProperties
<1>12. CodecTypeOK'
  <2>1. Len(messages') <= Len(frames')
    BY <1>1, <1>6, <1>8, <1>11
  <2> QED
    BY <1>1, <1>7, <1>10, <1>11, <2>1 DEF CodecTypeOK
<1>13. Stream(inbuf \o coming, Units, Upcoming)'
  <2>1. Units' = Units /\ Upcoming' = (m + 1) + 1
    BY <1>1, <1>11, SameUnits DEF Upcoming
  <2>2. Stream(inbuf' \o coming', Units', Upcoming')
    BY <1>1, <1>6, <1>7, <1>9, <1>10, <2>1
  <2> QED
    BY <2>2 DEF Stream, Laid
<1>14. errors = <<>>
  BY <1>2, <1>3 DEF CodecInv, MessagesIntact, Upcoming
<1>15. MessagesIntact'
  <2>1. DOMAIN messages = 1..m /\ DOMAIN messages' = 1..m + 1
    BY <1>1, <1>6, <1>11, LenProperties DEF CodecTypeOK
  <2>2. \A j \in 1..m : Good(frames[j]) /\ messages[j] = frames[j].payload
    BY <2>1 DEF CodecInv, MessagesIntact
  <2>3. Good(frames[m + 1]) /\ messages'[m + 1] = frames[m + 1].payload
    BY <1>2, <1>3, <1>8, <1>11
  <2>4. \A j \in 1..m + 1 : j = m + 1 \/ j \in 1..m
    OBVIOUS
  <2>5. \A j \in DOMAIN messages' : Good(frames'[j]) /\ messages'[j] = frames'[j].payload
    BY <1>1, <1>11, <2>1, <2>2, <2>3, <2>4
  <2> QED
    BY <1>1, <1>12, <1>14, <2>5 DEF MessagesIntact, CodecTypeOK
<1>16. NoFrameHeldBack'
  BY <1>1 DEF NoFrameHeldBack
<1> QED
  BY <1>12, <1>13, <1>15, <1>16 DEF CodecInv

LEMMA RefuseFrameKeeps == ASSUME CodecInv, RefuseFrame PROVE CodecInv'
<1>1. /\ reading' = FALSE /\ UNCHANGED <<frames, coming, inbuf, messages>> /\ CodecTypeOK
  BY DEF RefuseFrame, CodecInv
<1>2. PICK f : f = frames[Upcoming]
  OBVIOUS
<1>3. /\ LengthIsThere
      /\ \/ InvalidLength /\ errors' = Append(errors, "kInvalidLength")
         \/ /\ ~InvalidLength /\ FrameIsThere /\ ParseContent(Content) # "kNoError"
            /\ errors' = Append(errors, ParseContent(Content))
  BY DEF RefuseFrame, InvalidLength, FrameIsThere
<1>4. Upcoming \in 1..Len(frames) /\ f \in Frames
  BY <1>2, <1>3, FrontCases
<1>5. ~Good(f) /\ errors' = Append(errors, FaultCode(f))
  <2>1. CASE InvalidLength /\ errors' = Append(errors, "kInvalidLength")
    <3>1. f.fault \in {"short", "long"}
      BY <1>2, <1>3, <2>1, FrontCases
    <3> QED
      BY <2>1, <3>1 DEF Good, FaultCode
  <2>2. CASE /\ ~InvalidLength /\ FrameIsThere /\ ParseContent(Content) # "kNoError"
             /\ errors' = Append(errors, ParseContent(Content))
    <3>1. ~Good(f) /\ ParseContent(Content) = FaultCode(f)
      BY <1>2, <1>3, <2>2, FrontCases
    <3> QED
      BY <2>2, <3>1
  <2> QED
    BY <1>3, <2>1, <2>2
<1>6. FaultCode(f) \in Codes /\ errors \in Seq(Codes)
  BY <1>1 DEF FaultCode, Codes, CodecTypeOK
<1>7. PICK n \in Nat : n = Len(errors)
  BY <1>6, LenProperties
<1>8. /\ errors' \in Seq(Codes) /\ Len(errors') = n + 1 /\ errors' # <<>>
      /\ (\A j \in 1..n : errors'[j] = errors[j]) /\ errors'[n + 1] = FaultCode(f)
  BY <1>5, <1>6, <1>7, AppendProperties
<1>9. CodecTypeOK'
  BY <1>1, <1>8 DEF CodecTypeOK
<1>10. Stream(inbuf \o coming, Units, Upcoming)'
  <2>1. Units' = Units /\ Upcoming' = Upcoming
    BY <1>1, SameUnits DEF Upcoming
  <2>2. Stream(inbuf' \o coming', Units', Upcoming')
    BY <1>1, <2>1 DEF CodecInv
  <2> QED
    BY <2>2 DEF Stream, Laid
<1>11. \A j \in DOMAIN errors' : errors'[j] = FaultCode(f)
  <2>1. DOMAIN errors = 1..n /\ DOMAIN errors' = 1..n + 1
    BY <1>6, <1>7, <1>8, LenProperties
  <2>2. \A j \in 1..n : errors[j] = FaultCode(f)
    <3> TAKE j \in 1..n
    <3>1. errors # <<>>
      BY <1>7
    <3> QED
      BY <1>2, <2>1, <3>1 DEF CodecInv, MessagesIntact, Upcoming
  <2>3. \A j \in 1..n + 1 : j = n + 1 \/ j \in 1..n
    OBVIOUS
  <2> QED
    BY <1>8, <2>1, <2>2, <2>3
<1>12. MessagesIntact'
  <2>1. \A j \in DOMAIN messages' : Good(frames'[j]) /\ messages'[j] = frames'[j].payload
    BY <1>1 DEF CodecInv, MessagesIntact
  <2>2. Len(messages) + 1 <= Len(frames)
    BY <1>1, <1>4, LenProperties DEF Upcoming, CodecTypeOK
  <2>3. LET bad == Len(messages') + 1
        IN  bad <= Len(frames') /\ ~Good(frames'[bad]) /\ \A j \in DOMAIN errors' : errors'[j] = FaultCode(frames'[bad])
    BY <1>1, <1>2, <1>5, <1>11, <2>2 DEF Upcoming
  <2> QED
    BY <1>9, <2>1, <2>3 DEF MessagesIntact, CodecTypeOK
<1>13. NoFrameHeldBack'
  BY <1>8 DEF NoFrameHeldBack
<1> QED
  BY <1>9, <1>10, <1>12, <1>13 DEF CodecInv

LEMMA WaitForMoreKeeps == ASSUME CodecInv, WaitForMore PROVE CodecInv'
<1>1. /\ ~InvalidLength /\ ~FrameIsThere /\ reading' = FALSE
      /\ UNCHANGED <<frames, coming, inbuf, messages, errors>> /\ CodecTypeOK
  BY DEF WaitForMore, CodecInv
<1>2. CodecTypeOK'
  BY <1>1 DEF CodecTypeOK
<1>3. Stream(inbuf \o coming, Units, Upcoming)'
  <2>1. Units' = Units /\ Upcoming' = Upcoming
    BY <1>1, SameUnits DEF Upcoming
  <2>2. Stream(inbuf' \o coming', Units', Upcoming')
    BY <1>1, <2>1 DEF CodecInv
  <2> QED
    BY <2>2 DEF Stream, Laid
<1>4. MessagesIntact'
  BY <1>1 DEF CodecInv, MessagesIntact, Good, FaultCode
<1>5. NoFrameHeldBack'
  <2> SUFFICES ASSUME Len(messages) < Len(frames) PROVE Len(inbuf) < Len(FrameUnits(frames[Upcoming]))
    BY <1>1 DEF NoFrameHeldBack, Upcoming, FrameUnits, FillEmptyBuffer, Checksum
  <2>1. PICK f : f = frames[Upcoming]
    OBVIOUS
  <2>2. Upcoming \in 1..Len(frames)
    BY <1>1, LenProperties DEF CodecTypeOK, Upcoming
  <2>3. f \in Frames
    BY <1>1, <2>1, <2>2, UnitsType DEF CodecTypeOK
  <2>4. Len(FrameUnits(f)) = Len(f.payload) + 3 /\ Len(f.payload) \in Nat /\ Len(inbuf) \in Nat
    BY <1>1, <2>3, FrameIs, FrameTypes, LenProperties DEF CodecTypeOK
  <2>5. CASE LengthIsThere
    BY <1>1, <2>1, <2>4, <2>5, FrontCases
  <2>6. CASE ~LengthIsThere
    BY <2>1, <2>4, <2>6 DEF LengthIsThere, kMinMessageLen, kHeaderLen, kChecksumLen
  <2> QED
    BY <2>5, <2>6
<1> QED
  BY <1>2, <1>3, <1>4, <1>5 DEF CodecInv

LEMMA CodecStepKeeps == ASSUME CodecInv, [CodecNext]_codecVars PROVE CodecInv'
<1>1. CASE UNCHANGED codecVars
  <2>1. UNCHANGED <<frames, coming, inbuf, reading, messages, errors>>
    BY <1>1 DEF codecVars
  <2>2. Units' = Units /\ Upcoming' = Upcoming
    BY <2>1, SameUnits DEF Upcoming
  <2>3. Stream(inbuf' \o coming', Units', Upcoming')
    BY <2>1, <2>2 DEF CodecInv
  <2>4. Stream(inbuf \o coming, Units, Upcoming)'
    BY <2>3 DEF Stream, Laid
  <2>5. CodecTypeOK' /\ MessagesIntact'
    BY <2>1 DEF CodecInv, CodecTypeOK, MessagesIntact, Good, FaultCode
  <2>6. NoFrameHeldBack'
    BY <2>1 DEF CodecInv, NoFrameHeldBack, FrameUnits, FillEmptyBuffer, Checksum
  <2> QED
    BY <2>4, <2>5, <2>6 DEF CodecInv
<1> QED
  BY <1>1, PeerSendsKeeps, PiecesArriveKeeps, TakeMessageKeeps, RefuseFrameKeeps, WaitForMoreKeeps DEF CodecNext

(* However the frames of a peer are cut and joined, for any payloads and   *)
(* any number of frames: messages come out as they were sent and in order  *)
(* up to the first bad frame, every error is that frame's, and no whole    *)
(* frame is left in the buffer when onMessage() returns.                   *)
THEOREM FramesAreSound == CodecSpec => []FramesSound
<1>1. CodecInit => CodecInv
  BY CodecInitInv
<1>2. CodecInv /\ [CodecNext]_codecVars => CodecInv'
  BY CodecStepKeeps
<1>3. CodecInv => FramesSound
  BY DEF CodecInv, FramesSound
<1> QED
  BY <1>1, <1>2, <1>3, PTL DEF CodecSpec

-----------------------------------------------------------------------------
(* HttpServer *)

HttpLines == {r.line : r \in HttpRequests} \cup UNION {ToSet(r.headers) : r \in HttpRequests}
HttpUnits == {CR, LF} \cup {Text(l) : l \in HttpLines}

(* A request and a line of it. *)
Places == Nat \X Nat

(* w is a line of one of the requests s. *)
Place(s, w) == w[1] \in 1..Len(s) /\ w[2] \in 0..Len(s[w[1]].headers) + 1

LEMMA HeadersType ==
  ASSUME NEW r \in HttpRequests
  PROVE  /\ Len(r.headers) \in Nat /\ DOMAIN r.headers = 1..Len(r.headers) /\ r.line.kind = "request"
         /\ \A j \in 1..Len(r.headers) : r.headers[j].kind = "header" /\ r.headers[j] \in HttpLines
<1>1. r.line.kind = "request" /\ r.headers \in Seq({h \in ToSet(r.headers) : h.kind = "header"})
  BY HttpAssumption
<1>2. /\ Len(r.headers) \in Nat /\ DOMAIN r.headers = 1..Len(r.headers)
      /\ \A j \in 1..Len(r.headers) : r.headers[j] \in {h \in ToSet(r.headers) : h.kind = "header"}
  BY <1>1, LenProperties, ElementOfSeq
<1> QED
  BY <1>1, <1>2 DEF HttpLines

LEMMA UnitsDiffer ==
  /\ CR # LF /\ CR.unit # "text" /\ LF.unit # "text"
  /\ \A l : Text(l).unit = "text" /\ Text(l).line = l /\ Text(l) # CR /\ Text(l) # LF
<1>1. CR.unit = "CR" /\ LF.unit = "LF" /\ \A l : Text(l).unit = "text" /\ Text(l).line = l
  BY DEF CR, LF, Text
<1> QED
  BY <1>1

LEMMA UnitsAre ==
  ASSUME NEW l
  PROVE  /\ l = EmptyLine => LineUnits(l) = <<CR, LF>>
         /\ l # EmptyLine => LineUnits(l) = <<Text(l), CR, LF>>
         /\ l = EmptyLine \/ l \in HttpLines => LineUnits(l) \in Seq(HttpUnits)
<1>1. CR \in HttpUnits /\ LF \in HttpUnits /\ \A m \in HttpLines : Text(m) \in HttpUnits
  BY DEF HttpUnits
<1>2. PICK c, f, t : c = CR /\ f = LF /\ t = Text(l)
  OBVIOUS
<1>3. <<c, f>> \in Seq(HttpUnits)
  BY <1>1, <1>2
<1>4. l \in HttpLines => <<t, c, f>> \in Seq(HttpUnits)
  BY <1>1, <1>2
<1> QED
  BY <1>2, <1>3, <1>4 DEF LineUnits

(* l is line n of the request r. *)
IsLine(l, r, n) ==
  /\ n = 0 => l = r.line /\ l.kind = "request"
  /\ n \in 1..Len(r.headers) => l = r.headers[n] /\ l.kind = "header"
  /\ n = Len(r.headers) + 1 <=> l = EmptyLine
  /\ l = EmptyLine \/ l \in HttpLines

LEMMA LineIs ==
  ASSUME NEW s \in Seq(HttpRequests), NEW w, Place(s, w)
  PROVE  IsLine(LineOf(s, w), s[w[1]], w[2])
<1>1. PICK r : r = s[w[1]]
  OBVIOUS
<1>2. r \in HttpRequests
  BY <1>1, ElementOfSeq DEF Place
<1>3. /\ Len(r.headers) \in Nat /\ r.line.kind = "request" /\ r.line \in HttpLines
      /\ \A j \in 1..Len(r.headers) : r.headers[j].kind = "header" /\ r.headers[j] \in HttpLines
  BY <1>2, HeadersType DEF HttpLines
<1>4. EmptyLine.kind = "empty" /\ w[2] \in 0..Len(r.headers) + 1
  BY <1>1 DEF EmptyLine, Place
<1>5. CASE w[2] = 0
  <2>1. LineOf(s, w) = r.line
    BY <1>1, <1>5 DEF LineOf
  <2> QED
    BY <1>1, <1>3, <1>4, <1>5, <2>1 DEF IsLine
<1>6. CASE w[2] \in 1..Len(r.headers)
  <2>1. LineOf(s, w) = r.headers[w[2]]
    BY <1>1, <1>3, <1>6 DEF LineOf
  <2> QED
    BY <1>1, <1>3, <1>4, <1>6, <2>1 DEF IsLine
<1>7. CASE w[2] = Len(r.headers) + 1
  <2>1. LineOf(s, w) = EmptyLine
    BY <1>1, <1>3, <1>7 DEF LineOf
  <2> QED
    BY <1>1, <1>3, <1>4, <1>7, <2>1 DEF IsLine
<1> QED
  BY <1>3, <1>4, <1>5, <1>6, <1>7

(* The lines that were sent, as units of the stream. *)
LinesSent(s, L) == [j \in 1..Len(L) - 1 |-> LineUnits(LineOf(s, L[j]))]

LEMMA SentType ==
  ASSUME NEW s \in Seq(HttpRequests), NEW L \in Seq(Places), Len(L) >= 1,
         \A j \in 1..Len(L) - 1 : Place(s, L[j])
  PROVE  /\ LinesSent(s, L) \in Seq(Seq(HttpUnits)) /\ Len(LinesSent(s, L)) = Len(L) - 1
         /\ \A j \in 1..Len(L) - 1 : LinesSent(s, L)[j] = LineUnits(LineOf(s, L[j]))
<1>1. PICK n \in Nat : n = Len(L) - 1 /\ n + 1 = Len(L)
  <2>1. Len(L) \in Nat
    BY LenProperties
  <2>2. Len(L) - 1 \in Nat /\ (Len(L) - 1) + 1 = Len(L)
    BY <2>1
  <2> QED
    BY <2>2
<1>2. \A j \in 1..n : L[j] \in Places
  BY <1>1, ElementOfSeq
<1>3. \A j \in 1..n : LineUnits(LineOf(s, L[j])) \in Seq(HttpUnits)
  <2> TAKE j \in 1..n
  <2>1. PICK l : l = LineOf(s, L[j])
    OBVIOUS
  <2>2. l = EmptyLine \/ l \in HttpLines
    BY <1>1, <2>1, LineIs DEF IsLine
  <2> QED
    BY <2>1, <2>2, UnitsAre
<1>4. LinesSent(s, L) \in [1..n -> Seq(HttpUnits)]
  BY <1>1, <1>3 DEF LinesSent
<1>5. LinesSent(s, L) \in Seq(Seq(HttpUnits)) /\ Len(LinesSent(s, L)) = n
  BY <1>4, SeqDef, LenProperties
<1> QED
  BY <1>1, <1>5 DEF LinesSent

-----------------------------------------------------------------------------
(* The first break of a buffer that starts with a line. *)
LEMMA BreakOfText ==
  ASSUME NEW V, NEW a \in Seq(V), NEW l, Breaks(a) # {},
         \A k \in 1..Len(a) : k <= 3 => a[k] = <<Text(l), CR, LF>>[k]
  PROVE  /\ Len(a) >= 3 /\ a[1] = Text(l) /\ a[3] = LF
         /\ 2 \in Breaks(a) /\ \A j \in Breaks(a) : 2 <= j
<1>1. Len(a) \in Nat
  BY LenProperties
<1>2. PICK t, c, f : t = Text(l) /\ c = CR /\ f = LF
  OBVIOUS
<1>3. t # c /\ t # f /\ c # f
  BY <1>2, UnitsDiffer
<1>4. \A k \in 1..Len(a) : k <= 3 => a[k] = <<t, c, f>>[k]
  BY <1>2
<1>5. PICK j \in 1..Len(a) - 1 : a[j] = c /\ a[j + 1] = f
  BY <1>2 DEF Breaks
<1>6. Len(a) >= 2 /\ a[1] = t
  BY <1>1, <1>4, <1>5
<1>7. \A k \in Breaks(a) : k \in 1..Len(a) - 1 /\ a[k] = c
  BY <1>2 DEF Breaks
<1>8. \A k \in Breaks(a) : 2 <= k
  BY <1>1, <1>3, <1>6, <1>7
<1>9. Len(a) >= 3
  BY <1>1, <1>3, <1>5, <1>6
<1>10. a[2] = c /\ a[3] = f /\ 2 \in 1..Len(a) - 1
  BY <1>1, <1>4, <1>9
<1>11. 2 + 1 = 3
  OBVIOUS
<1> QED
  BY <1>2, <1>6, <1>8, <1>9, <1>10, <1>11 DEF Breaks

LEMMA BreakOfEmpty ==
  ASSUME NEW V, NEW a \in Seq(V), Breaks(a) # {}, \A k \in 1..Len(a) : k <= 2 => a[k] = <<CR, LF>>[k]
  PROVE  /\ Len(a) >= 2 /\ a[2] = LF
         /\ 1 \in Breaks(a) /\ \A j \in Breaks(a) : 1 <= j
<1>1. Len(a) \in Nat
  BY LenProperties
<1>2. PICK c, f : c = CR /\ f = LF
  OBVIOUS
<1>3. \A k \in 1..Len(a) : k <= 2 => a[k] = <<c, f>>[k]
  BY <1>2
<1>4. \A k \in Breaks(a) : k \in 1..Len(a) - 1
  BY DEF Breaks
<1>5. Len(a) >= 2
  BY <1>1, <1>4
<1>6. a[1] = c /\ a[2] = f /\ 1 \in 1..Len(a) - 1
  BY <1>1, <1>3, <1>5
<1>7. 1 + 1 = 2
  OBVIOUS
<1> QED
  BY <1>1, <1>2, <1>4, <1>5, <1>6, <1>7 DEF Breaks

LEMMA LeastBreak ==
  ASSUME NEW B \in SUBSET Nat, NEW n \in B, \A j \in B : n <= j
  PROVE  (CHOOSE m \in B : \A j \in B : m <= j) = n
<1>1. \E m \in B : \A j \in B : m <= j
  OBVIOUS
<1>2. PICK x : x = CHOOSE m \in B : \A j \in B : m <= j
  OBVIOUS
<1>3. x \in B /\ \A j \in B : x <= j
  BY <1>1, <1>2
<1>4. x <= n /\ n <= x /\ x \in Nat /\ n \in Nat
  BY <1>3
<1> QED
  BY <1>2, <1>4

(* What is left behind a line has the empty lines it had. *)
LEMMA EmptyLinesShift ==
  ASSUME NEW V, NEW a \in Seq(V), NEW n \in Nat, n >= 1, n <= Len(a), a[n] = LF
  PROVE  \A m \in EmptyLines(SubSeq(a, n + 1, Len(a))) : m + n \in EmptyLines(a) /\ m \in Nat /\ m >= 1
<1>1. PICK c \in Seq(V) : c = SubSeq(a, n + 1, Len(a)) /\ Len(c) = Len(a) - n /\ \A k \in 1..Len(a) - n : c[k] = a[n + k]
  <2>1. /\ SubSeq(a, n + 1, Len(a)) \in Seq(V) /\ Len(SubSeq(a, n + 1, Len(a))) = Len(a) - n
        /\ \A k \in 1..Len(a) - n : SubSeq(a, n + 1, Len(a))[k] = a[n + k]
    BY RestIs
  <2> QED
    BY <2>1
<1>2. PICK x \in Nat : x = Len(a) /\ n <= x
  BY LenProperties
<1> SUFFICES ASSUME NEW m \in EmptyLines(c) PROVE m + n \in EmptyLines(a) /\ m \in Nat /\ m >= 1
  BY <1>1
<1>3. m \in 1..(x - n) - 1 /\ c[m] = CR /\ c[m + 1] = LF /\ (m = 1 \/ c[m - 1].unit # "text")
  BY <1>1, <1>2 DEF EmptyLines, Breaks
<1>4. /\ m \in 1..x - n /\ m + 1 \in 1..x - n /\ m + n \in 1..x - 1 /\ (m + n) + 1 = n + (m + 1) /\ m + n = n + m
      /\ m # 1 => m - 1 \in 1..x - n /\ n + (m - 1) = (m + n) - 1
      /\ m = 1 => (m + n) - 1 = n
  BY <1>3
<1>5. a[m + n] = CR /\ a[(m + n) + 1] = LF
  BY <1>1, <1>2, <1>3, <1>4
<1>6. a[(m + n) - 1].unit # "text"
  BY <1>1, <1>2, <1>3, <1>4, UnitsDiffer
<1> QED
  BY <1>2, <1>3, <1>4, <1>5, <1>6 DEF EmptyLines, Breaks

-----------------------------------------------------------------------------
(* What the parser knows of the request r when it has read its first h     *)
(* headers.                                                                *)
Parsed(q, r, h) ==
  /\ q.path = r.line.path /\ q.version = r.line.version
  /\ DOMAIN q.headers = {r.headers[j].field : j \in 1..h}
  /\ \A f \in DOMAIN q.headers : \E j \in 1..h :
       /\ r.headers[j].field = f /\ q.headers[f] = r.headers[j].value
       /\ \A l \in 1..h : r.headers[l].field = f => l <= j

Replies == [status : {200, 400, 404}, close : BOOLEAN]

LEMMA ParsedHeader ==
  ASSUME NEW q, NEW r \in HttpRequests, Parsed(q, r, Len(r.headers)), NEW f
  PROVE  GetHeader(q, f) = LastValue(r, f)
<1>1. PICK n \in Nat : n = Len(r.headers) /\ DOMAIN r.headers = 1..n
  BY HeadersType
<1> DEFINE B == {j \in 1..n : r.headers[j].field = f}
<1>2. LastValue(r, f) = IF B = {} THEN "" ELSE r.headers[CHOOSE m \in B : \A j \in B : j <= m].value
  BY <1>1 DEF LastValue
<1>3. CASE f \notin DOMAIN q.headers
  <2>1. B = {}
    BY <1>1, <1>3 DEF Parsed
  <2> QED
    BY <1>2, <1>3, <2>1 DEF GetHeader
<1>4. CASE f \in DOMAIN q.headers
  <2>1. PICK j \in 1..n : /\ r.headers[j].field = f /\ q.headers[f] = r.headers[j].value
                          /\ \A l \in 1..n : r.headers[l].field = f => l <= j
    BY <1>1, <1>4 DEF Parsed
  <2>2. j \in B /\ \A l \in B : l <= j
    BY <2>1
  <2>3. PICK x : x = CHOOSE m \in B : \A l \in B : l <= m
    OBVIOUS
  <2>4. x \in B /\ \A l \in B : l <= x
    BY <2>2, <2>3
  <2>5. x = j
    <3>1. x \in 1..n /\ x <= j /\ j <= x
      BY <2>2, <2>4
    <3> QED
      BY <3>1
  <2> QED
    BY <1>2, <1>4, <2>1, <2>2, <2>3, <2>5 DEF GetHeader
<1> QED
  BY <1>3, <1>4

LEMMA ParsedAnswer ==
  ASSUME NEW q, NEW r \in HttpRequests, WellFormed(r), Parsed(q, r, Len(r.headers))
  PROVE  Response(q) = Expected(r) /\ Response(q) \in Replies /\ Response(q).close = WantsClose(q)
<1>1. GetHeader(q, "Connection") = LastValue(r, "Connection") /\ q.path = r.line.path /\ q.version = r.line.version
  BY ParsedHeader DEF Parsed
<1>2. InspectorOnRequest(q.path) \in {200, 404}
  BY DEF InspectorOnRequest
<1>3. WantsClose(q) \in BOOLEAN
  BY DEF WantsClose
<1>4. Response(q) \in Replies /\ Response(q).close = WantsClose(q)
  BY <1>2, <1>3 DEF Response, Replies
<1>5. WantsClose(q) = (\/ LastValue(r, "Connection") = "close"
                       \/ r.line.version = "1.0" /\ LastValue(r, "Connection") # "Keep-Alive")
  BY <1>1 DEF WantsClose
<1>6. Response(q) = Expected(r)
  BY <1>1, <1>5 DEF Response, Expected
<1> QED
  BY <1>4, <1>6

(* Another header is read. *)
WithHeader(H, e) == [f \in DOMAIN H \cup {e.field} |-> IF f = e.field THEN e.value ELSE H[f]]

LEMMA ParsedMore ==
  ASSUME NEW q, NEW r \in HttpRequests, NEW h \in Nat, h + 1 <= Len(r.headers), Parsed(q, r, h),
         NEW p, p.path = q.path, p.version = q.version,
         NEW e, e = r.headers[h + 1],
         p.headers = WithHeader(q.headers, e)
  PROVE  Parsed(p, r, h + 1)
<1>1. /\ h + 1 \in 1..h + 1 /\ \A j \in 1..h : j \in 1..h + 1 /\ j <= h + 1
      /\ \A j \in 1..h + 1 : j \in 1..h \/ j = h + 1
  OBVIOUS
<1>2. DOMAIN p.headers = DOMAIN q.headers \cup {e.field}
  BY DEF WithHeader
<1>3. DOMAIN p.headers = {r.headers[j].field : j \in 1..h + 1}
  <2>1. DOMAIN q.headers = {r.headers[j].field : j \in 1..h}
    BY DEF Parsed
  <2>2. {r.headers[j].field : j \in 1..h + 1} = {r.headers[j].field : j \in 1..h} \cup {e.field}
    BY <1>1
  <2> QED
    BY <1>2, <2>1, <2>2
<1>4. ASSUME NEW f \in DOMAIN p.headers
      PROVE  \E j \in 1..h + 1 : /\ r.headers[j].field = f /\ p.headers[f] = r.headers[j].value
                                 /\ \A l \in 1..h + 1 : r.headers[l].field = f => l <= j
  <2>1. CASE f = e.field
    <3>1. p.headers[f] = e.value
      BY <2>1 DEF WithHeader
    <3>2. \A l \in 1..h + 1 : l <= h + 1
      OBVIOUS
    <3> QED
      BY <1>1, <2>1, <3>1, <3>2
  <2>2. CASE f # e.field
    <3>1. f \in DOMAIN q.headers /\ p.headers[f] = q.headers[f]
      BY <1>2, <1>4, <2>2 DEF WithHeader
    <3>2. PICK j \in 1..h : /\ r.headers[j].field = f /\ q.headers[f] = r.headers[j].value
                            /\ \A l \in 1..h : r.headers[l].field = f => l <= j
      BY <3>1 DEF Parsed
    <3>3. \A l \in 1..h + 1 : r.headers[l].field = f => l \in 1..h
      BY <1>1, <2>2
    <3> QED
      BY <1>1, <3>1, <3>2, <3>3
  <2> QED
    BY <2>1, <2>2
<1> QED
  BY <1>3, <1>4 DEF Parsed

-----------------------------------------------------------------------------
InOrder(R, s) ==
  /\ Len(R) <= Len(s)
  /\ \A j \in DOMAIN R : R[j] = Expected(s[j])
  /\ \A j \in DOMAIN R : R[j].close => j = Len(R)

LEMMA ReplySent ==
  ASSUME NEW R \in Seq(Replies), NEW s, NEW e \in Replies, InOrder(R, s), \A j \in DOMAIN R : ~R[j].close,
         NEW n \in Nat, n = Len(R) + 1, n <= Len(s), e = Expected(s[n])
  PROVE  /\ Append(R, e) \in Seq(Replies) /\ InOrder(Append(R, e), s) /\ Len(Append(R, e)) = n
         /\ ~e.close => \A j \in DOMAIN Append(R, e) : ~Append(R, e)[j].close
<1>1. Len(R) \in Nat /\ DOMAIN R = 1..Len(R)
  BY LenProperties
<1>2. PICK T \in Seq(Replies) : /\ T = Append(R, e) /\ Len(T) = n /\ DOMAIN T = 1..n
                                /\ T[n] = e /\ \A j \in 1..Len(R) : T[j] = R[j]
  <2>1. /\ Append(R, e) \in Seq(Replies) /\ Len(Append(R, e)) = Len(R) + 1 /\ DOMAIN Append(R, e) = 1..Len(R) + 1
        /\ Append(R, e)[Len(R) + 1] = e /\ \A j \in 1..Len(R) : Append(R, e)[j] = R[j]
    BY AppendProperties, LenProperties
  <2> QED
    BY <2>1
<1>3. \A j \in 1..n : j \in DOMAIN R \/ j = n
  BY <1>1
<1>4. InOrder(T, s)
  <2>1. \A j \in DOMAIN T : T[j] = Expected(s[j])
    BY <1>1, <1>2, <1>3 DEF InOrder
  <2>2. \A j \in DOMAIN T : T[j].close => j = Len(T)
    BY <1>1, <1>2, <1>3
  <2> QED
    BY <1>2, <2>1, <2>2 DEF InOrder
<1>5. ~e.close => \A j \in DOMAIN T : ~T[j].close
  BY <1>1, <1>2, <1>3
<1> QED
  BY <1>2, <1>4, <1>5

LEMMA OrderStays ==
  ASSUME NEW R \in Seq(Replies), NEW s \in Seq(HttpRequests), NEW r \in HttpRequests, InOrder(R, s)
  PROVE  InOrder(R, Append(s, r))
<1>1. Len(R) \in Nat /\ Len(s) \in Nat /\ DOMAIN R = 1..Len(R) /\ Len(R) <= Len(s)
  BY LenProperties DEF InOrder
<1>2. Len(Append(s, r)) = Len(s) + 1 /\ \A j \in 1..Len(s) : Append(s, r)[j] = s[j]
  BY AppendProperties
<1>3. \A j \in DOMAIN R : j \in 1..Len(s)
  BY <1>1
<1>4. Len(R) <= Len(Append(s, r))
  BY <1>1, <1>2
<1>5. \A j \in DOMAIN R : R[j] = Expected(Append(s, r)[j])
  BY <1>2, <1>3 DEF InOrder
<1> QED
  BY <1>4, <1>5 DEF InOrder

-----------------------------------------------------------------------------
HttpTypeOK ==
  /\ script \in Seq(HttpRequests) /\ lines \in Seq(Places) /\ Len(lines) >= 1
  /\ unsent \in Seq(HttpUnits) /\ input \in Seq(HttpUnits)
  /\ request = [method |-> request.method, version |-> request.version, path |-> request.path,
                headers |-> request.headers]
  /\ handling \in BOOLEAN /\ conn \in {"up", "shutdown"} /\ replies \in Seq(Replies)

(* The peer sends the lines of a request in order, then the next request. *)
LinesInOrder(s, L) == /\ \A j \in 1..Len(L) - 1 : Place(s, L[j]) /\ L[j + 1] = Following(s, L[j])
                      /\ L[Len(L)][2] = 0 => L[Len(L)][1] = Len(s) + 1
                      /\ L[Len(L)][2] # 0 => L[Len(L)][1] = Len(s) /\ Place(s, L[Len(L)])

(* The parser has taken k lines and is before the line v. *)
ParserAt(k, v) ==
  /\ v[2] = 0 => /\ parse = "kExpectRequestLine"
                 /\ \/ request = NoRequest
                    \/ k + 1 < Len(lines) /\ conn = "shutdown" /\ ~WellFormed(script[v[1]])
  /\ v[2] # 0 => /\ parse = "kExpectHeaders" /\ WellFormed(script[v[1]])
                 /\ Parsed(request, script[v[1]], v[2] - 1)
RepliesAt(v) == conn = "up" => Len(replies) = v[1] - 1 /\ \A m \in DOMAIN replies : ~replies[m].close
ReadTo(k) == /\ Stream(input \o unsent, LinesSent(script, lines), k + 1)
             /\ ParserAt(k, lines[k + 1]) /\ RepliesAt(lines[k + 1])

(* Without a burst there is never more than one request to answer. *)
EndsOK == ~burst /\ conn = "up" => /\ ~handling => EmptyLines(input) = {}
                                   /\ \A m, n \in EmptyLines(input) : m = n

HttpInv == /\ HttpTypeOK /\ LinesInOrder(script, lines) /\ (\E k \in 0..Len(lines) - 1 : ReadTo(k))
           /\ EndsOK /\ RepliesInOrder /\ AbortsOnlyAfterBad

LEMMA LinesType ==
  ASSUME HttpTypeOK, LinesInOrder(script, lines)
  PROVE  /\ Len(lines) \in Nat /\ Len(script) \in Nat
         /\ LinesSent(script, lines) \in Seq(Seq(HttpUnits)) /\ Len(LinesSent(script, lines)) = Len(lines) - 1
         /\ \A j \in 1..Len(lines) - 1 : LinesSent(script, lines)[j] = LineUnits(LineOf(script, lines[j]))
         /\ \A j \in 1..Len(lines) : lines[j] \in Places /\ lines[j][1] \in Nat /\ lines[j][2] \in Nat
<1>1. Len(lines) \in Nat /\ Len(script) \in Nat /\ \A j \in 1..Len(lines) : lines[j] \in Places
  BY LenProperties, ElementOfSeq DEF HttpTypeOK
<1>2. PICK s \in Seq(HttpRequests), L \in Seq(Places) : s = script /\ L = lines
  BY DEF HttpTypeOK
<1>3. Len(L) >= 1 /\ \A j \in 1..Len(L) - 1 : Place(s, L[j])
  BY <1>2 DEF HttpTypeOK, LinesInOrder
<1>4. /\ LinesSent(s, L) \in Seq(Seq(HttpUnits)) /\ Len(LinesSent(s, L)) = Len(L) - 1
      /\ \A j \in 1..Len(L) - 1 : LinesSent(s, L)[j] = LineUnits(LineOf(s, L[j]))
  BY <1>3, SentType
<1> QED
  BY <1>1, <1>2, <1>4 DEF Places

LEMMA BreakFound == ASSUME FindCRLF > 0 PROVE Breaks(input) # {}
  BY DEF FindCRLF

(* A break in the buffer ends the line the parser is before. *)
LEMMA FrontLine ==
  ASSUME HttpInv, NEW k \in 0..Len(lines) - 1, ReadTo(k), Breaks(input) # {}, NEW l, l = LineOf(script, lines[k + 1])
  PROVE  /\ k + 1 \in 1..Len(lines) - 1 /\ Place(script, lines[k + 1]) /\ Line = l
         /\ LineUnits(l) \in Seq(HttpUnits) /\ Len(LineUnits(l)) = FindCRLF + 1 /\ FindCRLF + 1 <= Len(input)
         /\ FindCRLF \in {1, 2} /\ input[FindCRLF + 1] = LF
         /\ l = EmptyLine => 1 \in Breaks(input)
<1>1. HttpTypeOK /\ LinesInOrder(script, lines) /\ Len(lines) \in Nat /\ Len(lines) >= 1
  BY LinesType DEF HttpInv, HttpTypeOK
<1>2. PICK U \in Seq(Seq(HttpUnits)), n \in Nat :
        /\ U = LinesSent(script, lines) /\ n = Len(lines) - 1 /\ Len(U) = n
        /\ \A j \in 1..n : U[j] = LineUnits(LineOf(script, lines[j]))
  <2>1. Len(lines) - 1 \in Nat
    BY <1>1
  <2> QED
    BY <1>1, <2>1, LinesType
<1>3. PICK a \in Seq(HttpUnits), b \in Seq(HttpUnits), p \in 1..Len(U) + 1 : a = input /\ b = unsent /\ p = k + 1
  <2>1. k + 1 \in 1..n + 1
    BY <1>2
  <2> QED
    BY <1>1, <1>2, <2>1 DEF HttpTypeOK
<1>4. Stream(a \o b, U, p)
  BY <1>2, <1>3 DEF ReadTo
<1>5. Breaks(a) # {} /\ Breaks(a) \in SUBSET Nat
  <2>1. Len(a) \in Nat
    BY LenProperties
  <2>2. Breaks(a) \in SUBSET Nat
    BY <2>1 DEF Breaks
  <2> QED
    BY <1>3, <2>2
<1>6. a # <<>>
  <2>1. PICK j : j \in 1..Len(a) - 1
    BY <1>5 DEF Breaks
  <2>2. Len(a) # 0 /\ Len(a) \in Nat
    BY <2>1, LenProperties
  <2> QED
    BY <2>2, EmptySeq
<1>7. p \in 1..Len(U) /\ \A m \in 1..Len(a) : m <= Len(U[p]) => a[m] = U[p][m]
  BY <1>4, <1>6, StreamFront
<1>8. k + 1 \in 1..n /\ Place(script, lines[k + 1]) /\ U[p] = LineUnits(l)
  BY <1>1, <1>2, <1>3, <1>7 DEF LinesInOrder
<1>9. LineUnits(l) \in Seq(HttpUnits)
  BY <1>7, <1>8, ElementOfSeq
<1>10. FindCRLF = CHOOSE m \in Breaks(a) : \A j \in Breaks(a) : m <= j
  BY <1>3, <1>5 DEF FindCRLF
<1>11. CASE l = EmptyLine
  <2>1. LineUnits(l) = <<CR, LF>> /\ Len(<<CR, LF>>) = 2
    BY <1>11, UnitsAre
  <2>2. \A m \in 1..Len(a) : m <= 2 => a[m] = <<CR, LF>>[m]
    BY <1>7, <1>8, <2>1
  <2>3. Len(a) >= 2 /\ a[2] = LF /\ 1 \in Breaks(a) /\ \A j \in Breaks(a) : 1 <= j
    BY <1>5, <2>2, BreakOfEmpty
  <2>4. FindCRLF = 1
    BY <1>5, <1>10, <2>3, LeastBreak
  <2>5. Line = l
    BY <1>11, <2>4 DEF Line
  <2>6. 1 + 1 = 2
    OBVIOUS
  <2> QED
    BY <1>2, <1>3, <1>8, <1>9, <2>1, <2>3, <2>4, <2>5, <2>6
<1>12. CASE l # EmptyLine
  <2>1. LineUnits(l) = <<Text(l), CR, LF>> /\ Len(<<Text(l), CR, LF>>) = 3
    BY <1>12, UnitsAre
  <2>2. \A m \in 1..Len(a) : m <= 3 => a[m] = <<Text(l), CR, LF>>[m]
    BY <1>7, <1>8, <2>1
  <2>3. Len(a) >= 3 /\ a[1] = Text(l) /\ a[3] = LF /\ 2 \in Breaks(a) /\ \A j \in Breaks(a) : 2 <= j
    BY <1>5, <2>2, BreakOfText
  <2>4. FindCRLF = 2
    BY <1>5, <1>10, <2>3, LeastBreak
  <2>5. Line = l
    BY <1>3, <2>3, <2>4, UnitsDiffer DEF Line
  <2>6. 2 + 1 = 3
    OBVIOUS
  <2> QED
    BY <1>2, <1>3, <1>8, <1>9, <1>12, <2>1, <2>3, <2>4, <2>5, <2>6
<1> QED
  BY <1>11, <1>12

LEMMA LineTaken ==
  ASSUME HttpInv, NEW k \in 0..Len(lines) - 1, ReadTo(k), Breaks(input) # {}, RetrieveLine
  PROVE  /\ k + 1 \in 0..Len(lines) - 1 /\ input' \in Seq(HttpUnits)
         /\ Stream(input' \o unsent, LinesSent(script, lines), (k + 1) + 1)
         /\ \A m \in EmptyLines(input') : m + (FindCRLF + 1) \in EmptyLines(input) /\ m \in Nat /\ m >= 1
<1>1. HttpTypeOK /\ LinesInOrder(script, lines) /\ Len(lines) \in Nat /\ Len(lines) >= 1
  BY LinesType DEF HttpInv, HttpTypeOK
<1>2. PICK l : l = LineOf(script, lines[k + 1])
  OBVIOUS
<1>3. /\ k + 1 \in 1..Len(lines) - 1 /\ Len(LineUnits(l)) = FindCRLF + 1 /\ FindCRLF + 1 <= Len(input)
      /\ FindCRLF \in {1, 2} /\ input[FindCRLF + 1] = LF
  BY <1>2, FrontLine
<1>4. PICK U \in Seq(Seq(HttpUnits)) : /\ U = LinesSent(script, lines) /\ Len(U) = Len(lines) - 1
                                       /\ U[k + 1] = LineUnits(l)
  BY <1>1, <1>2, <1>3, LinesType
<1>5. PICK a \in Seq(HttpUnits), b \in Seq(HttpUnits), n \in Nat :
        a = input /\ b = unsent /\ n = FindCRLF + 1 /\ FindCRLF + 2 = n + 1 /\ n >= 1
  <2>1. input \in Seq(HttpUnits) /\ unsent \in Seq(HttpUnits)
    BY <1>1 DEF HttpTypeOK
  <2>2. FindCRLF + 1 \in Nat /\ FindCRLF + 2 = (FindCRLF + 1) + 1 /\ FindCRLF + 1 >= 1
    BY <1>3
  <2> QED
    BY <2>1, <2>2
<1>6. input' = SubSeq(a, n + 1, Len(a)) /\ n <= Len(a) /\ a[n] = LF
  BY <1>3, <1>5 DEF RetrieveLine
<1>7. PICK p \in 1..Len(U) : p = k + 1
  BY <1>3, <1>4
<1>8. Stream(a \o b, U, p) /\ n = Len(U[p])
  BY <1>3, <1>4, <1>5, <1>7 DEF ReadTo
<1>9. SubSeq(a, n + 1, Len(a)) \in Seq(HttpUnits) /\ Stream(SubSeq(a, n + 1, Len(a)) \o b, U, p + 1)
  BY <1>6, <1>8, StreamTakes
<1>10. \A m \in EmptyLines(SubSeq(a, n + 1, Len(a))) : m + n \in EmptyLines(a) /\ m \in Nat /\ m >= 1
  BY <1>5, <1>6, EmptyLinesShift
<1> QED
  BY <1>1, <1>3, <1>4, <1>5, <1>6, <1>7, <1>9, <1>10

-----------------------------------------------------------------------------
LEMMA HttpInitInv == HttpInit => HttpInv
<1> SUFFICES ASSUME HttpInit PROVE HttpInv
  OBVIOUS
<1>1. /\ script = <<>> /\ lines = <<<<1, 0>>>> /\ unsent = <<>> /\ input = <<>>
      /\ parse = "kExpectRequestLine" /\ request = NoRequest /\ handling = FALSE /\ conn = "up"
      /\ replies = <<>> /\ aborted = FALSE /\ burst = FALSE
  BY DEF HttpInit
<1>2. Len(lines) = 1 /\ lines[1] = <<1, 0>> /\ lines \in Seq(Places)
  BY <1>1 DEF Places
<1>3. HttpTypeOK
  <2>1. \A S : <<>> \in Seq(S)
    BY EmptySeq
  <2>2. request = [method |-> request.method, version |-> request.version, path |-> request.path,
                   headers |-> request.headers]
    BY <1>1 DEF NoRequest
  <2>3. Len(lines) >= 1
    BY <1>2
  <2> QED
    BY <1>1, <1>2, <2>1, <2>2, <2>3 DEF HttpTypeOK
<1>4. Len(script) = 0 /\ Len(replies) = 0 /\ Len(input) = 0 /\ DOMAIN replies = {}
  BY <1>1
<1>5. LinesInOrder(script, lines)
  <2>1. lines[1][1] = 1 /\ lines[1][2] = 0 /\ 1 = 0 + 1
    BY <1>2
  <2>2. \A j \in 1..Len(lines) - 1 : FALSE
    BY <1>2
  <2> QED
    BY <1>2, <1>4, <2>1, <2>2 DEF LinesInOrder
<1>6. ReadTo(0) /\ 0 \in 0..Len(lines) - 1
  <2>1. input \o unsent = <<>>
    BY <1>1, ConcatEmptySeq, EmptySeq
  <2>2. PICK U : U = LinesSent(script, lines) /\ Len(U) = 0
    BY <1>2, <1>3, <1>5, LinesType
  <2>3. Stream(<<>>, U, 1)
    <3> DEFINE st == [j \in 1..1 |-> 0]
    <3>1. st \in [1..0 + 1 -> Nat] /\ st[1] = 0 /\ st[0 + 1] = 0 /\ Len(<<>>) = 0
      OBVIOUS
    <3> HIDE DEF st
    <3>2. Laid(<<>>, U, 1, st)
      BY <2>2, <3>1 DEF Laid
    <3> QED
      BY <2>2, <3>1, <3>2 DEF Stream
  <2>4. 0 + 1 = 1 /\ lines[1][1] = 1 /\ lines[1][2] = 0 /\ 1 - 1 = 0
    BY <1>2
  <2>5. ParserAt(0, lines[1])
    BY <1>1, <2>4 DEF ParserAt
  <2>6. RepliesAt(lines[1])
    BY <1>4, <2>4 DEF RepliesAt
  <2> QED
    BY <1>2, <2>1, <2>2, <2>3, <2>4, <2>5, <2>6 DEF ReadTo
<1>7. EmptyLines(input) = {}
  BY <1>4 DEF EmptyLines, Breaks
<1>8. EndsOK /\ RepliesInOrder /\ AbortsOnlyAfterBad
  BY <1>1, <1>4, <1>7 DEF EndsOK, RepliesInOrder, AbortsOnlyAfterBad
<1> QED
  BY <1>3, <1>5, <1>6, <1>8 DEF HttpInv

(* A step that leaves the peer alone and takes no line. *)
LEMMA LineStays ==
  ASSUME HttpInv, NEW k \in 0..Len(lines) - 1, ReadTo(k),
         UNCHANGED <<script, lines>>, input' \o unsent' = input \o unsent,
         ParserAt(k, lines[k + 1])', RepliesAt(lines[k + 1])'
  PROVE  ReadTo(k)'
<1>1. Stream(input' \o unsent', LinesSent(script', lines'), k + 1)
  BY DEF ReadTo
<1> QED
  BY <1>1 DEF ReadTo

LEMMA ParseWaitsKeeps == ASSUME HttpInv, ParseWaits PROVE HttpInv'
<1>1. /\ FindCRLF = 0 /\ handling' = FALSE
      /\ UNCHANGED <<script, lines, unsent, input, parse, request, conn, replies, aborted, burst>>
  BY DEF ParseWaits
<1>2. HttpTypeOK'
  BY <1>1 DEF HttpInv, HttpTypeOK
<1>3. PICK k \in 0..Len(lines) - 1 : ReadTo(k)
  BY DEF HttpInv
<1>4. ReadTo(k)'
  <2>1. ParserAt(k, lines[k + 1])' /\ RepliesAt(lines[k + 1])'
    BY <1>1, <1>3 DEF ReadTo, ParserAt, RepliesAt
  <2> QED
    BY <1>1, <1>3, <2>1, LineStays
<1>5. EmptyLines(input) = {}
  <2>1. Breaks(input) = {}
    <3> SUFFICES ASSUME Breaks(input) # {} PROVE FALSE
      OBVIOUS
    <3>1. FindCRLF \in {1, 2}
      BY <1>3, FrontLine
    <3> QED
      BY <1>1, <3>1
  <2> QED
    BY <2>1 DEF EmptyLines
<1>6. EndsOK'
  BY <1>1, <1>5 DEF EndsOK
<1>7. RepliesInOrder' /\ AbortsOnlyAfterBad'
  BY <1>1 DEF HttpInv, RepliesInOrder, AbortsOnlyAfterBad
<1> QED
  BY <1>1, <1>2, <1>3, <1>4, <1>6, <1>7 DEF HttpInv


(* A line is taken: the parser is before the one that follows it. *)
LEMMA LineMoves ==
  ASSUME HttpInv, NEW k \in 0..Len(lines) - 1, ReadTo(k), Breaks(input) # {}, RetrieveLine,
         UNCHANGED <<script, lines, unsent>>,
         NEW v, v = Following(script, lines[k + 1]), ParserAt(k + 1, v)', RepliesAt(v)'
  PROVE  k + 1 \in 0..Len(lines') - 1 /\ ReadTo(k + 1)'
<1>1. k + 1 \in 0..Len(lines) - 1 /\ Stream(input' \o unsent, LinesSent(script, lines), (k + 1) + 1)
  BY LineTaken
<1>2. Stream(input' \o unsent', LinesSent(script', lines'), (k + 1) + 1)
  BY <1>1
<1>3. lines[(k + 1) + 1] = v
  <2>1. PICK l : l = LineOf(script, lines[k + 1])
    OBVIOUS
  <2>2. k + 1 \in 1..Len(lines) - 1
    BY <2>1, FrontLine
  <2> QED
    BY <2>2 DEF HttpInv, LinesInOrder
<1>4. ParserAt(k + 1, lines[(k + 1) + 1])' /\ RepliesAt(lines[(k + 1) + 1])'
  <2>1. lines'[(k + 1) + 1] = v
    BY <1>3
  <2> QED
    BY <2>1 DEF ParserAt, RepliesAt
<1> QED
  BY <1>1, <1>2, <1>4 DEF ReadTo

(* The line the parser is before. *)
LEMMA FrontIs ==
  ASSUME HttpInv, NEW k \in 0..Len(lines) - 1, ReadTo(k), Breaks(input) # {}, NEW v, v = lines[k + 1]
  PROVE  /\ v \in Places /\ v = <<v[1], v[2]>> /\ v[1] \in Nat /\ v[2] \in Nat
         /\ v[1] \in 1..Len(script) /\ script[v[1]] \in HttpRequests /\ Len(script) \in Nat
         /\ Len(script[v[1]].headers) \in Nat /\ v[2] <= Len(script[v[1]].headers) + 1
         /\ k + 1 < Len(lines)
         /\ v[2] = 0 => Line = script[v[1]].line /\ Line.kind = "request"
         /\ v[2] \in 1..Len(script[v[1]].headers) => Line = script[v[1]].headers[v[2]] /\ Line.kind = "header"
         /\ v[2] = Len(script[v[1]].headers) + 1 => Line = EmptyLine /\ Line.kind = "empty" /\ 1 \in Breaks(input)
<1>1. HttpTypeOK /\ LinesInOrder(script, lines) /\ Len(lines) \in Nat /\ Len(script) \in Nat
  BY LinesType DEF HttpInv
<1>2. PICK l : l = LineOf(script, v)
  OBVIOUS
<1>3. k + 1 \in 1..Len(lines) - 1 /\ Place(script, v) /\ Line = l /\ (l = EmptyLine => 1 \in Breaks(input))
  BY <1>2, FrontLine
<1>4. v \in Places
  BY <1>1, <1>3, LinesType
<1>5. PICK s \in Seq(HttpRequests) : s = script
  BY <1>1 DEF HttpTypeOK
<1>6. PICK r : r = s[v[1]]
  OBVIOUS
<1>7. /\ r \in HttpRequests /\ Len(r.headers) \in Nat
      /\ v[2] = 0 => l = r.line /\ l.kind = "request"
      /\ v[2] \in 1..Len(r.headers) => l = r.headers[v[2]] /\ l.kind = "header"
      /\ v[2] = Len(r.headers) + 1 <=> l = EmptyLine
  <2>1. Place(s, v) /\ l = LineOf(s, v)
    BY <1>2, <1>3, <1>5
  <2>2. IsLine(l, r, v[2])
    BY <1>6, <2>1, LineIs
  <2>3. r \in HttpRequests
    BY <1>6, <2>1, ElementOfSeq DEF Place
  <2>4. Len(r.headers) \in Nat
    BY <2>3, HeadersType
  <2> QED
    BY <2>2, <2>3, <2>4 DEF IsLine
<1>8. v[1] \in 1..Len(script) /\ v[2] \in 0..Len(r.headers) + 1 /\ EmptyLine.kind = "empty"
  BY <1>3, <1>5, <1>6 DEF Place, EmptyLine
<1>9. k + 1 < Len(lines) /\ v[2] <= Len(r.headers) + 1
  BY <1>1, <1>3, <1>7, <1>8
<1>10. v = <<v[1], v[2]>> /\ v[1] \in Nat /\ v[2] \in Nat
  BY <1>4 DEF Places
<1> QED
  BY <1>1, <1>3, <1>4, <1>5, <1>6, <1>7, <1>8, <1>9, <1>10

(* Nothing is answered: the empty lines stay. *)
LEMMA EndsStay ==
  ASSUME HttpInv, NEW k \in 0..Len(lines) - 1, ReadTo(k), Breaks(input) # {}, RetrieveLine,
         handling, UNCHANGED <<handling, conn, burst>>
  PROVE  EndsOK'
<1> SUFFICES ASSUME ~burst, conn = "up", NEW m \in EmptyLines(input'), NEW n \in EmptyLines(input') PROVE m = n
  BY DEF EndsOK, EmptyLines, Breaks, CR, LF
<1>1. /\ \A x \in EmptyLines(input') : x + (FindCRLF + 1) \in EmptyLines(input) /\ x \in Nat /\ x >= 1
  BY LineTaken
<1>2. PICK l : l = LineOf(script, lines[k + 1])
  OBVIOUS
<1>3. FindCRLF \in {1, 2}
  BY <1>2, FrontLine
<1>4. m + (FindCRLF + 1) = n + (FindCRLF + 1)
  BY <1>1 DEF HttpInv, EndsOK
<1> QED
  BY <1>1, <1>3, <1>4

LEMMA ParseRequestLineKeeps == ASSUME HttpInv, ParseRequestLine PROVE HttpInv'
<1>1. /\ handling /\ parse = "kExpectRequestLine" /\ FindCRLF > 0 /\ ProcessRequestLine(Line).ok
      /\ request' = ProcessRequestLine(Line).request /\ RetrieveLine /\ parse' = "kExpectHeaders"
      /\ UNCHANGED <<script, lines, unsent, handling, conn, replies, aborted, burst>>
  BY DEF ParseRequestLine
<1>2. Breaks(input) # {} /\ HttpTypeOK
  BY <1>1, BreakFound DEF HttpInv
<1>3. PICK k \in 0..Len(lines) - 1 : ReadTo(k)
  BY DEF HttpInv
<1>4. PICK v : v = lines[k + 1]
  OBVIOUS
<1>5. PICK r \in HttpRequests : /\ r = script[v[1]] /\ v \in Places /\ v[1] \in Nat /\ v[2] \in Nat
                                /\ Len(r.headers) \in Nat /\ v[2] = 0 => Line = r.line /\ r.line.kind = "request"
  BY <1>2, <1>3, <1>4, FrontIs
<1>6. v[2] = 0
  BY <1>1, <1>3, <1>4 DEF ReadTo, ParserAt
<1>7. Line = r.line /\ r.line.kind = "request"
  BY <1>5, <1>6
<1>8. /\ WellFormed(r)
      /\ ProcessRequestLine(Line).request = [request EXCEPT !.method = r.line.method, !.path = r.line.path,
                                                             !.version = r.line.version]
  BY <1>1, <1>7 DEF ProcessRequestLine, SetMethod, WellFormed, Methods
<1>9. request = NoRequest
  BY <1>3, <1>4, <1>5, <1>6, <1>8 DEF ReadTo, ParserAt
<1>10. /\ request' = [method |-> r.line.method, version |-> r.line.version, path |-> r.line.path,
                      headers |-> [f \in {} |-> ""]]
  BY <1>1, <1>8, <1>9 DEF NoRequest
<1>11. HttpTypeOK'
  <2>1. request' = [method |-> request'.method, version |-> request'.version, path |-> request'.path,
                    headers |-> request'.headers]
    BY <1>10
  <2>2. input' \in Seq(HttpUnits)
    BY <1>1, <1>2, <1>3, LineTaken
  <2> QED
    BY <1>1, <1>2, <2>1, <2>2 DEF HttpTypeOK
<1>12. Parsed(request', r, 0)
  <2>1. request'.path = r.line.path /\ request'.version = r.line.version /\ request'.headers = [f \in {} |-> ""]
    BY <1>10
  <2>2. DOMAIN request'.headers = {}
    BY <2>1
  <2>3. {r.headers[j].field : j \in 1..0} = {}
    OBVIOUS
  <2> QED
    BY <2>1, <2>2, <2>3 DEF Parsed
<1>13. PICK u : u = Following(script, v) /\ u[1] = v[1] /\ u[2] = 1
  <2>1. 0 <= Len(script[v[1]].headers) /\ 0 + 1 = 1
    BY <1>5
  <2>2. Following(script, v) = <<v[1], 1>>
    BY <1>6, <2>1 DEF Following
  <2>3. <<v[1], 1>>[1] = v[1] /\ <<v[1], 1>>[2] = 1
    OBVIOUS
  <2> QED
    BY <2>2, <2>3
<1>14. ParserAt(k + 1, u)' /\ RepliesAt(u)'
  <2>1. WellFormed(script'[u[1]]) /\ Parsed(request', script'[u[1]], u[2] - 1)
    <3>1. script'[u[1]] = r /\ u[2] - 1 = 0
      BY <1>1, <1>5, <1>13
    <3> QED
      BY <1>8, <1>12, <3>1
  <2>2. ParserAt(k + 1, u)'
    BY <1>1, <1>13, <2>1 DEF ParserAt, Parsed, WellFormed, Methods
  <2>3. RepliesAt(u)'
    BY <1>1, <1>3, <1>4, <1>13 DEF RepliesAt, ReadTo
  <2> QED
    BY <2>2, <2>3
<1>15. k + 1 \in 0..Len(lines') - 1 /\ ReadTo(k + 1)'
  BY <1>1, <1>2, <1>3, <1>4, <1>13, <1>14, LineMoves
<1>16. EndsOK'
  BY <1>1, <1>2, <1>3, EndsStay
<1>17. RepliesInOrder' /\ AbortsOnlyAfterBad' /\ LinesInOrder(script, lines)'
  BY <1>1 DEF HttpInv, RepliesInOrder, AbortsOnlyAfterBad
<1> QED
  BY <1>11, <1>15, <1>16, <1>17 DEF HttpInv


LEMMA ParseHeaderKeeps == ASSUME HttpInv, ParseHeader PROVE HttpInv'
<1>1. /\ handling /\ parse = "kExpectHeaders" /\ FindCRLF > 0 /\ Line.kind = "header"
      /\ request' = AddHeader(Line) /\ RetrieveLine
      /\ UNCHANGED <<script, lines, unsent, parse, handling, conn, replies, aborted, burst>>
  BY DEF ParseHeader
<1>2. Breaks(input) # {} /\ HttpTypeOK
  BY <1>1, BreakFound DEF HttpInv
<1>3. PICK k \in 0..Len(lines) - 1 : ReadTo(k)
  BY DEF HttpInv
<1>4. PICK v : v = lines[k + 1]
  OBVIOUS
<1>5. PICK r \in HttpRequests :
        /\ r = script[v[1]] /\ v \in Places /\ v[1] \in Nat /\ v[2] \in Nat
        /\ Len(r.headers) \in Nat /\ v[2] <= Len(r.headers) + 1
        /\ v[2] \in 1..Len(r.headers) => Line = r.headers[v[2]]
        /\ v[2] = Len(r.headers) + 1 => Line.kind = "empty"
  BY <1>2, <1>3, <1>4, FrontIs
<1>6. v[2] # 0 /\ WellFormed(r) /\ Parsed(request, r, v[2] - 1)
  BY <1>1, <1>3, <1>4, <1>5 DEF ReadTo, ParserAt
<1>7. v[2] \in 1..Len(r.headers)
  <2>1. v[2] # Len(r.headers) + 1
    BY <1>1, <1>5
  <2> QED
    BY <1>5, <1>6, <2>1
<1>8. PICK h \in Nat : h = v[2] - 1 /\ h + 1 = v[2]
  <2>1. v[2] - 1 \in Nat /\ (v[2] - 1) + 1 = v[2]
    BY <1>7
  <2> QED
    BY <2>1
<1>9. PICK e : e = r.headers[h + 1] /\ Line = e
  BY <1>5, <1>7, <1>8
<1>10. /\ request'.path = request.path /\ request'.version = request.version
       /\ request'.headers = WithHeader(request.headers, e)
       /\ request' = [method |-> request'.method, version |-> request'.version, path |-> request'.path,
                      headers |-> request'.headers]
  <2>1. request = [method |-> request.method, version |-> request.version, path |-> request.path,
                   headers |-> request.headers]
    BY <1>2 DEF HttpTypeOK
  <2>2. PICK H : H = WithHeader(request.headers, e)
    OBVIOUS
  <2>3. request' = [request EXCEPT !.headers = H]
    BY <1>1, <1>9, <2>2 DEF AddHeader, WithHeader
  <2>4. request' = [method |-> request.method, version |-> request.version, path |-> request.path, headers |-> H]
    BY <2>1, <2>3
  <2> QED
    BY <2>2, <2>4
<1>11. HttpTypeOK'
  <2>1. input' \in Seq(HttpUnits)
    BY <1>1, <1>2, <1>3, LineTaken
  <2> QED
    BY <1>1, <1>2, <1>10, <2>1 DEF HttpTypeOK
<1>12. Parsed(request', r, h + 1)
  <2>1. Parsed(request, r, h) /\ h + 1 <= Len(r.headers)
    BY <1>5, <1>6, <1>7, <1>8
  <2>2. PICK q, p : q = request /\ p = request'
    OBVIOUS
  <2>3. /\ p.path = q.path /\ p.version = q.version
        /\ p.headers = WithHeader(q.headers, e)
    BY <1>10, <2>2
  <2>4. Parsed(q, r, h)
    BY <2>1, <2>2
  <2>5. Parsed(p, r, h + 1)
    BY <1>9, <2>1, <2>3, <2>4, ParsedMore
  <2> QED
    BY <2>2, <2>5
<1>13. PICK u : u = Following(script, v) /\ u[1] = v[1] /\ u[2] = v[2] + 1
  <2>1. Following(script, v) = <<v[1], v[2] + 1>>
    BY <1>5, <1>7 DEF Following
  <2>2. <<v[1], v[2] + 1>>[1] = v[1] /\ <<v[1], v[2] + 1>>[2] = v[2] + 1
    OBVIOUS
  <2> QED
    BY <2>1, <2>2
<1>14. ParserAt(k + 1, u)' /\ RepliesAt(u)'
  <2>1. WellFormed(script'[u[1]]) /\ Parsed(request', script'[u[1]], u[2] - 1) /\ u[2] # 0
    <3>1. script'[u[1]] = r /\ u[2] - 1 = h + 1 /\ u[2] # 0
      BY <1>1, <1>5, <1>8, <1>13
    <3> QED
      BY <1>6, <1>12, <3>1
  <2>2. ParserAt(k + 1, u)'
    BY <1>1, <2>1 DEF ParserAt, Parsed, WellFormed, Methods
  <2>3. RepliesAt(u)'
    BY <1>1, <1>3, <1>4, <1>13 DEF RepliesAt, ReadTo
  <2> QED
    BY <2>2, <2>3
<1>15. k + 1 \in 0..Len(lines') - 1 /\ ReadTo(k + 1)'
  BY <1>1, <1>2, <1>3, <1>4, <1>13, <1>14, LineMoves
<1>16. EndsOK'
  BY <1>1, <1>2, <1>3, EndsStay
<1>17. RepliesInOrder' /\ AbortsOnlyAfterBad' /\ LinesInOrder(script, lines)'
  BY <1>1 DEF HttpInv, RepliesInOrder, AbortsOnlyAfterBad
<1> QED
  BY <1>11, <1>15, <1>16, <1>17 DEF HttpInv

(* A reply is sent, or the connection was shut down before. *)
LEMMA Answered ==
  ASSUME HttpInv, NEW v, RepliesAt(v), v[1] \in 1..Len(script), NEW e \in Replies, e = Expected(script[v[1]]),
         Send(e), UNCHANGED script
  PROVE  /\ replies' \in Seq(Replies) /\ RepliesInOrder'
         /\ conn = "up" /\ ~e.close => Len(replies') = v[1] /\ \A m \in DOMAIN replies' : ~replies'[m].close
<1>1. /\ replies \in Seq(Replies) /\ Len(script) \in Nat
      /\ replies' = IF conn = "up" THEN Append(replies, e) ELSE replies
  BY LenProperties DEF HttpInv, HttpTypeOK, Send
<1>2. InOrder(replies, script)
  BY DEF HttpInv, RepliesInOrder, InOrder
<1>3. CASE conn = "up"
  <2>1. PICK R \in Seq(Replies), n \in Nat : R = replies /\ n = v[1] /\ n <= Len(script)
    BY <1>1
  <2>2. Len(R) \in Nat
    BY LenProperties
  <2>3. n = Len(R) + 1 /\ \A m \in DOMAIN R : ~R[m].close
    BY <1>3, <2>1, <2>2 DEF RepliesAt
  <2>4. PICK s : s = script /\ InOrder(R, s) /\ n <= Len(s) /\ e = Expected(s[n])
    BY <1>2, <2>1
  <2>5. /\ Append(R, e) \in Seq(Replies) /\ InOrder(Append(R, e), s) /\ Len(Append(R, e)) = n
        /\ ~e.close => \A m \in DOMAIN Append(R, e) : ~Append(R, e)[m].close
    BY <2>3, <2>4, ReplySent
  <2>6. replies' = Append(R, e) /\ script' = s
    BY <1>1, <1>3, <2>1, <2>4
  <2>7. InOrder(replies', script')
    BY <2>5, <2>6
  <2>8. RepliesInOrder'
    BY <2>7 DEF InOrder, RepliesInOrder
  <2> QED
    BY <2>1, <2>5, <2>6, <2>8
<1>4. CASE conn # "up"
  BY <1>1, <1>4 DEF HttpInv, RepliesInOrder
<1> QED
  BY <1>3, <1>4

LEMMA ParseEndKeeps == ASSUME HttpInv, ParseEnd PROVE HttpInv'
<1>1. /\ handling /\ parse = "kExpectHeaders" /\ FindCRLF > 0 /\ Line.kind # "header" /\ RetrieveLine
      /\ Send(Response(request)) /\ conn' = (IF WantsClose(request) THEN "shutdown" ELSE conn)
      /\ request' = NoRequest /\ parse' = "kExpectRequestLine" /\ handling' = FALSE
      /\ UNCHANGED <<script, lines, unsent, aborted, burst>>
  BY DEF ParseEnd, ResetContext
<1>2. Breaks(input) # {} /\ HttpTypeOK
  BY <1>1, BreakFound DEF HttpInv
<1>3. PICK k \in 0..Len(lines) - 1 : ReadTo(k)
  BY DEF HttpInv
<1>4. PICK v : v = lines[k + 1]
  OBVIOUS
<1>5. PICK r \in HttpRequests :
        /\ r = script[v[1]] /\ v \in Places /\ v[1] \in Nat /\ v[2] \in Nat /\ v[1] \in 1..Len(script)
        /\ Len(r.headers) \in Nat /\ v[2] <= Len(r.headers) + 1
        /\ v[2] \in 1..Len(r.headers) => Line.kind = "header"
        /\ v[2] = Len(r.headers) + 1 => 1 \in Breaks(input)
  BY <1>2, <1>3, <1>4, FrontIs
<1>6. v[2] # 0 /\ WellFormed(r) /\ Parsed(request, r, v[2] - 1)
  BY <1>1, <1>3, <1>4, <1>5 DEF ReadTo, ParserAt
<1>7. v[2] = Len(r.headers) + 1 /\ v[2] - 1 = Len(r.headers)
  <2>1. v[2] \notin 1..Len(r.headers)
    BY <1>1, <1>5
  <2> QED
    BY <1>5, <1>6, <2>1
<1>8. PICK e \in Replies : e = Response(request) /\ e = Expected(r) /\ e.close = WantsClose(request)
  BY <1>6, <1>7, ParsedAnswer
<1>9. RepliesAt(v) /\ Send(e) /\ e = Expected(script[v[1]])
  BY <1>1, <1>3, <1>4, <1>5, <1>8 DEF ReadTo
<1>10. /\ replies' \in Seq(Replies) /\ RepliesInOrder'
       /\ conn = "up" /\ ~e.close => Len(replies') = v[1] /\ \A m \in DOMAIN replies' : ~replies'[m].close
  BY <1>1, <1>5, <1>9, Answered
<1>11. conn' = "up" => conn = "up" /\ ~e.close
  BY <1>1, <1>8
<1>12. HttpTypeOK'
  <2>1. input' \in Seq(HttpUnits)
    BY <1>1, <1>2, <1>3, LineTaken
  <2>2. request' = [method |-> request'.method, version |-> request'.version, path |-> request'.path,
                    headers |-> request'.headers]
    BY <1>1 DEF NoRequest
  <2>3. conn' \in {"up", "shutdown"}
    BY <1>1, <1>2 DEF HttpTypeOK
  <2> QED
    BY <1>1, <1>2, <1>10, <2>1, <2>2, <2>3 DEF HttpTypeOK
<1>13. PICK u : u = Following(script, v) /\ u[1] = v[1] + 1 /\ u[2] = 0
  <2>1. ~(v[2] <= Len(script[v[1]].headers))
    BY <1>5, <1>7
  <2>2. Following(script, v) = <<v[1] + 1, 0>>
    BY <2>1 DEF Following
  <2>3. <<v[1] + 1, 0>>[1] = v[1] + 1 /\ <<v[1] + 1, 0>>[2] = 0
    OBVIOUS
  <2> QED
    BY <2>2, <2>3
<1>14. ParserAt(k + 1, u)'
  BY <1>1, <1>13 DEF ParserAt, NoRequest
<1>15. RepliesAt(u)'
  <2>1. u[1] - 1 = v[1]
    BY <1>5, <1>13
  <2> QED
    BY <1>10, <1>11, <2>1 DEF RepliesAt
<1>16. k + 1 \in 0..Len(lines') - 1 /\ ReadTo(k + 1)'
  BY <1>1, <1>2, <1>3, <1>4, <1>13, <1>14, <1>15, LineMoves
<1>17. EndsOK'
  <2> SUFFICES ASSUME ~burst, conn = "up", NEW m \in EmptyLines(input') PROVE FALSE
    BY <1>1, <1>11 DEF EndsOK, EmptyLines, Breaks, CR, LF
  <2>1. m + (FindCRLF + 1) \in EmptyLines(input) /\ m \in Nat /\ m >= 1
    BY <1>1, <1>2, <1>3, LineTaken
  <2>2. PICK l : l = LineOf(script, lines[k + 1])
    OBVIOUS
  <2>3. FindCRLF \in {1, 2}
    BY <1>2, <1>3, <2>2, FrontLine
  <2>4. 1 \in EmptyLines(input)
    BY <1>5, <1>7 DEF EmptyLines
  <2>5. m + (FindCRLF + 1) = 1
    BY <2>1, <2>4 DEF HttpInv, EndsOK
  <2> QED
    BY <2>1, <2>3, <2>5
<1>18. AbortsOnlyAfterBad' /\ LinesInOrder(script, lines)'
  BY <1>1 DEF HttpInv, AbortsOnlyAfterBad
<1> QED
  BY <1>10, <1>12, <1>16, <1>17, <1>18 DEF HttpInv


LEMMA BadAnswer ==
  ASSUME NEW r, ~WellFormed(r) PROVE BadRequest \in Replies /\ BadRequest = Expected(r) /\ BadRequest.close = TRUE
  BY DEF BadRequest, Replies, Expected

LEMMA ParseBadLineKeeps == ASSUME HttpInv, ParseBadLine PROVE HttpInv'
<1>1. /\ parse = "kExpectRequestLine" /\ FindCRLF > 0 /\ ~ProcessRequestLine(Line).ok
      /\ request' = ProcessRequestLine(Line).request /\ Send(BadRequest) /\ conn' = "shutdown" /\ handling' = FALSE
      /\ UNCHANGED <<script, lines, unsent, input, parse, aborted, burst>>
  BY DEF ParseBadLine
<1>2. Breaks(input) # {} /\ HttpTypeOK
  BY <1>1, BreakFound DEF HttpInv
<1>3. PICK k \in 0..Len(lines) - 1 : ReadTo(k)
  BY DEF HttpInv
<1>4. PICK v : v = lines[k + 1]
  OBVIOUS
<1>5. PICK r \in HttpRequests : /\ r = script[v[1]] /\ v[1] \in 1..Len(script) /\ k + 1 < Len(lines)
                                /\ v[2] = 0 => Line = r.line /\ r.line.kind = "request"
  BY <1>2, <1>3, <1>4, FrontIs
<1>6. v[2] = 0
  BY <1>1, <1>3, <1>4 DEF ReadTo, ParserAt
<1>7. ~WellFormed(r)
  BY <1>1, <1>5, <1>6 DEF ProcessRequestLine, SetMethod, WellFormed, Methods
<1>8. BadRequest \in Replies /\ BadRequest = Expected(script[v[1]])
  BY <1>5, <1>7, BadAnswer
<1>9. RepliesAt(v)
  BY <1>3, <1>4 DEF ReadTo
<1>10. replies' \in Seq(Replies) /\ RepliesInOrder'
  BY <1>1, <1>5, <1>8, <1>9, Answered
<1>11. request' = [method |-> request'.method, version |-> request'.version, path |-> request'.path,
                   headers |-> request'.headers]
  <2>1. request = [method |-> request.method, version |-> request.version, path |-> request.path,
                   headers |-> request.headers]
    BY <1>2 DEF HttpTypeOK
  <2>2. PICK m, p, x : ProcessRequestLine(Line).request = [request EXCEPT !.method = m, !.path = p, !.version = x]
    BY DEF ProcessRequestLine
  <2>3. request' = [method |-> m, version |-> x, path |-> p, headers |-> request.headers]
    BY <1>1, <2>1, <2>2
  <2> QED
    BY <2>3
<1>12. HttpTypeOK'
  BY <1>1, <1>2, <1>10, <1>11 DEF HttpTypeOK
<1>13. ReadTo(k)'
  <2>1. k + 1 < Len(lines') /\ ~WellFormed(script'[v[1]])
    BY <1>1, <1>5, <1>7
  <2>2. ParserAt(k, lines[k + 1])'
    BY <1>1, <1>4, <1>6, <2>1 DEF ParserAt
  <2>3. RepliesAt(lines[k + 1])'
    BY <1>1 DEF RepliesAt
  <2> QED
    BY <1>1, <1>3, <2>2, <2>3, LineStays
<1>14. EndsOK' /\ AbortsOnlyAfterBad' /\ LinesInOrder(script, lines)'
  BY <1>1 DEF HttpInv, EndsOK, AbortsOnlyAfterBad
<1> QED
  BY <1>1, <1>10, <1>12, <1>13, <1>14 DEF HttpInv

LEMMA ParseAbortsKeeps == ASSUME HttpInv, ParseAborts PROVE HttpInv'
<1>1. /\ parse = "kExpectRequestLine" /\ FindCRLF > 0 /\ request.method # "kInvalid"
      /\ aborted' = TRUE /\ handling' = FALSE
      /\ UNCHANGED <<script, lines, unsent, input, parse, request, conn, replies, burst>>
  BY DEF ParseAborts
<1>2. Breaks(input) # {} /\ HttpTypeOK
  BY <1>1, BreakFound DEF HttpInv
<1>3. PICK k \in 0..Len(lines) - 1 : ReadTo(k)
  BY DEF HttpInv
<1>4. PICK v : v = lines[k + 1] /\ v[1] \in 1..Len(script)
  <2>1. PICK v : v = lines[k + 1]
    OBVIOUS
  <2>2. v[1] \in 1..Len(script)
    BY <1>2, <1>3, <2>1, FrontIs
  <2> QED
    BY <2>1, <2>2
<1>5. request # NoRequest
  BY <1>1 DEF NoRequest
<1>6. conn = "shutdown" /\ ~WellFormed(script[v[1]])
  BY <1>1, <1>3, <1>4, <1>5 DEF ReadTo, ParserAt
<1>7. v[1] \in DOMAIN script
  BY <1>2, <1>4, LenProperties DEF HttpTypeOK
<1>8. AbortsOnlyAfterBad'
  BY <1>1, <1>6, <1>7 DEF AbortsOnlyAfterBad
<1>9. HttpTypeOK'
  BY <1>1, <1>2 DEF HttpTypeOK
<1>10. ReadTo(k)'
  <2>1. ParserAt(k, lines[k + 1])' /\ RepliesAt(lines[k + 1])'
    BY <1>1, <1>3 DEF ReadTo, ParserAt, RepliesAt
  <2> QED
    BY <1>1, <1>3, <2>1, LineStays
<1>11. EndsOK' /\ RepliesInOrder' /\ LinesInOrder(script, lines)'
  BY <1>1, <1>6 DEF HttpInv, EndsOK, RepliesInOrder
<1> QED
  BY <1>1, <1>8, <1>9, <1>10, <1>11 DEF HttpInv

LEMMA ArriveKeeps == ASSUME HttpInv, Arrive PROVE HttpInv'
<1>1. PICK n \in 1..Len(unsent) :
        /\ ~handling /\ ~aborted
        /\ input' = input \o SubSeq(unsent, 1, n) /\ unsent' = SubSeq(unsent, n + 1, Len(unsent))
        /\ handling' = TRUE /\ burst' = (burst \/ RequestEnds(input') - RequestEnds(input) > 1)
        /\ UNCHANGED <<script, lines, parse, request, conn, replies, aborted>>
  BY DEF Arrive
<1>2. HttpTypeOK
  BY DEF HttpInv
<1>3. PICK a \in Seq(HttpUnits), b \in Seq(HttpUnits) : a = input /\ b = unsent
  BY <1>2 DEF HttpTypeOK
<1>4. /\ a \o SubSeq(b, 1, n) \in Seq(HttpUnits) /\ SubSeq(b, n + 1, Len(b)) \in Seq(HttpUnits)
      /\ (a \o SubSeq(b, 1, n)) \o SubSeq(b, n + 1, Len(b)) = a \o b
  <2>1. n \in 1..Len(b)
    BY <1>3
  <2> QED
    BY ZenonT(40), <2>1, StreamMoves
<1>5. input' \in Seq(HttpUnits) /\ unsent' \in Seq(HttpUnits) /\ input' \o unsent' = input \o unsent
  BY <1>1, <1>3, <1>4
<1>6. HttpTypeOK'
  BY <1>1, <1>2, <1>5 DEF HttpTypeOK
<1>7. PICK k \in 0..Len(lines) - 1 : ReadTo(k)
  BY DEF HttpInv
<1>8. ReadTo(k)'
  <2>1. ParserAt(k, lines[k + 1])' /\ RepliesAt(lines[k + 1])'
    BY <1>1, <1>7 DEF ReadTo, ParserAt, RepliesAt
  <2> QED
    BY <1>1, <1>5, <1>7, <2>1, LineStays
<1>9. EndsOK'
  <2> SUFFICES ASSUME ~burst', conn = "up", NEW x \in EmptyLines(input'), NEW y \in EmptyLines(input') PROVE x = y
    BY <1>1 DEF EndsOK, EmptyLines, Breaks, CR, LF
  <2>1. ~burst /\ ~(RequestEnds(input') - RequestEnds(input) > 1)
    BY <1>1
  <2>2. EmptyLines(input) = {}
    BY <1>1, <2>1 DEF HttpInv, EndsOK
  <2>3. RequestEnds(input) = 0
    BY <2>2, FS_EmptySet DEF RequestEnds
  <2>4. PICK B : B = EmptyLines(input')
    OBVIOUS
  <2>5. Len(input') \in Nat /\ B \subseteq 1..(Len(input') - 1)
    BY <1>5, <2>4, LenProperties DEF EmptyLines, Breaks
  <2>6. IsFiniteSet(B)
    <3>1. IsFiniteSet(1..(Len(input') - 1))
      BY <2>5, FS_Interval
    <3> QED
      BY <2>5, <3>1, FS_Subset
  <2>7. PICK c \in Nat : c = Cardinality(B) /\ c <= 1
    <3>1. Cardinality(B) \in Nat /\ RequestEnds(input') = Cardinality(B)
      BY <2>4, <2>6, FS_CardinalityType DEF RequestEnds
    <3>2. Cardinality(B) <= 1
      BY <2>1, <2>3, <3>1
    <3> QED
      BY <3>1, <3>2
  <2>8. c # 0
    BY <2>4, <2>6, <2>7, FS_EmptySet
  <2>9. Cardinality(B) = 1
    BY <2>7, <2>8
  <2>10. \E z : B = {z}
    BY <2>6, <2>9, FS_Singleton
  <2> QED
    BY <2>4, <2>10
<1>10. RepliesInOrder' /\ AbortsOnlyAfterBad' /\ LinesInOrder(script, lines)'
  BY <1>1 DEF HttpInv, RepliesInOrder, AbortsOnlyAfterBad
<1> QED
  BY <1>1, <1>6, <1>8, <1>9, <1>10 DEF HttpInv


-----------------------------------------------------------------------------
(* What is sent goes behind what is still to come. *)
LEMMA StreamSends ==
  ASSUME NEW V, NEW a \in Seq(V), NEW b \in Seq(V), NEW U \in Seq(Seq(V)), NEW p \in 1..Len(U) + 1,
         Stream(a \o b, U, p), NEW u \in Seq(V)
  PROVE  Stream(a \o (b \o u), Append(U, u), p)
<1>1. (a \o b) \o u = a \o (b \o u)
  BY ConcatAssociative
<1>2. PICK s \in Seq(V) : s = a \o b
  BY ConcatProperties
<1>3. Stream(s \o u, Append(U, u), p)
  BY <1>2, StreamGrows
<1> QED
  BY <1>1, <1>2, <1>3

(* t are the requests s, or these and one more. *)
Extends(s, t) == Len(s) <= Len(t) /\ \A j \in 1..Len(s) : t[j] = s[j]

OneMoreLine(s, t, L, f, u) == LinesSent(t, Append(L, f)) = Append(LinesSent(s, L), u)

LEMMA SentGrows ==
  ASSUME NEW s \in Seq(HttpRequests), NEW t \in Seq(HttpRequests), Extends(s, t),
         NEW L \in Seq(Places), Len(L) >= 1, \A j \in 1..Len(L) - 1 : Place(s, L[j]),
         Place(t, L[Len(L)]), NEW f \in Places, NEW u, u = LineUnits(LineOf(t, L[Len(L)]))
  PROVE  OneMoreLine(s, t, L, f, u)
<1>1. PICK n \in Nat : n + 1 = Len(L) /\ n = Len(L) - 1
  <2>1. Len(L) \in Nat
    BY LenProperties
  <2>2. Len(L) - 1 \in Nat /\ (Len(L) - 1) + 1 = Len(L)
    BY <2>1
  <2> QED
    BY <2>2
<1>2. PICK M : /\ M = Append(L, f) /\ Len(M) = (n + 1) + 1 /\ \A j \in 1..n + 1 : M[j] = L[j]
  <2>1. Len(Append(L, f)) = Len(L) + 1 /\ \A j \in 1..Len(L) : Append(L, f)[j] = L[j]
    BY AppendProperties
  <2> QED
    BY <1>1, <2>1
<1>3. u \in Seq(HttpUnits)
  <2>1. PICK w : w = L[Len(L)]
    OBVIOUS
  <2>2. LineOf(t, w) = EmptyLine \/ LineOf(t, w) \in HttpLines
    BY <2>1, LineIs DEF IsLine
  <2> QED
    BY <2>1, <2>2, UnitsAre
<1>4. PICK U \in Seq(Seq(HttpUnits)) : /\ U = LinesSent(s, L) /\ Len(U) = n
                                       /\ \A j \in 1..n : U[j] = LineUnits(LineOf(s, L[j]))
  BY <1>1, SentType
<1>5. PICK W \in Seq(Seq(HttpUnits)) : /\ W = Append(U, u) /\ Len(W) = n + 1 /\ W[n + 1] = u
                                       /\ \A j \in 1..n : W[j] = U[j]
  <2>1. /\ Append(U, u) \in Seq(Seq(HttpUnits)) /\ Len(Append(U, u)) = Len(U) + 1
        /\ Append(U, u)[Len(U) + 1] = u /\ \A j \in 1..Len(U) : Append(U, u)[j] = U[j]
    BY <1>3, AppendProperties
  <2> QED
    BY <1>4, <2>1
<1>6. LinesSent(t, M) = [j \in 1..n + 1 |-> LineUnits(LineOf(t, M[j]))]
  <2>1. Len(M) - 1 = n + 1
    BY <1>2
  <2> QED
    BY <2>1 DEF LinesSent
<1>7. \A j \in 1..n + 1 : LineUnits(LineOf(t, M[j])) = W[j]
  <2> TAKE j \in 1..n + 1
  <2>1. CASE j = n + 1
    BY <1>1, <1>2, <1>5, <2>1
  <2>2. CASE j \in 1..n
    <3>1. L[j][1] \in 1..Len(s)
      BY <1>1, <2>2 DEF Place
    <3>2. LineOf(t, L[j]) = LineOf(s, L[j])
      BY <3>1 DEF LineOf, Extends
    <3> QED
      BY <1>2, <1>4, <1>5, <2>2, <3>2
  <2> QED
    BY <2>1, <2>2
<1>8. W = [j \in 1..n + 1 |-> W[j]]
  BY <1>5, LenProperties
<1>9. LinesSent(t, M) = W
  BY <1>6, <1>7, <1>8
<1> QED
  BY <1>2, <1>4, <1>5, <1>9 DEF OneMoreLine

LEMMA FollowingIs ==
  ASSUME NEW t \in Seq(HttpRequests), NEW w, Place(t, w), w[1] = Len(t), NEW f, f = Following(t, w)
  PROVE  /\ f \in Places
         /\ f[2] = 0 => f[1] = Len(t) + 1
         /\ f[2] # 0 => f[1] = Len(t) /\ Place(t, f)
<1>1. PICK r \in HttpRequests, n \in Nat : r = t[w[1]] /\ n = Len(r.headers) /\ Len(t) \in Nat /\ Len(t) >= 1
  <2>1. t[w[1]] \in HttpRequests /\ Len(t[w[1]].headers) \in Nat /\ Len(t) \in Nat /\ Len(t) >= 1
    <3>1. w[1] \in 1..Len(t)
      BY DEF Place
    <3>2. t[w[1]] \in HttpRequests /\ Len(t) \in Nat
      BY <3>1, ElementOfSeq, LenProperties
    <3> QED
      BY <3>1, <3>2, HeadersType
  <2> QED
    BY <2>1
<1>2. w[2] \in 0..n + 1 /\ w[1] \in Nat
  BY <1>1 DEF Place
<1>3. CASE w[2] <= n
  <2>1. PICK x \in Nat, y \in Nat : x = w[1] /\ y = w[2] + 1 /\ y \in 1..n + 1 /\ y # 0
    <3>1. w[2] + 1 \in Nat /\ w[2] + 1 \in 1..n + 1 /\ w[2] + 1 # 0
      BY <1>2, <1>3
    <3> QED
      BY <1>2, <3>1
  <2>2. f = <<x, y>>
    BY <1>1, <1>3, <2>1 DEF Following
  <2>3. f \in Places /\ f[1] = x /\ f[2] = y
    BY <2>2 DEF Places
  <2>4. Place(t, f)
    BY <1>1, <2>1, <2>3 DEF Place
  <2> QED
    BY <2>1, <2>3, <2>4
<1>4. CASE ~(w[2] <= n)
  <2>1. PICK x \in Nat : x = w[1] + 1
    BY <1>2
  <2>2. f = <<x, 0>>
    BY <1>1, <1>4, <2>1 DEF Following
  <2>3. f \in Places /\ f[1] = x /\ f[2] = 0
    BY <2>2 DEF Places
  <2> QED
    BY <2>1, <2>3
<1> QED
  BY <1>3, <1>4

LEMMA OrderGrows ==
  ASSUME NEW s \in Seq(HttpRequests), NEW t \in Seq(HttpRequests), Extends(s, t),
         NEW L \in Seq(Places), Len(L) >= 1, LinesInOrder(s, L),
         NEW w, w = L[Len(L)], Place(t, w), w[1] = Len(t), NEW f, f = Following(t, w)
  PROVE  LinesInOrder(t, Append(L, f))
<1>1. PICK n \in Nat : n + 1 = Len(L) /\ n = Len(L) - 1
  <2>1. Len(L) \in Nat
    BY LenProperties
  <2>2. Len(L) - 1 \in Nat /\ (Len(L) - 1) + 1 = Len(L)
    BY <2>1
  <2> QED
    BY <2>2
<1>2. /\ f \in Places
      /\ f[2] = 0 => f[1] = Len(t) + 1
      /\ f[2] # 0 => f[1] = Len(t) /\ Place(t, f)
  BY FollowingIs
<1>3. PICK M : /\ M = Append(L, f) /\ Len(M) = (n + 1) + 1 /\ M[(n + 1) + 1] = f /\ \A j \in 1..n + 1 : M[j] = L[j]
  <2>1. /\ Len(Append(L, f)) = Len(L) + 1 /\ Append(L, f)[Len(L) + 1] = f
        /\ \A j \in 1..Len(L) : Append(L, f)[j] = L[j]
    BY <1>2, AppendProperties
  <2> QED
    BY <1>1, <2>1
<1>4. \A j \in 1..n : /\ j \in 1..n + 1 /\ j + 1 \in 1..n + 1
  OBVIOUS
<1>5. \A j \in 1..n : Place(t, L[j]) /\ L[j + 1] = Following(t, L[j])
  <2> TAKE j \in 1..n
  <2>1. Place(s, L[j]) /\ L[j + 1] = Following(s, L[j])
    BY <1>1 DEF LinesInOrder
  <2>2. L[j][1] \in 1..Len(s) /\ L[j][1] \in 1..Len(t) /\ t[L[j][1]] = s[L[j][1]]
    <3>1. Len(s) \in Nat /\ Len(t) \in Nat /\ Len(s) <= Len(t)
      BY LenProperties DEF Extends
    <3>2. L[j][1] \in 1..Len(s)
      BY <2>1 DEF Place
    <3> QED
      BY <3>1, <3>2 DEF Extends
  <2> QED
    BY <2>1, <2>2 DEF Place, Following
<1>6. \A j \in 1..n + 1 : Place(t, M[j]) /\ M[j + 1] = Following(t, M[j])
  <2> TAKE j \in 1..n + 1
  <2>1. CASE j = n + 1
    BY <1>1, <1>3, <2>1
  <2>2. CASE j \in 1..n
    BY <1>3, <1>4, <1>5, <2>2
  <2> QED
    BY <2>1, <2>2
<1>7. Len(M) - 1 = n + 1
  BY <1>3
<1> QED
  BY <1>2, <1>3, <1>6, <1>7 DEF LinesInOrder

(* The peer sends a line, of a new request or of the one it has begun. *)
LEMMA SendLineKeeps ==
  ASSUME HttpInv, ~aborted, NEW t \in Seq(HttpRequests), Extends(script, t), NEW w, w = Last(lines),
         Place(t, w), w[1] = Len(t), SendLine(t, w), InOrder(replies, t)
  PROVE  HttpInv'
<1>1. /\ script' = t /\ unsent' = unsent \o LineUnits(LineOf(t, w)) /\ lines' = Append(lines, Following(t, w))
      /\ UNCHANGED <<input, parse, request, handling, conn, replies, aborted, burst>>
      /\ HttpTypeOK /\ LinesInOrder(script, lines) /\ Len(lines) \in Nat /\ Len(lines) >= 1 /\ w = lines[Len(lines)]
  BY LenProperties DEF SendLine, HttpInv, HttpTypeOK, Last
<1>2. PICK s \in Seq(HttpRequests), L \in Seq(Places), a \in Seq(HttpUnits), b \in Seq(HttpUnits) :
        s = script /\ L = lines /\ a = input /\ b = unsent
  BY <1>1 DEF HttpTypeOK
<1>3. PICK f \in Places : f = Following(t, w)
  <2>1. Following(t, w) \in Places
    BY FollowingIs
  <2> QED
    BY <2>1
<1>4. PICK u \in Seq(HttpUnits) : u = LineUnits(LineOf(t, w))
  <2>1. LineOf(t, w) = EmptyLine \/ LineOf(t, w) \in HttpLines
    BY LineIs DEF IsLine
  <2>2. LineUnits(LineOf(t, w)) \in Seq(HttpUnits)
    BY <2>1, UnitsAre
  <2> QED
    BY <2>2
<1>5. PICK M \in Seq(Places) : /\ M = Append(L, f) /\ Len(M) = Len(L) + 1
                                   /\ \A j \in 1..Len(L) : M[j] = L[j]
  <2>1. /\ Append(L, f) \in Seq(Places) /\ Len(Append(L, f)) = Len(L) + 1
        /\ \A j \in 1..Len(L) : Append(L, f)[j] = L[j]
    BY AppendProperties
  <2> QED
    BY <2>1
<1>6. lines' = M /\ script' = t /\ unsent' = b \o u /\ b \o u \in Seq(HttpUnits) /\ a \o b \in Seq(HttpUnits)
  BY <1>1, <1>2, <1>3, <1>4, <1>5, ConcatProperties
<1>7. HttpTypeOK'
  <2>1. Len(lines') >= 1
    BY <1>1, <1>2, <1>5, <1>6
  <2> QED
    BY <1>1, <1>6, <2>1 DEF HttpTypeOK
<1>8. Extends(s, t) /\ Len(L) >= 1 /\ LinesInOrder(s, L) /\ w = L[Len(L)]
  BY <1>1, <1>2
<1>9. LinesInOrder(t, M)
  BY <1>3, <1>5, <1>8, OrderGrows
<1>10. LinesInOrder(script, lines)'
  BY <1>6, <1>9
<1>11. PICK U \in Seq(Seq(HttpUnits)) : U = LinesSent(s, L) /\ Len(U) = Len(L) - 1
  BY <1>1, <1>2, LinesType
<1>12. LinesSent(t, M) = Append(U, u)
  <2>1. \A j \in 1..Len(L) - 1 : Place(s, L[j])
    BY <1>8 DEF LinesInOrder
  <2>2. Place(t, L[Len(L)]) /\ u = LineUnits(LineOf(t, L[Len(L)]))
    BY <1>4, <1>8
  <2>3. OneMoreLine(s, t, L, f, u)
    BY <1>8, <2>1, <2>2, SentGrows
  <2> QED
    BY <1>5, <1>11, <2>3 DEF OneMoreLine
<1>13. PICK k \in 0..Len(lines) - 1 : ReadTo(k)
  BY DEF HttpInv
<1>14. k \in Nat /\ k + 1 \in 1..Len(L) /\ k \in 0..Len(M) - 1 /\ k + 1 \in 1..Len(U) + 1
  BY <1>1, <1>2, <1>5, <1>11, <1>13
<1>15. Stream(a \o (b \o u), LinesSent(t, M), k + 1)
  <2>1. PICK p \in 1..Len(U) + 1 : p = k + 1
    BY <1>14
  <2>2. Stream(a \o b, U, p)
    BY <1>2, <1>11, <1>13, <2>1 DEF ReadTo
  <2>3. Stream(a \o (b \o u), Append(U, u), p)
    BY <2>2, StreamSends
  <2> QED
    BY <1>12, <2>1, <2>3
<1>16. PICK v : v = lines[k + 1] /\ v = lines'[k + 1]
  BY <1>2, <1>5, <1>6, <1>14
<1>17. v[2] # 0 \/ k + 1 < Len(lines) => v[1] \in 1..Len(s)
  <2>1. CASE k + 1 < Len(lines)
    <3>1. k + 1 \in 1..Len(L) - 1
      BY <1>1, <1>2, <1>14, <2>1
    <3> QED
      BY <1>2, <1>8, <1>16, <3>1 DEF LinesInOrder, Place
  <2>2. CASE k + 1 = Len(lines)
    <3>1. v = L[Len(L)] /\ ~(k + 1 < Len(lines))
      BY <1>1, <1>2, <1>16, <2>2
    <3>2. v[2] # 0 => Place(s, v)
      BY <1>8, <3>1 DEF LinesInOrder
    <3> QED
      BY <3>1, <3>2 DEF Place
  <2> QED
    BY <1>1, <1>2, <1>14, <2>1, <2>2
<1>18. v[1] \in 1..Len(s) => script'[v[1]] = script[v[1]]
  BY <1>1, <1>2, <1>8 DEF Extends
<1>19. k + 1 < Len(lines) => k + 1 < Len(lines')
  BY <1>1, <1>2, <1>5, <1>6, <1>14
<1>20. ParserAt(k, v)' /\ RepliesAt(v)'
  <2>1. ParserAt(k, v) /\ RepliesAt(v)
    BY <1>13, <1>16 DEF ReadTo
  <2>2. ParserAt(k, v)'
    BY <1>1, <1>17, <1>18, <1>19, <2>1 DEF ParserAt
  <2> QED
    BY <1>1, <2>1, <2>2 DEF RepliesAt
<1>21. ReadTo(k)'
  <2>1. Stream(input' \o unsent', LinesSent(script', lines'), k + 1)
    BY <1>1, <1>2, <1>6, <1>15
  <2>2. ParserAt(k, lines[k + 1])' /\ RepliesAt(lines[k + 1])'
    BY <1>16, <1>20 DEF ParserAt, RepliesAt
  <2> QED
    BY <2>1, <2>2 DEF ReadTo
<1>22. k \in 0..Len(lines') - 1
  BY <1>6, <1>14
<1>23. EndsOK' /\ AbortsOnlyAfterBad'
  BY <1>1 DEF HttpInv, EndsOK, AbortsOnlyAfterBad
<1>24. RepliesInOrder'
  <2>1. InOrder(replies', script')
    BY <1>1
  <2> QED
    BY <2>1 DEF InOrder, RepliesInOrder
<1> QED
  BY <1>7, <1>10, <1>21, <1>22, <1>23, <1>24 DEF HttpInv

LEMMA LastLine ==
  ASSUME HttpInv
  PROVE  /\ script \in Seq(HttpRequests) /\ Len(script) \in Nat /\ replies \in Seq(Replies) /\ InOrder(replies, script)
         /\ Last(lines)[1] \in Nat /\ Last(lines)[2] \in Nat
         /\ Last(lines)[2] = 0 => Last(lines)[1] = Len(script) + 1
         /\ Last(lines)[2] # 0 => Last(lines)[1] = Len(script) /\ Place(script, Last(lines))
<1>1. HttpTypeOK /\ LinesInOrder(script, lines)
  BY DEF HttpInv
<1>2. /\ Len(script) \in Nat /\ Len(lines) \in Nat
      /\ \A j \in 1..Len(lines) : lines[j][1] \in Nat /\ lines[j][2] \in Nat
  BY <1>1, LinesType
<1>3. Len(lines) \in 1..Len(lines)
  BY <1>1, <1>2 DEF HttpTypeOK
<1>4. InOrder(replies, script)
  BY DEF HttpInv, RepliesInOrder, InOrder
<1> QED
  BY <1>1, <1>2, <1>3, <1>4 DEF HttpTypeOK, LinesInOrder, Last

LEMMA PeerBeginsKeeps == ASSUME HttpInv, PeerBegins PROVE HttpInv'
<1>1. PICK r \in HttpRequests : ~aborted /\ Last(lines)[2] = 0 /\ SendLine(Append(script, r), Last(lines))
  BY DEF PeerBegins
<1>2. /\ script \in Seq(HttpRequests) /\ Len(script) \in Nat /\ replies \in Seq(Replies) /\ InOrder(replies, script)
      /\ Last(lines)[1] = Len(script) + 1
  BY <1>1, LastLine
<1>3. PICK s \in Seq(HttpRequests), R \in Seq(Replies) : s = script /\ R = replies
  BY <1>2
<1>4. PICK t \in Seq(HttpRequests) : /\ t = Append(s, r) /\ Len(t) = Len(s) + 1 /\ t[Len(s) + 1] = r
                                     /\ \A j \in 1..Len(s) : t[j] = s[j]
  <2>1. /\ Append(s, r) \in Seq(HttpRequests) /\ Len(Append(s, r)) = Len(s) + 1 /\ Append(s, r)[Len(s) + 1] = r
        /\ \A j \in 1..Len(s) : Append(s, r)[j] = s[j]
    BY AppendProperties
  <2> QED
    BY <2>1
<1>5. Extends(script, t)
  BY <1>2, <1>3, <1>4 DEF Extends
<1>6. PICK w : w = Last(lines) /\ w[2] = 0 /\ w[1] = Len(t)
  BY <1>1, <1>2, <1>3, <1>4
<1>7. Place(t, w)
  <2>1. Len(t[w[1]].headers) \in Nat
    BY <1>3, <1>4, <1>6, HeadersType
  <2>2. Len(t) \in 1..Len(t)
    BY <1>2, <1>3, <1>4
  <2> QED
    BY <1>6, <2>1, <2>2 DEF Place
<1>8. InOrder(replies, t)
  BY <1>2, <1>3, <1>4, OrderStays
<1>9. SendLine(t, w)
  BY <1>1, <1>3, <1>4, <1>6
<1> QED
  BY <1>1, <1>5, <1>6, <1>7, <1>8, <1>9, SendLineKeeps

LEMMA PeerGoesOnKeeps == ASSUME HttpInv, PeerGoesOn PROVE HttpInv'
<1>1. ~aborted /\ Last(lines)[2] > 0 /\ SendLine(script, Last(lines))
  BY DEF PeerGoesOn
<1>2. /\ script \in Seq(HttpRequests) /\ Len(script) \in Nat /\ InOrder(replies, script)
      /\ Last(lines)[1] = Len(script) /\ Place(script, Last(lines))
  <2>1. Last(lines)[2] # 0
    BY <1>1
  <2> QED
    BY <2>1, LastLine
<1>3. PICK t \in Seq(HttpRequests) : t = script
  BY <1>2
<1>4. PICK w : w = Last(lines)
  OBVIOUS
<1>5. Extends(script, t)
  BY <1>2, <1>3 DEF Extends
<1>6. Place(t, w) /\ w[1] = Len(t) /\ SendLine(t, w) /\ InOrder(replies, t)
  BY <1>1, <1>2, <1>3, <1>4
<1> QED
  BY <1>1, <1>4, <1>5, <1>6, SendLineKeeps

LEMMA HttpStepKeeps == ASSUME HttpInv, [HttpNext]_httpVars PROVE HttpInv'
<1>1. CASE PeerBegins
  BY <1>1, PeerBeginsKeeps
<1>2. CASE PeerGoesOn
  BY <1>2, PeerGoesOnKeeps
<1>3. CASE Arrive
  BY <1>3, ArriveKeeps
<1>4. CASE ParseRequestLine
  BY <1>4, ParseRequestLineKeeps
<1>5. CASE ParseBadLine
  BY <1>5, ParseBadLineKeeps
<1>6. CASE ParseAborts
  BY <1>6, ParseAbortsKeeps
<1>7. CASE ParseHeader
  BY <1>7, ParseHeaderKeeps
<1>8. CASE ParseEnd
  BY <1>8, ParseEndKeeps
<1>9. CASE ParseWaits
  BY <1>9, ParseWaitsKeeps
<1>10. CASE UNCHANGED httpVars
  <2>1. UNCHANGED <<script, lines, unsent, input, parse, request, handling, conn, replies, aborted, burst>>
    BY <1>10 DEF httpVars
  <2>2. PICK k \in 0..Len(lines) - 1 : ReadTo(k)
    BY DEF HttpInv
  <2>3. ReadTo(k)'
    <3>1. ParserAt(k, lines[k + 1])' /\ RepliesAt(lines[k + 1])'
      BY <2>1, <2>2 DEF ReadTo, ParserAt, RepliesAt
    <3> QED
      BY <2>1, <2>2, <3>1, LineStays
  <2>4. HttpTypeOK' /\ LinesInOrder(script, lines)' /\ EndsOK' /\ RepliesInOrder' /\ AbortsOnlyAfterBad'
    BY <2>1 DEF HttpInv, HttpTypeOK, EndsOK, RepliesInOrder, AbortsOnlyAfterBad
  <2> QED
    BY <2>1, <2>2, <2>3, <2>4 DEF HttpInv
<1> QED
  BY <1>1, <1>2, <1>3, <1>4, <1>5, <1>6, <1>7, <1>8, <1>9, <1>10 DEF HttpNext

(* However the peer's bytes are cut, and however many requests it sends on *)
(* a connection, each gets the reply of its own text, in order, none after *)
(* the one that closes; one that is there is answered unless it came in a  *)
(* piece with the end of another; and the assertion of setMethod() fails   *)
(* only for a peer that goes on after a refused line.                      *)
THEOREM HttpIsSound == HttpSpec => []HttpSound
<1>1. HttpInit => HttpInv
  BY HttpInitInv
<1>2. HttpInv /\ [HttpNext]_httpVars => HttpInv'
  BY HttpStepKeeps
<1>3. HttpInv => HttpSound
  <2> SUFFICES ASSUME HttpInv PROVE RepliesInOrder /\ AnswersWhatIsThere /\ AbortsOnlyAfterBad
    BY DEF HttpSound
  <2>1. AnswersWhatIsThere
    <3> SUFFICES ASSUME ~handling, ~burst, conn = "up" PROVE RequestEnds(input) = 0
      BY DEF AnswersWhatIsThere
    <3>1. EmptyLines(input) = {}
      BY DEF HttpInv, EndsOK
    <3> QED
      BY <3>1, FS_EmptySet DEF RequestEnds
  <2> QED
    BY <2>1 DEF HttpInv
<1> QED
  BY <1>1, <1>2, <1>3, PTL DEF HttpSpec
=============================================================================
