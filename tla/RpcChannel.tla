----------------------------- MODULE RpcChannel -----------------------------
(***************************************************************************)
(* muduo::net::RpcChannel at the two ends of a connection, and RpcServer.  *)
(* Threads of the client call methods; the services of the server answer   *)
(* in any order.  ProtobufCodec shows that a connection carries messages   *)
(* whole and in order: here it is a queue each way.                        *)
(***************************************************************************)
EXTENDS Integers, Sequences, FiniteSets, SequencesExt

CONSTANTS RpcCallers,  \* threads of the client, one call each
          RpcErrors    \* how the server may fail to find what a request asks for

VARIABLES id,           \* id_ of the client's channel
          at,           \* where CallMethod() is
          myId,         \* its local id
          outstandings, \* outstandings_: id and caller
          requests,     \* on the way to the server
          serving,      \* calls a service has not answered
          responses,    \* on the way to the client
          isUp,         \* the connection
          answered,     \* the answers each caller's closure ran with
          orphans       \* calls whose doneCallback() ran on a destroyed channel

rpcVars == <<id, at, myId, outstandings, requests, serving, responses, isUp, answered, orphans>>

RpcInit ==
  /\ id = 0
  /\ at = [c \in RpcCallers |-> "idle"]
  /\ myId = [c \in RpcCallers |-> 0]
  /\ outstandings = {}
  /\ requests = <<>> /\ responses = <<>> /\ serving = {}
  /\ isUp = TRUE
  /\ answered = [c \in RpcCallers |-> <<>>]
  /\ orphans = {}

-----------------------------------------------------------------------------
(* CallMethod().  The body of a request stands for its caller. *)

GetId(c) == /\ id' = id + 1
            /\ myId' = [myId EXCEPT ![c] = id + 1]
            /\ UNCHANGED <<outstandings, requests>>
StoreCall(c) == /\ outstandings' = outstandings \cup {<<myId[c], c>>}
                /\ UNCHANGED <<id, myId, requests>>
SendRequest(c) == /\ requests' = IF isUp THEN Append(requests, [id |-> myId[c], body |-> c]) ELSE requests
                  /\ UNCHANGED <<id, myId, outstandings>>

GoesOn(c, from, to) == at[c] = from /\ at' = [at EXCEPT ![c] = to]

(* Mutant: the call is stored after its request was sent. *)
CallMethodSendsFirst(c) ==
  /\ \/ GoesOn(c, "idle", "numbered") /\ GetId(c)
     \/ GoesOn(c, "numbered", "stored") /\ SendRequest(c)
     \/ GoesOn(c, "stored", "sent") /\ StoreCall(c)
  /\ UNCHANGED <<serving, responses, isUp, answered, orphans>>

CallMethod(c) ==
  /\ \/ GoesOn(c, "idle", "numbered") /\ GetId(c)
     \/ GoesOn(c, "numbered", "stored") /\ StoreCall(c)
     \/ GoesOn(c, "stored", "sent") /\ SendRequest(c)
  /\ UNCHANGED <<serving, responses, isUp, answered, orphans>>

-----------------------------------------------------------------------------
(* Mutant: a request for a method that is not there gets no answer. *)
ServeRequestSilent ==
  /\ requests # <<>>
  /\ requests' = Tail(requests)
  /\ serving' \in {serving, serving \cup {Head(requests)}}
  /\ UNCHANGED <<id, at, myId, outstandings, responses, isUp, answered, orphans>>

(* onRpcMessage() of the server: a REQUEST finds its service and method,   *)
(* or is answered with an error.                                           *)
ServeRequest ==
  /\ requests # <<>>
  /\ requests' = Tail(requests)
  /\ \/ serving' = serving \cup {Head(requests)} /\ UNCHANGED responses
     \/ /\ \E e \in RpcErrors : responses' = Append(responses, [id |-> Head(requests).id, answer |-> e])
        /\ UNCHANGED serving
  /\ UNCHANGED <<id, at, myId, outstandings, isUp, answered, orphans>>

(* doneCallback(), when the service answers.  The closure holds the        *)
(* server's channel by a bare pointer, and the end of the connection       *)
(* destroys the channel: an answer that comes later uses freed memory.     *)
DoneCallback ==
  \E r \in serving :
    /\ serving' = serving \ {r}
    /\ responses' = IF isUp THEN Append(responses, [id |-> r.id, answer |-> r.body]) ELSE responses
    /\ orphans' = IF isUp THEN orphans ELSE orphans \cup {r}
    /\ UNCHANGED <<id, at, myId, outstandings, requests, isUp, answered>>

(* onRpcMessage() of the client: a RESPONSE runs the closure of its call,  *)
(* with an error too.                                                      *)
TakeResponse ==
  /\ responses # <<>>
  /\ responses' = Tail(responses)
  /\ LET calls == {o \in outstandings : o[1] = Head(responses).id}
     IN  /\ outstandings' = outstandings \ calls
         /\ answered' = [c \in RpcCallers |->
                           IF \E o \in calls : o[2] = c THEN Append(answered[c], Head(responses).answer)
                           ELSE answered[c]]
  /\ UNCHANGED <<id, at, myId, requests, serving, isUp, orphans>>

(* The connection ends; what was on the way is lost, and the calls stay    *)
(* in outstandings_.  onConnection() of the server drops its channel, the  *)
(* services keep the closures they have not run.                           *)
Disconnect ==
  /\ isUp
  /\ isUp' = FALSE
  /\ requests' = <<>> /\ responses' = <<>>
  /\ UNCHANGED <<id, at, myId, outstandings, serving, answered, orphans>>

RpcNext == \/ \E c \in RpcCallers : CallMethod(c)
           \/ ServeRequest \/ DoneCallback \/ TakeResponse \/ Disconnect

RpcSpec == RpcInit /\ [][RpcNext]_rpcVars

-----------------------------------------------------------------------------
(* A closure runs at most once, with the answer to its own request, though *)
(* answers come in any order.                                              *)
OwnAnswerOnce ==
  \A c \in RpcCallers : /\ Len(answered[c]) <= 1
                        /\ \A i \in DOMAIN answered[c] : answered[c][i] \in {c} \cup RpcErrors

(* No answer is thrown away because it came before the client had noted    *)
(* the call: while the connection is up, a call that was sent is answered, *)
(* or its request or response is on the way with the call noted.           *)
CallIsKnown ==
  isUp => \A c \in RpcCallers : at[c] = "sent" /\ answered[c] = <<>> =>
            /\ <<myId[c], c>> \in outstandings
            /\ \/ \E m \in ToSet(requests) \cup serving : m.id = myId[c]
               \/ \E m \in ToSet(responses) : m.id = myId[c]

(* A service answers through a destroyed channel only when the connection  *)
(* ended while it had the call, and then nothing is on its way any more.   *)
OrphansAreCutOff == orphans # {} => ~isUp /\ requests = <<>> /\ responses = <<>>

(* Concurrent calls, and answers that come in any order or before          *)
(* CallMethod() returns: each call gets its own answer, once, none is      *)
(* thrown away, and the server's channel outlives every answer but those   *)
(* to calls the end of the connection cut off.                             *)
RpcSound == OwnAnswerOnce /\ CallIsKnown /\ OrphansAreCutOff

(* A call that was sent is answered while the connection is up.  One that  *)
(* is cut off is never: its closure does not run.                          *)
CallsEnd == \A c \in RpcCallers : at[c] = "sent" ~> answered[c] # <<>> \/ ~isUp
=============================================================================
