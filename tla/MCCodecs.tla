------------------------------ MODULE MCCodecs ------------------------------
(***************************************************************************)
(* What speaks a protocol on a connection, for TLC: HTTP, protobuf frames, *)
(* RPC, and the chat protocol's packets as a session reads and writes      *)
(* them.  `proto` says which of them a behaviour is about.                 *)
(***************************************************************************)
EXTENDS HttpServer, ProtobufCodec, RpcChannel, ClientSession, BinaryWriter

VARIABLE proto

protoVars == <<proto, httpVars, codecVars, rpcVars, sessionVars, writerVars>>

ReqLine(m, w, p, v) == [kind |-> "request", method |-> m, words |-> w, path |-> p, version |-> v]
Header(f, v) == [kind |-> "header", field |-> f, value |-> v]

MCHttpRequests == {
  [line |-> ReqLine("GET", 3, <<"proc", "", "status">>, "1.1"), headers |-> <<Header("Host", "h")>>],
  [line |-> ReqLine("GET", 3, <<>>, "1.0"),
   headers |-> <<Header("Connection", "close"), Header("Connection", "Keep-Alive")>>],
  [line |-> ReqLine("PUT", 3, <<"proc">>, "1.0"), headers |-> <<>>],
  [line |-> ReqLine("HEAD", 3, <<"favicon.ico">>, "1.1"), headers |-> <<Header("Connection", "close")>>],
  [line |-> ReqLine("GET", 3, <<"proc">>, "2.0"), headers |-> <<>>],
  [line |-> ReqLine("GET", 2, <<"proc">>, "1.1"), headers |-> <<>>],
  [line |-> ReqLine("TRACE", 3, <<"proc">>, "1.1"), headers |-> <<>>]}
MCCommands == {<<"proc", "status">>}
MCPayloads == {<<>>, <<"a">>, <<"a", "garbled">>}

Init == /\ proto \in {"http", "frames", "rpc", "session", "answer"}
        /\ HttpInit /\ CodecInit /\ RpcInit /\ SessionInit /\ WriterInit

OnlyHttp == /\ proto = "http"
            /\ UNCHANGED <<proto, codecVars, rpcVars, sessionVars, writerVars>>
OnlyFrames == /\ proto = "frames"
              /\ UNCHANGED <<proto, httpVars, rpcVars, sessionVars, writerVars>>
OnlyRpc == /\ proto = "rpc"
           /\ UNCHANGED <<proto, httpVars, codecVars, sessionVars, writerVars>>
OnlySession == /\ proto = "session"
               /\ UNCHANGED <<proto, httpVars, codecVars, rpcVars, writerVars>>
OnlyAnswer == /\ proto = "answer"
              /\ UNCHANGED <<proto, httpVars, codecVars, rpcVars, sessionVars>>

Next == \/ OnlyHttp /\ HttpNext
        \/ OnlyFrames /\ CodecNext
        \/ OnlyRpc /\ RpcNext
        \/ OnlySession /\ SessionNext
        \/ OnlyAnswer /\ WriterNext

(* Loop threads read what arrives, TCP delivers what was sent, services    *)
(* answer, and a call that was begun goes on.                              *)
CodecsSpec == /\ Init /\ [][Next]_protoVars
              /\ WF_protoVars(OnlyRpc /\ ServeRequest)
              /\ WF_protoVars(OnlyRpc /\ DoneCallback)
              /\ WF_protoVars(OnlyRpc /\ TakeResponse)
              /\ WF_protoVars(OnlySession /\ \E n \in 1..Len(wire) : BytesArrive(n))
              /\ WF_protoVars(OnlySession /\ (TakePacket \/ ReturnFromOnRead))
              /\ WF_protoVars(OnlyAnswer /\ WriterRuns)

-----------------------------------------------------------------------------
(* A call that was sent is answered while its connection is up, a packet   *)
(* that was sent is processed, without anything behind it, and an answer   *)
(* that was begun is sent, or uses up the memory.                          *)
CodecsLive == CallsEnd /\ AllProcessed /\ AnswersEnd
=============================================================================
