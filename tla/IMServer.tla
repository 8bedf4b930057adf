------------------------------ MODULE IMServer ------------------------------
(***************************************************************************)
(* IMServer on its TcpServer: the connection callback OnConnection() makes *)
(* a ClientSession for a connection that is up and drops it in OnClose()   *)
(* for one that is down.  The constructor of ClientSession draws a uuid    *)
(* and writes it over the connection's name, const as it is, so that       *)
(* OnClose() finds the session by conn->name(); it also makes the message  *)
(* callback a call on the session through a raw `this`.                    *)
(*                                                                         *)
(* The callback is called inside newConnection() and inside handleClose()  *)
(* and connectDestroyed(): every step of the loop is joined with what the  *)
(* callback does in it.                                                    *)
(***************************************************************************)
EXTENDS TcpServer

(* random_generator(): no two connections draw the same uuid. *)
Uuid(c) == <<"uuid", c>>
Renames == \A c \in ConnIds : CallbackName(c) = Uuid(c)

VARIABLE sessions    \* keys of _mapClientSession

IMVars == <<vars, sessions>>

CameUp == {c \in ConnIds : conn[c].state = "none" /\ conn'[c].state = "kConnected"}
WentDown == {c \in ConnIds : Up(c) /\ conn'[c].state = "kDisconnected"}

(* Mutant: the session is looked for under the name TcpServer gave. *)
OnCloseByConnName(c) == {ConnName(c)}

(* OnClose(): erase what conn->name() finds, if anything. *)
OnClose(c) == {conn'[c].name}

OnConnection == sessions' = (sessions \cup {Uuid(c) : c \in CameUp})
                              \ UNION {OnClose(c) : c \in WentDown}

IMInit == Init /\ sessions = {}
IMNext == Next /\ OnConnection
IMSpec == IMInit /\ [][IMNext]_IMVars

-----------------------------------------------------------------------------
(* _mapClientSession holds a session for each connection that is up and    *)
(* for no other: sessions do not pile up, whatever order the closes come   *)
(* in, and a session id always finds a live connection.                    *)
SessionsAreUp == sessions = {Uuid(c) : c \in {d \in ConnIds : Up(d)}}

(* The message callback is bound to a raw pointer to the session: the      *)
(* session is still there whenever a callback of its connection runs.      *)
SessionOutlivesCallback == lpc = "callback" => Uuid(cur.id) \in sessions

(* _mapClientSession follows the connections although their names were     *)
(* overwritten, a callback always finds its session, and shutdown() still  *)
(* drains.                                                                 *)
SessionsSound == SessionsAreUp /\ SessionOutlivesCallback /\ ShutdownDrains

(* TcpServer.cc, removeConnectionInLoop(): assert(n == 1), the connection  *)
(* is in connections_ under its name when it is removed.                   *)
RemoveFindsConnection == failed # "removeConnectionInLoop"
=============================================================================
