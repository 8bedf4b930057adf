------------------------------ MODULE Startup ------------------------------
(***************************************************************************)
(* main() from its first call to the event loop: MysqlManager::init()      *)
(* connects, looks for the database and creates the tables that are        *)
(* missing, UserManager::init() loads the users and who their friends are, *)
(* IMServer::init() starts listening.  Each MySQL call may fail, the       *)
(* process may be killed between any two of them, and it may then be       *)
(* started again on what the earlier run left behind.                      *)
(***************************************************************************)
EXTENDS Integers, Sequences, FiniteSets

CONSTANTS Databases,  \* the names that "show databases" lists, in order
          DbName,     \* the database of the server
          Users,      \* user ids that may be in the table `user`
          MaxRuns     \* bound: times the process is started

ASSUME StartupAssumption == MaxRuns \in Nat /\ \E i \in DOMAIN Databases : Databases[i] = DbName

(* _mTables is a std::map: the tables come in the order of their names. *)
TableOrder == <<"chatmsg", "user", "user_relationship">>
Tables == {TableOrder[i] : i \in 1..3}

VARIABLES
  pc,        \* the call that is next, or "off"
  exitCode,  \* of the last process that ended; 0 before
  todo,      \* the tables that MysqlManager::init() has yet to look at
  toRelate,  \* the cached users whose friends are yet to be loaded
  friends,   \* _friends of the cached users
  runs,      \* processes started
  failed,    \* history: a MySQL call of this process failed
  dbExists, tables, users, relations    \* the MySQL server's state

vars == <<pc, exitCode, todo, toRelate, friends, runs, failed,
          dbExists, tables, users, relations>>
server == <<dbExists, tables, users, relations>>
NoFriends == [u \in Users |-> {}]

(* Any state of the MySQL server: no database, a database with some of the *)
(* tables, with or without rows.                                           *)
Init == /\ pc = "off"
        /\ exitCode = 0
        /\ todo = <<>>
        /\ toRelate = {}
        /\ friends = NoFriends
        /\ runs = 0
        /\ failed = FALSE
        /\ dbExists \in BOOLEAN
        /\ tables \in SUBSET Tables
        /\ tables # {} => dbExists
        /\ users \in SUBSET Users
        /\ users # {} => "user" \in tables
        /\ relations \in SUBSET (users \X users)
        /\ relations # {} => "user_relationship" \in tables

-----------------------------------------------------------------------------
Exit(code) == /\ pc' = "off"
              /\ exitCode' = code
              /\ todo' = <<>>
              /\ toRelate' = {}
              /\ friends' = NoFriends

(* A call of MysqlTool: query() and execute() connect when there is no     *)
(* handle, and when the server is gone connect and try once more; in the   *)
(* end the call works or it does not.                                      *)
Call(ok) == failed' = (failed \/ ~ok)

Launch == /\ pc = "off"
          /\ runs < MaxRuns
          /\ runs' = runs + 1
          /\ pc' = "connect"
          /\ todo' = TableOrder
          /\ failed' = FALSE
          /\ UNCHANGED <<exitCode, toRelate, friends, server>>

(* connect() names the database, and MySQL refuses one it does not have.   *)
Connect == /\ pc = "connect"
           /\ \E ok \in BOOLEAN :
                /\ ok => dbExists
                /\ Call(ok)
                /\ \/ ok /\ pc' = "checkDatabase" /\ UNCHANGED <<exitCode, todo, toRelate, friends>>
                   \/ ~ok /\ Exit(-2)
           /\ UNCHANGED <<runs, server>>

(* Mutant: the row that was fetched before the first nextRow() is lost. *)
ListedFromSecond == \E i \in DOMAIN Databases : i > 1 /\ Databases[i] = DbName

Listed == \E i \in DOMAIN Databases : Databases[i] = DbName

CheckDatabase == /\ pc = "checkDatabase"
                 /\ \E ok \in BOOLEAN :
                      /\ Call(ok)
                      /\ pc' = IF ok /\ Listed THEN "checkTable" ELSE "createDataBase"
                 /\ UNCHANGED <<exitCode, todo, toRelate, friends, runs, server>>

(* The process is connected to the database: creating it fails, affectRow  *)
(* stays 0 and init() returns false.                                       *)
CreateDataBase == /\ pc = "createDataBase"
                  /\ Exit(-2)
                  /\ UNCHANGED <<runs, failed, server>>

(* "desc" of a table that is not there, and any other error, is no result. *)
CheckTable == /\ pc = "checkTable"
              /\ todo # <<>>
              /\ \E ok \in BOOLEAN :
                   /\ Call(ok)
                   /\ IF ok /\ Head(todo) \in tables
                      THEN todo' = Tail(todo) /\ UNCHANGED pc
                      ELSE pc' = "createTable" /\ UNCHANGED todo
              /\ UNCHANGED <<exitCode, toRelate, friends, runs, server>>

(* Mutant: the table is looked at again instead of the next one. *)
CreateTableAgain ==
  /\ pc = "createTable"
  /\ \E ok \in BOOLEAN :
       /\ Call(ok)
       /\ \/ tables' = tables \cup {Head(todo)}
          \/ ~ok /\ UNCHANGED tables
       /\ pc' = "checkTable"
  /\ UNCHANGED <<exitCode, todo, toRelate, friends, runs, dbExists, users, relations>>

(* "create table if not exists": when the connection is lost the table may *)
(* have been created although the call fails.                              *)
CreateTable ==
  /\ pc = "createTable"
  /\ \E ok \in BOOLEAN :
       /\ Call(ok)
       /\ \/ tables' = tables \cup {Head(todo)}
          \/ ~ok /\ UNCHANGED tables
       /\ \/ /\ ok
             /\ pc' = "checkTable"
             /\ todo' = Tail(todo)
             /\ UNCHANGED <<exitCode, toRelate, friends>>
          \/ ~ok /\ Exit(-2)
  /\ UNCHANGED <<runs, dbExists, users, relations>>

TablesDone == /\ pc = "checkTable"
              /\ todo = <<>>
              /\ pc' = "loadUsers"
              /\ UNCHANGED <<exitCode, todo, toRelate, friends, runs, failed, server>>

(* query() returns no result for a SELECT of no rows as well. *)
LoadUsers == /\ pc = "loadUsers"
             /\ \E ok \in BOOLEAN :
                  /\ Call(ok)
                  /\ \/ /\ ok /\ users # {}
                        /\ pc' = "loadRelation"
                        /\ toRelate' = users
                        /\ UNCHANGED <<exitCode, todo, friends>>
                     \/ (~ok \/ users = {}) /\ Exit(-3)
             /\ UNCHANGED <<runs, server>>

FriendOf(u, row) == IF row[1] = u THEN row[2] ELSE row[1]

(* loadRelation() of one user; init() only logs that it failed. *)
LoadRelation(u) ==
  /\ pc = "loadRelation"
  /\ u \in toRelate /\ \A v \in toRelate : v <= u
  /\ toRelate' = toRelate \ {u}
  /\ \E ok \in BOOLEAN :
       /\ Call(ok)
       /\ friends' = IF ok THEN [friends EXCEPT ![u] =
                                  {FriendOf(u, row) : row \in {r \in relations : u \in {r[1], r[2]}}}]
                     ELSE friends
  /\ UNCHANGED <<pc, exitCode, todo, runs, server>>

RelationsDone == /\ pc = "loadRelation"
                 /\ toRelate = {}
                 /\ pc' = "serverInit"
                 /\ UNCHANGED <<exitCode, todo, toRelate, friends, runs, failed, server>>

(* IMServer::init() always returns true; an address in use aborts.         *)
ServerInit == /\ pc = "serverInit"
              /\ \/ pc' = "loop" /\ UNCHANGED <<exitCode, todo, toRelate, friends>>
                 \/ Exit(1)
              /\ UNCHANGED <<runs, failed, server>>

(* signal_exit(), or the machine. *)
Kill == /\ pc # "off"
        /\ Exit(1)
        /\ UNCHANGED <<runs, failed, server>>

Step == \/ Connect \/ CheckDatabase \/ CreateDataBase
        \/ CheckTable \/ CreateTable \/ TablesDone
        \/ LoadUsers \/ (\E u \in Users : LoadRelation(u)) \/ RelationsDone
        \/ ServerInit

Next == Launch \/ Step \/ Kill

Spec == Init /\ [][Next]_vars
LiveSpec == Spec /\ WF_vars(Step)

-----------------------------------------------------------------------------
(* The server only takes clients when every table of MysqlManager exists   *)
(* and there is a user, whatever earlier runs left half done.              *)
ServesOnlyComplete == pc = "loop" => tables = Tables /\ users # {}

(* A process whose MySQL calls all worked gives up only on a table without *)
(* users: what a killed or failed run left behind never stops a later one. *)
ExitMeansFailure == exitCode \in {-2, -3} /\ pc = "off" /\ ~failed => users = {}

(* When no call failed, friendship is mutual between the loaded users,     *)
(* although each of the two loads it by a query of his own.                *)
FriendsMutual == pc = "loop" /\ ~failed =>
  \A u, v \in users : v \in friends[u] <=> u \in friends[v]

(* Whatever kills and failures earlier starts met, the server takes        *)
(* clients only on a complete database, gives up only after a failure or   *)
(* without users, and has loaded friendships that are mutual.              *)
StartSound == ServesOnlyComplete /\ ExitMeansFailure /\ FriendsMutual

(* Starting ends, in the event loop or with an exit code.                  *)
StartEnds == pc = "connect" ~> pc \in {"loop", "off"}

(* UserManager.cpp: init() reports "load users failed", and main() gives   *)
(* up with -3, when loading the users has failed.                          *)
LoadFailureIsReal == exitCode = -3 /\ pc = "off" => failed
=============================================================================
