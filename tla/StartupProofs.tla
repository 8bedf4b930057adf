--------------------------- MODULE StartupProofs ---------------------------
(***************************************************************************)
(* Proofs about Startup, for any list of databases, any users and          *)
(* relations, and any number of starts, kills and failed calls.            *)
(***************************************************************************)
EXTENDS Startup, SequenceTheorems, TLAPS

(* The calls of main() between two of which the process can be killed.     *)
Points == {"off", "connect", "checkDatabase", "createDataBase", "checkTable",
           "createTable", "loadUsers", "loadRelation", "serverInit", "loop"}

(* The points where every table has been looked at or created.             *)
AfterTables == {"loadUsers", "loadRelation", "serverInit", "loop"}

StartTypeOK == /\ pc \in Points
               /\ exitCode \in Int
               /\ todo \in Seq(Tables)
               /\ toRelate \subseteq Users
               /\ friends \in [Users -> SUBSET Users]
               /\ runs \in Nat
               /\ failed \in BOOLEAN
               /\ dbExists \in BOOLEAN
               /\ tables \subseteq Tables
               /\ users \subseteq Users
               /\ relations \subseteq users \X users

(* A table is there or is yet to be looked at; todo is not empty when a    *)
(* table is created.                                                       *)
TablesThere ==
  /\ pc \notin {"off", "createDataBase"} =>
       \A t \in Tables : t \in tables \/ \E i \in 1..Len(todo) : todo[i] = t
  /\ pc = "createTable" => todo # <<>>
  /\ pc \in AfterTables => todo = <<>>

(* createDataBase() is reached, as DbName is listed, only by a failure.    *)
GaveUp == pc = "createDataBase" => failed

UsersThere == pc \in {"loadRelation", "serverInit", "loop"} => users # {}

(* The friends of u, as loadRelation() of u finds them.                    *)
FriendsOf(u) == {FriendOf(u, row) : row \in {r \in relations : u \in {r[1], r[2]}}}

(* Who has no query left has his friends loaded, when none failed.         *)
FriendsLoaded ==
  /\ pc \in {"loadRelation", "serverInit", "loop"} /\ ~failed =>
       \A u \in users \ toRelate : friends[u] = FriendsOf(u)
  /\ pc \in {"serverInit", "loop"} => toRelate = {}

IInv == /\ StartTypeOK /\ TablesThere /\ GaveUp /\ UsersThere /\ FriendsLoaded
        /\ ExitMeansFailure

-----------------------------------------------------------------------------
LEMMA OrderOfTables == /\ TableOrder \in Seq(Tables)
                       /\ TableOrder # <<>>
                       /\ \A t \in Tables : \E i \in 1..Len(TableOrder) : TableOrder[i] = t
  BY DEF TableOrder, Tables

(* What is left of todo after its head. *)
LEMMA TailOfTodo ==
  ASSUME NEW s \in Seq(Tables), s # <<>>
  PROVE  /\ Tail(s) \in Seq(Tables)
         /\ Head(s) \in Tables
         /\ \A i \in 1..Len(s) : s[i] = Head(s) \/ \E j \in 1..Len(Tail(s)) : Tail(s)[j] = s[i]
<1>1. /\ Head(s) = s[1] /\ Len(s) \in Nat \ {0} /\ Len(Tail(s)) = Len(s) - 1
      /\ \A j \in 1..Len(Tail(s)) : Tail(s)[j] = s[j + 1]
      /\ Tail(s) \in Seq(Tables) /\ Head(s) \in Tables
  BY HeadTailProperties, LenProperties, EmptySeq
<1>2. ASSUME NEW i \in 1..Len(s), i # 1
      PROVE  i - 1 \in 1..Len(Tail(s)) /\ Tail(s)[i - 1] = s[i]
  BY <1>1, <1>2
<1> QED
  BY <1>1, <1>2

LEMMA CallFails ==
  ASSUME NEW ok \in BOOLEAN, failed \in BOOLEAN, Call(ok)
  PROVE  /\ failed' \in BOOLEAN
         /\ ~ok => failed'
         /\ failed => failed'
         /\ ok => failed' = failed
<1>1. CASE ok
  BY <1>1, Zenon DEF Call
<1>2. CASE ~ok
  BY <1>2, Zenon DEF Call
<1> QED
  BY <1>1, <1>2

LEMMA ExitKeeps ==
  ASSUME IInv, NEW code \in Int, Exit(code), failed' \in BOOLEAN, runs' = runs,
         UNCHANGED <<dbExists, users, relations>>, tables' \subseteq Tables,
         code \in {-2, -3} /\ ~failed' => users = {}
  PROVE  IInv'
<1>1. /\ pc' = "off" /\ exitCode' = code /\ todo' = <<>>
      /\ toRelate' = {} /\ friends' = NoFriends
  BY DEF Exit
<1>2. StartTypeOK'
  BY <1>1, EmptySeq DEF IInv, StartTypeOK, Points, NoFriends
<1> QED
  BY <1>1, <1>2 DEF IInv, TablesThere, GaveUp, UsersThere, FriendsLoaded, AfterTables, ExitMeansFailure

LEMMA InitIInv == Init => IInv
<1> SUFFICES ASSUME Init PROVE IInv
  OBVIOUS
<1>1. StartTypeOK
  <2>1. friends \in [Users -> SUBSET Users] /\ todo \in Seq(Tables)
    BY EmptySeq DEF Init, NoFriends
  <2>2. dbExists \in BOOLEAN /\ failed \in BOOLEAN
    BY Zenon DEF Init
  <2>3. /\ pc \in Points /\ exitCode \in Int /\ toRelate \subseteq Users /\ runs \in Nat
        /\ tables \subseteq Tables /\ users \subseteq Users /\ relations \subseteq users \X users
    BY DEF Init, Points
  <2> QED
    BY <2>1, <2>2, <2>3 DEF StartTypeOK
<1> QED
  BY <1>1 DEF Init, IInv, TablesThere, GaveUp, UsersThere, FriendsLoaded, AfterTables, ExitMeansFailure

LEMMA NextIInv == IInv /\ [Next]_vars => IInv'
<1> SUFFICES ASSUME IInv, [Next]_vars PROVE IInv'
  OBVIOUS
<1> USE DEF IInv, server
<1>1. CASE Launch
  <2>1. StartTypeOK'
    <3>1. failed' \in BOOLEAN
      BY <1>1, Zenon DEF Launch
    <3> QED
      BY <1>1, <3>1, OrderOfTables DEF Launch, StartTypeOK, Points
  <2> QED
    BY <1>1, <2>1, OrderOfTables DEF Launch, TablesThere, GaveUp, UsersThere, FriendsLoaded, AfterTables, ExitMeansFailure
<1>2. CASE Connect
  <2>1. PICK ok \in BOOLEAN :
          /\ Call(ok)
          /\ \/ ok /\ pc' = "checkDatabase" /\ UNCHANGED <<exitCode, todo, toRelate, friends>>
             \/ ~ok /\ Exit(-2)
    BY <1>2 DEF Connect
  <2>2. UNCHANGED <<runs, server>>
    BY <1>2 DEF Connect
  <2>3. CASE ok
    <3>1. pc = "connect" /\ failed' = failed
      BY <1>2, <2>1, <2>3, CallFails DEF Connect, StartTypeOK
    <3>2. pc' = "checkDatabase" /\ UNCHANGED <<exitCode, todo, toRelate, friends>>
      BY <2>1, <2>3
    <3> QED
      BY <2>2, <3>1, <3>2 DEF StartTypeOK, Points, TablesThere, GaveUp, UsersThere,
                              FriendsLoaded, AfterTables, ExitMeansFailure
  <2>4. CASE ~ok
    <3>1. failed' \in BOOLEAN /\ failed' /\ Exit(-2)
      BY <2>1, <2>4, CallFails DEF StartTypeOK
    <3> QED
      BY <2>2, <3>1, ExitKeeps DEF StartTypeOK
  <2> QED
    BY <2>3, <2>4
<1>3. CASE CheckDatabase
  <2>1. Listed
    BY StartupAssumption DEF Listed
  <2>2. PICK ok \in BOOLEAN : /\ Call(ok)
                             /\ pc' = IF ok /\ Listed THEN "checkTable" ELSE "createDataBase"
    BY <1>3 DEF CheckDatabase
  <2>3. pc = "checkDatabase" /\ UNCHANGED <<exitCode, todo, toRelate, friends, runs, server>>
    BY <1>3 DEF CheckDatabase
  <2>4. failed' \in BOOLEAN /\ (~ok => failed')
    BY <2>2, CallFails DEF StartTypeOK
  <2> QED
    BY <2>1, <2>2, <2>3, <2>4 DEF StartTypeOK, Points, TablesThere, GaveUp,
                      UsersThere, FriendsLoaded, AfterTables, ExitMeansFailure
<1>4. CASE CreateDataBase
  BY <1>4, ExitKeeps DEF CreateDataBase, GaveUp, StartTypeOK
<1>5. CASE CheckTable
  <2>1. /\ todo # <<>> /\ pc = "checkTable"
        /\ UNCHANGED <<exitCode, toRelate, friends, runs, server>>
    BY <1>5 DEF CheckTable
  <2>2. PICK ok \in BOOLEAN :
          /\ Call(ok)
          /\ IF ok /\ Head(todo) \in tables
             THEN todo' = Tail(todo) /\ UNCHANGED pc
             ELSE pc' = "createTable" /\ UNCHANGED todo
    BY <1>5 DEF CheckTable
  <2>3. /\ Tail(todo) \in Seq(Tables)
        /\ \A i \in 1..Len(todo) : todo[i] = Head(todo) \/ \E j \in 1..Len(Tail(todo)) : Tail(todo)[j] = todo[i]
    BY <2>1, TailOfTodo DEF StartTypeOK
  <2>4. StartTypeOK'
    BY <2>1, <2>2, <2>3 DEF StartTypeOK, Call, Points
  <2>5. TablesThere'
    BY <2>1, <2>2, <2>3 DEF TablesThere, AfterTables
  <2> QED
    BY <2>1, <2>2, <2>4, <2>5 DEF Call, GaveUp, UsersThere, FriendsLoaded, ExitMeansFailure
<1>6. CASE CreateTable
  <2>1. pc = "createTable" /\ UNCHANGED <<runs, dbExists, users, relations>>
    BY <1>6 DEF CreateTable
  <2>2. PICK ok \in BOOLEAN :
          /\ Call(ok)
          /\ \/ tables' = tables \cup {Head(todo)}
             \/ ~ok /\ UNCHANGED tables
          /\ \/ /\ ok
                /\ pc' = "checkTable"
                /\ todo' = Tail(todo)
                /\ UNCHANGED <<exitCode, toRelate, friends>>
             \/ ~ok /\ Exit(-2)
    BY <1>6 DEF CreateTable
  <2>3. /\ Tail(todo) \in Seq(Tables) /\ Head(todo) \in Tables
        /\ \A i \in 1..Len(todo) : todo[i] = Head(todo) \/ \E j \in 1..Len(Tail(todo)) : Tail(todo)[j] = todo[i]
    BY <2>1, TailOfTodo DEF StartTypeOK, TablesThere
  <2>4. CASE ok
    <3>1. /\ tables' = tables \cup {Head(todo)} /\ pc' = "checkTable" /\ todo' = Tail(todo)
          /\ UNCHANGED <<exitCode, toRelate, friends>> /\ failed' = failed
      BY <2>2, <2>4 DEF Call, StartTypeOK
    <3>2. StartTypeOK'
      BY <2>1, <2>3, <3>1 DEF StartTypeOK, Points
    <3>3. TablesThere'
      BY <2>1, <2>3, <3>1 DEF TablesThere, AfterTables
    <3> QED
      BY <2>1, <3>1, <3>2, <3>3 DEF GaveUp, UsersThere, FriendsLoaded, ExitMeansFailure
  <2>5. CASE ~ok
    <3>1. tables' \subseteq Tables
      BY <2>2, <2>3 DEF StartTypeOK
    <3>2. failed' \in BOOLEAN /\ failed' /\ Exit(-2)
      BY <2>2, <2>5, CallFails DEF StartTypeOK
    <3> QED
      BY <2>1, <3>1, <3>2, ExitKeeps
  <2> QED
    BY <2>4, <2>5
<1>7. CASE TablesDone
  BY <1>7 DEF TablesDone, StartTypeOK, Points, TablesThere, GaveUp, UsersThere,
              FriendsLoaded, AfterTables, ExitMeansFailure
<1>8. CASE LoadUsers
  <2>1. pc = "loadUsers" /\ UNCHANGED <<runs, server>>
    BY <1>8 DEF LoadUsers
  <2>2. PICK ok \in BOOLEAN :
          /\ Call(ok)
          /\ \/ /\ ok /\ users # {}
                /\ pc' = "loadRelation"
                /\ toRelate' = users
                /\ UNCHANGED <<exitCode, todo, friends>>
             \/ (~ok \/ users = {}) /\ Exit(-3)
    BY <1>8 DEF LoadUsers
  <2>3. CASE ok /\ users # {}
    BY <2>1, <2>2, <2>3 DEF Call, StartTypeOK, Points, TablesThere, GaveUp, UsersThere,
                            FriendsLoaded, AfterTables, ExitMeansFailure
  <2>4. CASE ~ok \/ users = {}
    <3>1. /\ failed' \in BOOLEAN /\ Exit(-3)
          /\ ~failed' => users = {}
      BY <2>2, <2>4, CallFails DEF StartTypeOK
    <3> QED
      BY <2>1, <3>1, ExitKeeps DEF StartTypeOK
  <2> QED
    BY <2>3, <2>4
<1>9. ASSUME NEW u \in Users, LoadRelation(u) PROVE IInv'
  <2>1. /\ pc = "loadRelation" /\ toRelate' = toRelate \ {u}
        /\ UNCHANGED <<pc, exitCode, todo, runs, server>>
    BY <1>9 DEF LoadRelation
  <2>2. PICK ok \in BOOLEAN :
          /\ Call(ok)
          /\ friends' = IF ok THEN [friends EXCEPT ![u] = FriendsOf(u)] ELSE friends
    BY <1>9 DEF LoadRelation, FriendsOf
  <2>3. FriendsOf(u) \subseteq Users
    BY DEF FriendsOf, FriendOf, StartTypeOK
  <2>4. StartTypeOK'
    BY <2>1, <2>2, <2>3 DEF StartTypeOK, Call
  <2>5. FriendsLoaded'
    <3>1. ASSUME ~failed', NEW v \in users, v \notin toRelate'
          PROVE  friends'[v] = FriendsOf(v)
      BY <2>1, <2>2, <3>1 DEF FriendsLoaded, StartTypeOK, Call
    <3>2. ASSUME NEW v PROVE FriendsOf(v)' = FriendsOf(v)
      BY <2>1 DEF FriendsOf
    <3> QED
      BY <2>1, <3>1, <3>2 DEF FriendsLoaded
  <2> QED
    BY <2>1, <2>4, <2>5 DEF TablesThere, GaveUp, UsersThere, AfterTables, ExitMeansFailure
<1>10. CASE RelationsDone
  BY <1>10 DEF RelationsDone, StartTypeOK, Points, TablesThere, GaveUp, UsersThere,
               FriendsLoaded, FriendsOf, AfterTables, ExitMeansFailure
<1>11. CASE ServerInit
  <2>1. CASE Exit(1)
    BY <1>11, <2>1, ExitKeeps DEF ServerInit, StartTypeOK
  <2>2. CASE pc' = "loop" /\ UNCHANGED <<exitCode, todo, toRelate, friends>>
    BY <1>11, <2>2 DEF ServerInit, StartTypeOK, Points, TablesThere, GaveUp, UsersThere,
                       FriendsLoaded, FriendsOf, AfterTables, ExitMeansFailure
  <2> QED
    BY <1>11, <2>1, <2>2 DEF ServerInit
<1>12. CASE Kill
  BY <1>12, ExitKeeps DEF Kill, StartTypeOK
<1>13. CASE UNCHANGED vars
  BY <1>13 DEF vars, StartTypeOK, TablesThere, GaveUp, UsersThere, FriendsLoaded, FriendsOf,
               ExitMeansFailure
<1> QED
  BY <1>1, <1>2, <1>3, <1>4, <1>5, <1>6, <1>7, <1>8, <1>9, <1>10, <1>11, <1>12, <1>13
     DEF Next, Step

(* main() reaches the event loop only with every table and a user, gives   *)
(* up only after a call failed or when there are no users, and has loaded  *)
(* friendships that are mutual: for every state of the MySQL server it may *)
(* find, and every sequence of kills, failures and restarts.               *)
THEOREM StartIsSound == Spec => []StartSound
<1>1. IInv => StartSound
  <2> SUFFICES ASSUME IInv PROVE ServesOnlyComplete /\ FriendsMutual
    BY DEF IInv, StartSound
  <2>1. ServesOnlyComplete
    <3>1. pc = "loop" => Len(todo) = 0
      BY DEF IInv, TablesThere, AfterTables
    <3>2. pc = "loop" => \A t \in Tables : t \in tables
      BY <3>1 DEF IInv, TablesThere, AfterTables
    <3> QED
      BY <3>2 DEF IInv, ServesOnlyComplete, StartTypeOK, TablesThere, UsersThere, AfterTables
  <2>2. FriendsMutual
    <3> SUFFICES ASSUME pc = "loop", ~failed, NEW u \in users, NEW v \in users, v \in friends[u]
                 PROVE  u \in friends[v]
      BY DEF FriendsMutual
    <3>1. friends[u] = FriendsOf(u) /\ friends[v] = FriendsOf(v)
      BY DEF IInv, FriendsLoaded
    <3>2. PICK row \in relations : u \in {row[1], row[2]} /\ v = FriendOf(u, row)
      BY <3>1 DEF FriendsOf
    <3>3. v \in {row[1], row[2]} /\ u = FriendOf(v, row)
      BY <3>2 DEF FriendOf
    <3> QED
      BY <3>1, <3>2, <3>3 DEF FriendsOf
  <2> QED
    BY <2>1, <2>2
<1> QED
  BY <1>1, InitIInv, NextIInv, PTL DEF Spec
=============================================================================
