---------------------------- MODULE UserManager ----------------------------
(***************************************************************************)
(* Accounts: UserManager (the cache of users and the id counter), the two  *)
(* request handlers of ClientSession that use it, and MysqlTool::execute,  *)
(* through which a registration reaches the table `user`.  The server may  *)
(* be killed at any moment, also between the INSERT and the answer, and is *)
(* then started again on the same table.                                   *)
(*                                                                         *)
(* A request is the JSON text after the header: one that does not parse,   *)
(* one that is no object, or an object.  An absent key reads as JSON null. *)
(* `reply` is the answer a handler decides on; how BinaryWriter encodes it *)
(* is the subject of that module.                                          *)
(***************************************************************************)
EXTENDS Integers, Sequences, FiniteSets, FiniteSetsExt

CONSTANTS Text,              \* strings
          SqlText,           \* what a column keeps of a text put between quotes
          RegisterRequests,  \* requests handed to onRegisterResponse()
          LoginRequests,     \* requests handed to onLoginResponse()
          InitialTable,      \* rows of `user` when the server is installed
          MaxUsers           \* bound: ids above BaseUserId that are used

(* _currentUserId of a process that has loaded nothing. *)
BaseUserId == 10000

Json == [type : {"null"}] \cup [type : {"string"}, text : Text]
          \cup [type : {"bool"}, flag : BOOLEAN] \cup [type : {"int"}, num : Int]
NotAnObject == {[shape |-> "malformed"], [shape |-> "array"]}
RegisterObject == [shape : {"object"}, username : Json, nickname : Json,
                   nicknime : Json, password : Json]
LoginObject == [shape : {"object"}, user : Json, password : Json,
                status : Json, stastus : Json]

Row == [user_id : Int, username : Text, nickname : Text, password : Text]
User == [userId : Int, userName : Text, nickName : Text, passWord : Text]
UsedIds == BaseUserId + 1..BaseUserId + MaxUsers
Ids(rows) == {r.user_id : r \in rows}

ASSUME TextAssumption == {"", "true", "false"} \subseteq Text
(* addUser() puts names between quotes as they are.  A column of 64        *)
(* characters keeps a short text without quote and backslash unchanged;    *)
(* it keeps another spelling of one with a doubled quote or a backslash,   *)
(* or the front of a long one, depending on sql_mode; a lone quote breaks  *)
(* the statement (the empty set).                                          *)
ASSUME SqlAssumption == SqlText \in [Text -> SUBSET Text]
ASSUME RequestAssumption == /\ RegisterRequests \subseteq NotAnObject \cup RegisterObject
                            /\ LoginRequests \subseteq NotAnObject \cup LoginObject
(* The primary key is user_id, and addUser() gives ids above BaseUserId. *)
ASSUME TableAssumption == /\ MaxUsers \in Nat
                          /\ InitialTable \subseteq Row
                          /\ Ids(InitialTable) \subseteq UsedIds
                          /\ \A r, s \in InitialTable : r.user_id = s.user_id => r = s

VARIABLES
  running,       \* the process has passed UserManager::init()
  table,         \* rows of `user`
  cachedUsers,   \* _cachedUsers
  currentUserId, \* _currentUserId
  reply,         \* the last answer decided on, with its request
  acks           \* history: the accounts answered RES_REGISTER_SUCCESS, in order

vars == <<running, table, cachedUsers, currentUserId, reply, acks>>
NoReply == [code |-> "none"]

(* The machine after installation: the process is not running. *)
Init == /\ running = FALSE
        /\ table = InitialTable
        /\ cachedUsers = <<>>
        /\ currentUserId = BaseUserId
        /\ reply = NoReply
        /\ acks = <<>>

-----------------------------------------------------------------------------
(* jsoncpp. *)

IsString(j) == j.type = "string"
IsInt(j) == j.type = "int"
(* asString() throws on a number, asInt() on a string; nothing catches it. *)
AsStringThrows(j) == j.type = "int"
AsIntThrows(j) == j.type = "string"
AsString(j) == CASE j.type = "null"   -> ""
                 [] j.type = "string" -> j.text
                 [] j.type = "bool"   -> IF j.flag THEN "true" ELSE "false"
AsInt(j) == CASE j.type = "null" -> 0
              [] j.type = "int"  -> j.num
              [] j.type = "bool" -> IF j.flag THEN 1 ELSE 0

-----------------------------------------------------------------------------
(* MySQL and MysqlTool. *)

(* mysql_query() of an INSERT that MySQL reads as one of `rows`.  A taken  *)
(* key is an error, as is a statement it cannot read; "gone" (2006) was    *)
(* never sent; "lost" (2013) was sent and may have been applied.           *)
Attempt(rows) ==
  [added : {{}}, errno : {"gone", "lost", "error"}]
    \cup [added : {{r} : r \in {x \in rows : x.user_id \notin Ids(table)}},
          errno : {"none", "lost"}]

(* Mutant: a lost connection is taken for success. *)
OutcomeTrustsLost(a) == [added |-> a.added, ok |-> a.errno \in {"none", "lost"}]

Outcome(a) == [added |-> a.added, ok |-> a.errno = "none"]

(* MysqlTool::execute(): connect() when there is no handle; when the       *)
(* server is gone, connect() and try once more.  A failed connect() leaves *)
(* no handle, and the next call starts with connect(): the handle makes no *)
(* difference to what a call may return.                                   *)
Execute(rows) == {Outcome(a) : a \in {b \in Attempt(rows) : b.errno # "gone"}}
                   \cup {[added |-> {}, ok |-> FALSE]}
                   \cup {Outcome(b) : b \in Attempt(rows)}

-----------------------------------------------------------------------------
(* UserManager. *)

(* The SELECT returns the rows in descending order of user_id. *)
Loaded(rows) ==
  {s \in UNION {[1..n -> rows] : n \in 0..Cardinality(rows)} :
     /\ \A r \in rows : \E i \in DOMAIN s : s[i] = r
     /\ \A i, j \in DOMAIN s : i < j => s[i].user_id > s[j].user_id}

(* loadUsers() raises _currentUserId to every larger id it meets. *)
LargestIds(rows) == LET ids == Ids(rows) \cup {BaseUserId}
                    IN  {m \in ids : \A k \in ids : k <= m}

UserOf(r) == [userId |-> r.user_id, userName |-> r.username,
              nickName |-> r.nickname, passWord |-> r.password]

(* init(): loadUsers() fails on an empty table, as query() returns no      *)
(* result for no rows, and the process ends.  loadRelation() only logs.    *)
Start == /\ ~running
         /\ table # {}
         /\ running' = TRUE
         /\ \E s \in Loaded(table) :
              cachedUsers' = [i \in DOMAIN s |-> UserOf(s[i])]
         /\ currentUserId' \in LargestIds(table)
         /\ UNCHANGED <<table, reply, acks>>

(* The first cached user that satisfies P, or a default User. *)
NoUser == [userId |-> 0, userName |-> "", nickName |-> "", passWord |-> ""]
FirstCached(P(_)) ==
  LET hits == {i \in DOMAIN cachedUsers : P(cachedUsers[i])}
  IN  IF hits = {} THEN NoUser ELSE cachedUsers[Min(hits)]

(* Mutant: the name is looked for among the nicknames. *)
LookupByNickname(account) ==
  IF IsString(account)
  THEN FirstCached(LAMBDA u : u.nickName = AsString(account))
  ELSE FirstCached(LAMBDA u : u.userId = AsInt(account))

(* getUserInfoFromCached(), then getUserInfoFromDB(), which says true and  *)
(* leaves the User alone.                                                  *)
Lookup(account) ==
  IF IsString(account)
  THEN FirstCached(LAMBDA u : u.userName = AsString(account))
  ELSE FirstCached(LAMBDA u : u.userId = AsInt(account))

-----------------------------------------------------------------------------
(* The handlers. *)

Answer(cmd, request, code, id) ==
  reply' = [cmd |-> cmd, request |-> request, code |-> code, userId |-> id]
Die == /\ running' = FALSE
       /\ cachedUsers' = <<>>
       /\ currentUserId' = BaseUserId
       /\ UNCHANGED <<reply, acks>>
TypeError(q) == ~IsString(q.username) \/ ~IsString(q.nickname) \/ IsString(q.password)
Throws(q) == AsStringThrows(q.nicknime) \/ AsStringThrows(q.password)

RegisterRejected(q) ==
  /\ running
  /\ \/ q.shape = "malformed" /\ Answer("register", q, "RES_PARSE_FAILED", 0)
     \/ /\ q.shape = "object"
        /\ TypeError(q)
        /\ Answer("register", q, "RES_JOSNTYPE_ERROR", 0)
  /\ UNCHANGED <<running, table, cachedUsers, currentUserId, acks>>

(* An exception leaves the handler and the event loop: the process ends. *)
RegisterThrows(q) == /\ running
                     /\ q.shape # "malformed"
                     /\ q.shape = "object" => ~TypeError(q) /\ Throws(q)
                     /\ Die
                     /\ UNCHANGED table

Accepted(q) == running /\ q.shape = "object" /\ ~TypeError(q) /\ ~Throws(q)

NewUser(q) == [userId |-> currentUserId + 1, userName |-> AsString(q.username),
               nickName |-> AsString(q.nicknime), passWord |-> AsString(q.password)]

(* Mutant: name and nickname in the wrong order. *)
NewRowsSwapped(q) ==
  {[user_id |-> currentUserId + 1, username |-> k, nickname |-> n, password |-> k] :
     n \in SqlText[AsString(q.username)], k \in SqlText[AsString(q.nicknime)]}

(* What the INSERT may be read as.  The column password receives _nickName. *)
NewRows(q) ==
  {[user_id |-> currentUserId + 1, username |-> n, nickname |-> k, password |-> k] :
     n \in SqlText[AsString(q.username)], k \in SqlText[AsString(q.nicknime)]}

(* Mutant: the new user is not put into the cache. *)
CachedNot(u) == cachedUsers

(* Mutant: push_front for push_back. *)
CachedInFront(u) == <<u>> \o cachedUsers

Cached(u) == Append(cachedUsers, u)

(* addUser() and the answer. *)
Register(q) ==
  /\ Accepted(q)
  /\ currentUserId < BaseUserId + MaxUsers
  /\ \E o \in Execute(NewRows(q)) :
       /\ table' = table \cup o.added
       /\ \/ /\ ~o.ok
             /\ Answer("register", q, "RES_REGISTER_FAIED", 0)
             /\ UNCHANGED <<cachedUsers, currentUserId, acks>>
          \/ /\ o.ok
             /\ currentUserId' = currentUserId + 1
             /\ cachedUsers' = Cached(NewUser(q))
             /\ Answer("register", q, "RES_REGISTER_SUCCESS", currentUserId + 1)
             /\ acks' = Append(acks, NewUser(q))
  /\ UNCHANGED running

(* The process is killed inside addUser(), before the answer. *)
RegisterKilled(q) == /\ Accepted(q)
                     /\ currentUserId < BaseUserId + MaxUsers
                     /\ \E o \in Execute(NewRows(q)) : table' = table \cup o.added
                     /\ Die

LoginTypeError(q) == ~IsString(q.password) \/ ~IsInt(q.stastus)
LoginThrows(q) == AsIntThrows(q.status)

LoginRejected(q) ==
  /\ running
  /\ \/ q.shape = "malformed" /\ Answer("login", q, "RES_PARSE_FAILED", 0)
     \/ /\ q.shape = "object"
        /\ LoginTypeError(q)
        /\ Answer("login", q, "RES_JOSNTYPE_ERROR", 0)
  /\ UNCHANGED <<running, table, cachedUsers, currentUserId, acks>>

LoginDies(q) == /\ running
                /\ q.shape # "malformed"
                /\ q.shape = "object" => ~LoginTypeError(q) /\ LoginThrows(q)
                /\ Die
                /\ UNCHANGED table

(* The lookup never fails, so RES_LOGIN_NOREGISTER is never sent. *)
Login(q) ==
  /\ running
  /\ q.shape = "object" /\ ~LoginTypeError(q) /\ ~LoginThrows(q)
  /\ LET user == Lookup(q.user)
     IN  IF user.passWord # AsString(q.password)
         THEN Answer("login", q, "RES_LOGIN_NOPASSWORD", 0)
         ELSE Answer("login", q, "RES_LOGIN_SUCCESS", user.userId)
  /\ UNCHANGED <<running, table, cachedUsers, currentUserId, acks>>

(* A signal, abort() or the machine ends the process between requests. *)
Kill == running /\ Die /\ UNCHANGED table

-----------------------------------------------------------------------------
HandleRegister(q) == \/ RegisterRejected(q) \/ RegisterThrows(q)
                     \/ Register(q) \/ RegisterKilled(q)
HandleLogin(q) == LoginRejected(q) \/ LoginDies(q) \/ Login(q)

Next == \/ Start \/ Kill
        \/ \E q \in RegisterRequests : HandleRegister(q)
        \/ \E q \in LoginRequests : HandleLogin(q)

Spec == Init /\ [][Next]_vars

-----------------------------------------------------------------------------
(* Properties. *)

(* Types; the memory of a process that is not running is empty, and the    *)
(* id counter stays within the ids that addUser() can have reached.        *)
TypeOK == /\ running \in BOOLEAN
          /\ table \subseteq Row
          /\ Ids(table) \subseteq UsedIds
          /\ cachedUsers \in Seq(User)
          /\ ~running => cachedUsers = <<>>
          /\ currentUserId \in BaseUserId..BaseUserId + MaxUsers
          /\ acks \in Seq(User)

(* Row r is what addUser() wrote for the account u: name and nickname as a *)
(* column keeps them, and the nickname, not _passWord, as the password.    *)
WrittenFor(u, r) == /\ r.user_id = u.userId
                    /\ r.username \in SqlText[u.userName]
                    /\ r.nickname \in SqlText[u.nickName]
                    /\ r.password = r.nickname

(* An account whose registration was answered RES_REGISTER_SUCCESS is in   *)
(* the table `user` from then on, under that id and as the INSERT wrote    *)
(* it, whatever connections are lost and however often the server is       *)
(* killed.                                                                 *)
AckedDurable == \A i \in DOMAIN acks : \E r \in table : WrittenFor(acks[i], r)

(* The cache never says more than the table, and differs from it only in a *)
(* way that addUser() explains: each cached user is, in every column, the  *)
(* row it was loaded from, or it is an account this program acknowledged   *)
(* and the row is what was written for it, with the nickname in the column *)
(* password.  No id is cached twice.                                       *)
CacheBacked ==
  /\ \A k \in DOMAIN cachedUsers : \E r \in table :
       \/ cachedUsers[k] = UserOf(r)
       \/ /\ \E i \in DOMAIN acks : acks[i] = cachedUsers[k]
          /\ WrittenFor(cachedUsers[k], r)
  /\ \A i, j \in DOMAIN cachedUsers :
       cachedUsers[i].userId = cachedUsers[j].userId => i = j

(* While the server runs, getUserInfoFromCached(id) finds every account    *)
(* that was ever answered RES_REGISTER_SUCCESS: as it was registered, or,  *)
(* after a restart, as the row that was written for it reads.              *)
AckedFindable == running => \A i \in DOMAIN acks :
  LET u == Lookup([type |-> "int", num |-> acks[i].userId])
  IN  u = acks[i] \/ \E r \in table : WrittenFor(acks[i], r) /\ u = UserOf(r)

(* While a process runs, a name that logs in to an account goes on logging *)
(* in to that account, also when other accounts register the same name:    *)
(* the list is searched from the front and grows at the back.              *)
NameStable == [][running /\ running' => \A n \in Text :
                  LET hit == Lookup([type |-> "string", text |-> n])
                  IN  hit # NoUser => hit' = hit]_vars

LoggedIn == reply.code = "RES_LOGIN_SUCCESS"
Asked(account, u) == IF IsString(account) THEN u.userName = AsString(account)
                                          ELSE u.userId = AsInt(account)

(* The accounts as a login may know them: as rows, or as registered. *)
KnownAccounts == {u \in {UserOf(r) : r \in table} \cup {acks[i] : i \in DOMAIN acks} :
                    u.userId \in Ids(table)}

(* RES_LOGIN_SUCCESS goes to two kinds of request.  One names, by name or  *)
(* by id, an account of the table and gives its password; it is answered   *)
(* with the id of that account.  The other names an account nobody has and *)
(* gives the empty password: the answer is the id 0 of a default User, for *)
(* getUserInfoFromDB() says true of every account.                         *)
LoginIdentity == [][LoggedIn' /\ reply' # reply =>
  LET q == reply'.request
  IN  \/ \E u \in KnownAccounts : /\ reply'.userId = u.userId
                                  /\ Asked(q.user, u)
                                  /\ u.passWord = AsString(q.password)
      \/ /\ reply'.userId = 0
         /\ AsString(q.password) = ""
         /\ \A k \in DOMAIN cachedUsers : ~Asked(q.user, cachedUsers[k])]_vars
=============================================================================
