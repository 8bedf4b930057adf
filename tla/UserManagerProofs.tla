------------------------- MODULE UserManagerProofs -------------------------
(***************************************************************************)
(* Proofs about UserManager, for any requests, any initial table and any   *)
(* number of users: an acknowledged account is never lost, and the cache   *)
(* agrees with the table.                                                  *)
(***************************************************************************)
EXTENDS UserManager, SequenceTheorems, WellFoundedInduction, TLAPS

(* While the server runs, every acknowledged account is in the cache.  (Of *)
(* the other rows one may be missing: an INSERT that was applied and       *)
(* answered as a failure.)                                                 *)
AckedCached == running => \A i \in DOMAIN acks : \E k \in DOMAIN cachedUsers :
  /\ cachedUsers[k].userId = acks[i].userId
  /\ \/ cachedUsers[k] = acks[i]
     \/ \E r \in table : WrittenFor(acks[i], r) /\ cachedUsers[k] = UserOf(r)

(* user_id is a key of the table. *)
Keyed == \A r, s \in table : r.user_id = s.user_id => r = s

IInv == TypeOK /\ Keyed /\ AckedDurable /\ CacheBacked /\ AckedCached

LEMMA AsStringText == ASSUME NEW j \in Json, ~AsStringThrows(j)
                      PROVE  AsString(j) \in Text
<1>1. CASE j \in [type : {"null"}]
  BY <1>1, TextAssumption DEF AsString
<1>2. CASE j \in [type : {"string"}, text : Text]
  BY <1>2 DEF AsString
<1>3. CASE j \in [type : {"bool"}, flag : BOOLEAN]
  BY <1>3, TextAssumption DEF AsString
<1> QED
  BY <1>1, <1>2, <1>3 DEF Json, AsStringThrows

LEMMA NewTypes ==
  ASSUME TypeOK, NEW q \in RegisterRequests, Accepted(q)
  PROVE  /\ NewUser(q) \in User
         /\ NewUser(q).userId = currentUserId + 1
         /\ \A r \in NewRows(q) : /\ r \in Row
                                  /\ r.user_id = currentUserId + 1
                                  /\ WrittenFor(NewUser(q), r)
<1>1. q \in RegisterObject
  BY RequestAssumption DEF Accepted, NotAnObject
<1>2. /\ q.username \in Json /\ q.nicknime \in Json /\ q.password \in Json
      /\ ~AsStringThrows(q.username) /\ ~AsStringThrows(q.nicknime)
      /\ ~AsStringThrows(q.password)
  BY <1>1 DEF RegisterObject, Accepted, TypeError, Throws, IsString, AsStringThrows
<1>3. /\ AsString(q.username) \in Text /\ AsString(q.nicknime) \in Text
      /\ AsString(q.password) \in Text
  BY <1>2, AsStringText
<1>4. currentUserId + 1 \in Int
  BY TableAssumption DEF TypeOK, BaseUserId
<1>5. NewUser(q) \in User /\ NewUser(q).userId = currentUserId + 1
  BY <1>3, <1>4 DEF NewUser, User
<1>6. ASSUME NEW r \in NewRows(q)
      PROVE  /\ r \in Row
             /\ r.user_id = currentUserId + 1
             /\ WrittenFor(NewUser(q), r)
  <2>1. PICK n \in SqlText[AsString(q.username)], k \in SqlText[AsString(q.nicknime)] :
          r = [user_id |-> currentUserId + 1, username |-> n, nickname |-> k, password |-> k]
    BY <1>6 DEF NewRows
  <2>2. n \in Text /\ k \in Text
    BY <1>3, <2>1, SqlAssumption
  <2>3. r \in Row
    BY <1>4, <2>1, <2>2 DEF Row
  <2>4. /\ NewUser(q).userName = AsString(q.username)
        /\ NewUser(q).nickName = AsString(q.nicknime)
    BY DEF NewUser
  <2> QED
    BY <1>5, <2>1, <2>3, <2>4 DEF WrittenFor
<1> QED
  BY <1>5, <1>6

LEMMA InitIInv == Init => IInv
<1> SUFFICES ASSUME Init PROVE IInv
  OBVIOUS
<1>1. /\ cachedUsers = <<>> /\ acks = <<>> /\ running = FALSE
      /\ table = InitialTable /\ currentUserId = BaseUserId
  BY DEF Init
<1>2. /\ cachedUsers \in Seq(User) /\ acks \in Seq(User)
      /\ DOMAIN cachedUsers = {} /\ DOMAIN acks = {}
  BY <1>1, EmptySeq
<1>3. currentUserId \in BaseUserId..BaseUserId + MaxUsers
  BY <1>1, TableAssumption DEF BaseUserId
<1>4. TypeOK
  BY <1>1, <1>2, <1>3, TableAssumption DEF TypeOK
<1>5. Keyed
  BY <1>1, TableAssumption DEF Keyed
<1>6. AckedDurable /\ CacheBacked /\ AckedCached
  BY <1>1, <1>2 DEF AckedDurable, CacheBacked, AckedCached
<1> QED
  BY <1>4, <1>5, <1>6 DEF IInv

(* A row added by an INSERT keeps the key and is the new account's.        *)
LEMMA InsertKeeps ==
  ASSUME IInv, NEW q \in RegisterRequests, Accepted(q),
         currentUserId < BaseUserId + MaxUsers,
         NEW o \in Execute(NewRows(q)), table' = table \cup o.added
  PROVE  /\ table' \subseteq Row
         /\ Ids(table') \subseteq UsedIds
         /\ Keyed'
         /\ table \subseteq table'
         /\ o.ok => /\ \E r \in table' : WrittenFor(NewUser(q), r)
                    /\ currentUserId + 1 \notin Ids(table)
<1> DEFINE Fresh == {r \in NewRows(q) : r.user_id \notin Ids(table)}
<1>1. \/ o.added = {} /\ ~o.ok
      \/ \E r \in Fresh : o.added = {r}
  <2>1. ASSUME NEW a \in Attempt(NewRows(q))
        PROVE  \/ a.added = {} /\ a.errno # "none"
               \/ \E r \in Fresh : a.added = {r}
    BY DEF Attempt
  <2>2. CASE o = [added |-> {}, ok |-> FALSE]
    BY <2>2
  <2>3. ASSUME NEW a \in Attempt(NewRows(q)), o = Outcome(a)
        PROVE  \/ o.added = {} /\ ~o.ok
               \/ \E r \in Fresh : o.added = {r}
    <3>1. o.added = a.added /\ o.ok = (a.errno = "none")
      BY <2>3 DEF Outcome
    <3> QED
      BY <2>1, <2>3, <3>1
  <2> QED
    BY <2>2, <2>3 DEF Execute
<1>2. CASE o.added = {} /\ ~o.ok
  <2>1. table' = table
    BY <1>2
  <2> QED
    BY <1>2, <2>1 DEF IInv, TypeOK, Keyed
<1>3. ASSUME NEW r \in Fresh, o.added = {r}
      PROVE  /\ table' \subseteq Row
             /\ Ids(table') \subseteq UsedIds
             /\ Keyed'
             /\ WrittenFor(NewUser(q), r) /\ r \in table'
             /\ currentUserId + 1 \notin Ids(table)
  <2>1. table' = table \cup {r}
    BY <1>3
  <2>2. r \in Row /\ r.user_id = currentUserId + 1 /\ WrittenFor(NewUser(q), r)
    BY <1>3, NewTypes DEF IInv
  <2>3. currentUserId + 1 \in UsedIds
    BY TableAssumption DEF IInv, TypeOK, UsedIds, BaseUserId
  <2>4. Ids(table') = Ids(table) \cup {currentUserId + 1}
    BY <2>1, <2>2 DEF Ids
  <2>5. currentUserId + 1 \notin Ids(table)
    BY <1>3, <2>2
  <2>6. Keyed'
    BY <2>1, <2>2, <2>5 DEF IInv, Keyed, Ids
  <2> QED
    BY <2>1, <2>2, <2>3, <2>4, <2>5, <2>6 DEF IInv, TypeOK
<1> QED
  BY <1>1, <1>2, <1>3

(* A process that ends keeps the table and forgets the rest.               *)
LEMMA DieKeeps ==
  ASSUME IInv, Die, table' \subseteq Row, Ids(table') \subseteq UsedIds,
         Keyed', table \subseteq table'
  PROVE  IInv'
<1>1. /\ cachedUsers' = <<>> /\ acks' = acks /\ running' = FALSE
      /\ currentUserId' = BaseUserId
  BY DEF Die
<1>2. cachedUsers' \in Seq(User) /\ DOMAIN cachedUsers' = {}
  BY <1>1, EmptySeq
<1>3. currentUserId' \in BaseUserId..BaseUserId + MaxUsers
  BY <1>1, TableAssumption DEF BaseUserId
<1>4. TypeOK'
  BY <1>1, <1>2, <1>3 DEF TypeOK, IInv
<1>5. AckedDurable'
  BY <1>1 DEF AckedDurable, IInv
<1>6. CacheBacked' /\ AckedCached'
  BY <1>1, <1>2 DEF CacheBacked, AckedCached
<1> QED
  BY <1>4, <1>5, <1>6 DEF IInv

LEMMA StartKeeps == ASSUME IInv, Start PROVE IInv'
<1>1. PICK s \in Loaded(table) :
        cachedUsers' = [i \in DOMAIN s |-> UserOf(s[i])]
  BY DEF Start
<1>2. PICK n \in 0..Cardinality(table) : s \in [1..n -> table]
  BY <1>1 DEF Loaded
<1>3. /\ \A r \in table : \E i \in DOMAIN s : s[i] = r
      /\ \A i, j \in DOMAIN s : i < j => s[i].user_id > s[j].user_id
      /\ DOMAIN s = 1..n /\ DOMAIN cachedUsers' = 1..n
      /\ \A i \in 1..n : s[i] \in table /\ cachedUsers'[i] = UserOf(s[i])
  BY <1>1, <1>2 DEF Loaded
<1>4. table' = table /\ acks' = acks /\ running' = TRUE
  BY DEF Start
<1>5. ASSUME NEW r \in table
      PROVE  UserOf(r) \in User /\ UserOf(r).userId = r.user_id
  BY <1>5 DEF IInv, TypeOK, Row, User, UserOf
<1>6. cachedUsers' \in Seq(User)
  <2>1. \A i \in 1..n : UserOf(s[i]) \in User
    BY <1>3, <1>5
  <2>2. cachedUsers' = [i \in 1..n |-> UserOf(s[i])] /\ n \in Nat
    BY <1>1, <1>2, <1>3
  <2> QED
    BY <2>1, <2>2, IsASeq
<1>7. currentUserId' \in BaseUserId..BaseUserId + MaxUsers
  <2>1. currentUserId' \in Ids(table) \cup {BaseUserId}
    BY DEF Start, LargestIds
  <2> QED
    BY <2>1, TableAssumption DEF IInv, TypeOK, UsedIds, BaseUserId
<1>8. TypeOK'
  BY <1>4, <1>6, <1>7 DEF IInv, TypeOK
<1>9. Keyed' /\ AckedDurable'
  BY <1>4 DEF IInv, Keyed, AckedDurable
<1>10. CacheBacked'
  <2>1. \A i \in 1..n : cachedUsers'[i].userId = s[i].user_id
    BY <1>3, <1>5
  <2>2. ASSUME NEW i \in 1..n, NEW j \in 1..n,
               cachedUsers'[i].userId = cachedUsers'[j].userId
        PROVE  i = j
    <3>1. s[i].user_id = s[j].user_id
      BY <2>1, <2>2
    <3>2. s[i].user_id \in Int /\ s[j].user_id \in Int
      BY <1>3, <2>2 DEF IInv, TypeOK, Row
    <3>3. ~(i < j) /\ ~(j < i)
      BY <1>3, <2>2, <3>1, <3>2
    <3> QED
      BY <1>2, <2>2, <3>3
  <2> QED
    BY <1>3, <1>4, <2>2 DEF CacheBacked
<1>11. AckedCached'
  <2> SUFFICES ASSUME NEW i \in DOMAIN acks
               PROVE  \E k \in 1..n :
                        /\ cachedUsers'[k].userId = acks[i].userId
                        /\ \E r \in table : /\ WrittenFor(acks[i], r)
                                            /\ cachedUsers'[k] = UserOf(r)
    BY <1>3, <1>4 DEF AckedCached
  <2>1. PICK r \in table : WrittenFor(acks[i], r)
    BY DEF IInv, AckedDurable
  <2>2. PICK k \in 1..n : s[k] = r
    BY <1>3
  <2> QED
    BY <1>3, <1>5, <2>1, <2>2 DEF WrittenFor
<1> QED
  BY <1>8, <1>9, <1>10, <1>11 DEF IInv

LEMMA RegisterKeeps ==
  ASSUME IInv, NEW q \in RegisterRequests, Register(q) PROVE IInv'
<1>1. PICK o \in Execute(NewRows(q)) :
        /\ table' = table \cup o.added
        /\ \/ ~o.ok /\ UNCHANGED <<cachedUsers, currentUserId, acks>>
           \/ /\ o.ok
              /\ currentUserId' = currentUserId + 1
              /\ cachedUsers' = Append(cachedUsers, NewUser(q))
              /\ acks' = Append(acks, NewUser(q))
  BY DEF Register, Cached
<1>2. Accepted(q) /\ currentUserId < BaseUserId + MaxUsers
  BY DEF Register
<1>3. /\ table' \subseteq Row /\ Ids(table') \subseteq UsedIds /\ Keyed'
      /\ table \subseteq table'
      /\ o.ok => /\ \E r \in table' : WrittenFor(NewUser(q), r)
                 /\ currentUserId + 1 \notin Ids(table)
  BY <1>1, <1>2, InsertKeeps
<1>4. NewUser(q) \in User /\ NewUser(q).userId = currentUserId + 1
  BY <1>2, NewTypes DEF IInv
<1>5. running /\ running' = running
  BY <1>2 DEF Register, Accepted
<1>6. CASE ~o.ok
  <2>1. UNCHANGED <<cachedUsers, currentUserId, acks>>
    BY <1>1, <1>6
  <2> QED
    BY <1>3, <1>5, <2>1
       DEF IInv, TypeOK, AckedDurable, CacheBacked, AckedCached
<1>7. CASE o.ok
  <2>1. /\ currentUserId' = currentUserId + 1
        /\ cachedUsers' = Append(cachedUsers, NewUser(q))
        /\ acks' = Append(acks, NewUser(q))
    BY <1>1, <1>7
  <2> DEFINE n == Len(cachedUsers)
             m == Len(acks)
  <2>2. /\ n \in Nat /\ DOMAIN cachedUsers = 1..n
        /\ cachedUsers' \in Seq(User) /\ DOMAIN cachedUsers' = 1..n + 1
        /\ \A i \in 1..n : cachedUsers'[i] = cachedUsers[i]
        /\ cachedUsers'[n + 1] = NewUser(q)
    BY <1>4, <2>1, AppendProperties, LenProperties DEF IInv, TypeOK
  <2>3. /\ m \in Nat /\ DOMAIN acks = 1..m
        /\ acks' \in Seq(User) /\ DOMAIN acks' = 1..m + 1
        /\ \A i \in 1..m : acks'[i] = acks[i]
        /\ acks'[m + 1] = NewUser(q)
    BY <1>4, <2>1, AppendProperties, LenProperties DEF IInv, TypeOK
  <2> HIDE DEF n, m
  <2>4. TypeOK'
    <3>1. currentUserId' \in BaseUserId..BaseUserId + MaxUsers
      BY <1>2, <2>1, TableAssumption DEF IInv, TypeOK, BaseUserId
    <3> QED
      BY <1>3, <1>5, <2>2, <2>3, <3>1 DEF IInv, TypeOK
  <2>5. AckedDurable'
    BY <1>3, <1>7, <2>3 DEF IInv, AckedDurable
  <2>6. CacheBacked'
    <3>1. \A k \in 1..n : \E r \in table :
            \/ cachedUsers[k] = UserOf(r)
            \/ /\ \E i \in 1..m : acks[i] = cachedUsers[k]
               /\ WrittenFor(cachedUsers[k], r)
      BY <2>2, <2>3 DEF IInv, CacheBacked
    <3>2. \A i \in 1..n : cachedUsers[i].userId # currentUserId + 1
      <4>1. ASSUME NEW k \in 1..n PROVE cachedUsers[k].userId \in Ids(table)
        <5>1. PICK r \in table : \/ cachedUsers[k] = UserOf(r)
                                \/ WrittenFor(cachedUsers[k], r)
          BY <3>1
        <5>2. cachedUsers[k].userId = r.user_id
          BY <5>1 DEF WrittenFor, UserOf
        <5> QED
          BY <5>2 DEF Ids
      <4> QED
        BY <1>3, <1>7, <4>1
    <3>3. \A i, j \in 1..n + 1 :
            cachedUsers'[i].userId = cachedUsers'[j].userId => i = j
      BY <1>4, <2>2, <3>2 DEF IInv, CacheBacked
    <3>4. \A k \in 1..n + 1 : \E r \in table' :
            \/ cachedUsers'[k] = UserOf(r)
            \/ /\ \E i \in 1..m + 1 : acks'[i] = cachedUsers'[k]
               /\ WrittenFor(cachedUsers'[k], r)
      <4>1. ASSUME NEW k \in 1..n
            PROVE  \E r \in table' :
                     \/ cachedUsers'[k] = UserOf(r)
                     \/ /\ \E i \in 1..m + 1 : acks'[i] = cachedUsers'[k]
                        /\ WrittenFor(cachedUsers'[k], r)
        <5>1. \A i \in 1..m : i \in 1..m + 1
          BY <2>3
        <5> QED
          BY <1>3, <2>2, <2>3, <3>1, <5>1
      <4>2. m + 1 \in 1..m + 1 /\ acks'[m + 1] = cachedUsers'[n + 1]
        BY <2>2, <2>3
      <4>3. \E r \in table' : WrittenFor(cachedUsers'[n + 1], r)
        BY <1>3, <1>7, <2>2
      <4>4. \A k \in 1..n + 1 : k \in 1..n \/ k = n + 1
        BY <2>2
      <4> QED
        BY <4>1, <4>2, <4>3, <4>4
    <3> QED
      BY <2>2, <2>3, <3>3, <3>4 DEF CacheBacked
  <2>7. AckedCached'
    BY <1>3, <1>5, <2>2, <2>3 DEF IInv, AckedCached
  <2> QED
    BY <1>3, <2>4, <2>5, <2>6, <2>7 DEF IInv
<1> QED
  BY <1>6, <1>7

LEMMA NextIInv == IInv /\ [Next]_vars => IInv'
<1> SUFFICES ASSUME IInv, [Next]_vars PROVE IInv'
  OBVIOUS
<1>1. CASE Start
  BY <1>1, StartKeeps
<1>2. ASSUME Die, UNCHANGED table PROVE IInv'
  BY <1>2, DieKeeps DEF IInv, TypeOK, Keyed
<1>3. CASE Kill
  BY <1>2, <1>3 DEF Kill
<1>4. ASSUME UNCHANGED <<running, table, cachedUsers, currentUserId, acks>>
      PROVE  IInv'
  BY <1>4 DEF IInv, TypeOK, Keyed, AckedDurable, CacheBacked, AckedCached
<1>5. ASSUME NEW q \in RegisterRequests, HandleRegister(q) PROVE IInv'
  <2>1. CASE RegisterRejected(q)
    BY <1>4, <2>1 DEF RegisterRejected
  <2>2. CASE RegisterThrows(q)
    BY <1>2, <2>2 DEF RegisterThrows
  <2>3. CASE Register(q)
    BY <2>3, RegisterKeeps
  <2>4. CASE RegisterKilled(q)
    <3>1. PICK o \in Execute(NewRows(q)) : table' = table \cup o.added
      BY <2>4 DEF RegisterKilled
    <3>2. /\ table' \subseteq Row /\ Ids(table') \subseteq UsedIds /\ Keyed'
          /\ table \subseteq table'
      BY <2>4, <3>1, InsertKeeps DEF RegisterKilled
    <3> QED
      BY <2>4, <3>2, DieKeeps DEF RegisterKilled
  <2> QED
    BY <1>5, <2>1, <2>2, <2>3, <2>4 DEF HandleRegister
<1>6. ASSUME NEW q \in LoginRequests, HandleLogin(q) PROVE IInv'
  BY <1>2, <1>4, <1>6 DEF HandleLogin, LoginRejected, LoginDies, Login
<1>7. CASE UNCHANGED vars
  BY <1>4, <1>7 DEF vars
<1> QED
  BY <1>1, <1>3, <1>5, <1>6, <1>7 DEF Next

LEMMA IInvInvariant == Spec => []IInv
  BY InitIInv, NextIInv, PTL DEF Spec

(* Types of the accounts: the cache, the table and the id counter stay in  *)
(* range for every sequence of requests, failures and restarts.            *)
THEOREM TypeCorrect == Spec => []TypeOK
<1>1. IInv => TypeOK
  BY DEF IInv
<1> QED
  BY <1>1, IInvInvariant, PTL

(* addUser() answers success only for what the table keeps: no lost        *)
(* connection, kill or restart makes an acknowledged account disappear.    *)
THEOREM AcknowledgedIsDurable == Spec => []AckedDurable
<1>1. IInv => AckedDurable
  BY DEF IInv
<1> QED
  BY <1>1, IInvInvariant, PTL

(* _cachedUsers is the table as loadUsers() read it and as addUser() wrote *)
(* it, in every column: the two differ only where addUser() splices a name *)
(* that SQL respells, and in the password of an account registered by the  *)
(* running process.  No id is cached twice.                                *)
THEOREM CacheAgreesWithTable == Spec => []CacheBacked
<1>1. IInv => CacheBacked
  BY DEF IInv
<1> QED
  BY <1>1, IInvInvariant, PTL

(* getUserInfoFromCached(id) returns the acknowledged account of that id:  *)
(* it is cached, and being cached once it is the first hit of the search.  *)
THEOREM AcknowledgedIsFindable == Spec => []AckedFindable
<1>1. IInv => AckedFindable
  <2> SUFFICES ASSUME IInv, running, NEW i \in DOMAIN acks
               PROVE  LET u == Lookup([type |-> "int", num |-> acks[i].userId])
                      IN  \/ u = acks[i]
                          \/ \E r \in table : WrittenFor(acks[i], r) /\ u = UserOf(r)
    BY DEF AckedFindable
  <2> DEFINE account == [type |-> "int", num |-> acks[i].userId]
             hits == {k \in DOMAIN cachedUsers : cachedUsers[k].userId = acks[i].userId}
  <2>1. PICK k \in DOMAIN cachedUsers :
          /\ cachedUsers[k].userId = acks[i].userId
          /\ \/ cachedUsers[k] = acks[i]
             \/ \E r \in table : WrittenFor(acks[i], r) /\ cachedUsers[k] = UserOf(r)
    BY DEF IInv, AckedCached
  <2>2. hits = {k}
    BY <2>1 DEF IInv, CacheBacked
  <2>3. Min(hits) = k
    <3>1. k \in Nat
      BY <2>1, LenProperties DEF IInv, TypeOK
    <3> QED
      BY <2>2, <3>1 DEF Min
  <2>4. ~IsString(account) /\ AsInt(account) = acks[i].userId
    BY DEF IsString, AsInt
  <2>5. Lookup(account) = cachedUsers[Min(hits)]
    BY <2>2, <2>4 DEF Lookup, FirstCached
  <2> QED
    BY <2>1, <2>3, <2>5
<1> QED
  BY <1>1, IInvInvariant, PTL

(* The search of _cachedUsers from the front: the first hit is a hit. *)
LEMMA FirstExists ==
  ASSUME NEW T \in SUBSET Nat, T # {}
  PROVE  Min(T) \in T /\ \A y \in T : Min(T) <= y
<1>1. PICK x \in T : \A y \in T : ~(<<y, x>> \in OpToRel(<, Nat))
  BY NatLessThanWellFounded, WFMin
<1>2. \A y \in T : x <= y
  <2> SUFFICES ASSUME NEW y \in T PROVE x <= y
    OBVIOUS
  <2>1. x \in Nat /\ y \in Nat
    BY <1>1
  <2>2. ~(y < x)
    BY <1>1, <2>1 DEF OpToRel
  <2> QED
    BY <2>1, <2>2
<1> QED
  BY <1>2 DEF Min

Hits(users, account) ==
  {k \in DOMAIN users : IF IsString(account) THEN users[k].userName = AsString(account)
                                             ELSE users[k].userId = AsInt(account)}

LEMMA LookupIsFirst ==
  ASSUME NEW account
  PROVE  Lookup(account) = IF Hits(cachedUsers, account) = {} THEN NoUser
                           ELSE cachedUsers[Min(Hits(cachedUsers, account))]
<1>1. CASE IsString(account)
  BY <1>1 DEF Lookup, FirstCached, Hits
<1>2. CASE ~IsString(account)
  BY <1>2 DEF Lookup, FirstCached, Hits
<1> QED
  BY <1>1, <1>2

(* What the search returns is an account of the table, as it was loaded or *)
(* as it was registered.                                                   *)
LEMMA CachedIsKnown ==
  ASSUME IInv, NEW k \in DOMAIN cachedUsers
  PROVE  cachedUsers[k] \in KnownAccounts
<1>1. PICK r \in table :
        \/ cachedUsers[k] = UserOf(r)
        \/ /\ \E i \in DOMAIN acks : acks[i] = cachedUsers[k]
           /\ WrittenFor(cachedUsers[k], r)
  BY DEF IInv, CacheBacked
<1>2. cachedUsers[k].userId = r.user_id
  BY <1>1 DEF UserOf, WrittenFor
<1>3. cachedUsers[k].userId \in Ids(table)
  BY <1>2 DEF Ids
<1> QED
  BY <1>1, <1>3 DEF KnownAccounts

LEMMA LoginAnswers ==
  ASSUME IInv, NEW q \in LoginRequests, Login(q), LoggedIn'
  PROVE  LET p == reply'.request
         IN  \/ \E u \in KnownAccounts : /\ reply'.userId = u.userId
                                         /\ Asked(p.user, u)
                                         /\ u.passWord = AsString(p.password)
             \/ /\ reply'.userId = 0
                /\ AsString(p.password) = ""
                /\ \A k \in DOMAIN cachedUsers : ~Asked(p.user, cachedUsers[k])
<1> DEFINE user == Lookup(q.user)
<1>1. /\ reply'.userId = user.userId /\ reply'.request = q
      /\ user.passWord = AsString(q.password)
  BY DEF LoggedIn, Login, Answer
<1>2. CASE Hits(cachedUsers, q.user) = {}
  <2>1. user = NoUser
    BY <1>2, LookupIsFirst
  <2>2. user.userId = 0 /\ user.passWord = ""
    <3>1. NoUser.userId = 0 /\ NoUser.passWord = ""
      BY DEF NoUser
    <3> QED
      BY <2>1, <3>1, Zenon
  <2>3. \A k \in DOMAIN cachedUsers : ~Asked(q.user, cachedUsers[k])
    BY <1>2 DEF Hits, Asked
  <2> QED
    BY <1>1, <2>2, <2>3
<1>3. CASE Hits(cachedUsers, q.user) # {}
  <2>1. Hits(cachedUsers, q.user) \in SUBSET Nat
    BY LenProperties DEF Hits, IInv, TypeOK
  <2>2. PICK k \in Hits(cachedUsers, q.user) : user = cachedUsers[k]
    BY <1>3, <2>1, LookupIsFirst, FirstExists
  <2>3. k \in DOMAIN cachedUsers /\ Asked(q.user, cachedUsers[k])
    BY DEF Hits, Asked
  <2>4. user \in KnownAccounts
    BY <2>2, <2>3, CachedIsKnown
  <2> QED
    BY <1>1, <2>2, <2>3, <2>4
<1> QED
  BY <1>2, <1>3

(* RES_LOGIN_SUCCESS is answered to a request that names an account of the *)
(* table and gives its password, with the id of that account, or to one    *)
(* that names no account and gives the empty password, with the id 0.      *)
THEOREM LoginIsTheAccountAskedFor == Spec => LoginIdentity
<1> DEFINE Right ==
      LoggedIn' /\ reply' # reply =>
        LET q == reply'.request
        IN  \/ \E u \in KnownAccounts : /\ reply'.userId = u.userId
                                        /\ Asked(q.user, u)
                                        /\ u.passWord = AsString(q.password)
            \/ /\ reply'.userId = 0
               /\ AsString(q.password) = ""
               /\ \A k \in DOMAIN cachedUsers : ~Asked(q.user, cachedUsers[k])
<1>1. ASSUME IInv, [Next]_vars PROVE [Right]_vars
  <2>1. ASSUME reply' = reply PROVE Right
    BY <2>1
  <2>2. ASSUME reply'.code # "RES_LOGIN_SUCCESS" PROVE Right
    BY <2>2 DEF LoggedIn
  <2> HIDE DEF Right
  <2>3. ASSUME NEW q \in RegisterRequests, HandleRegister(q) PROVE Right
    BY <2>1, <2>2, <2>3 DEF HandleRegister, RegisterRejected, RegisterThrows, Register, RegisterKilled,
                            Die, Answer
  <2>4. ASSUME NEW q \in LoginRequests, HandleLogin(q) PROVE Right
    <3>1. CASE LoginRejected(q) \/ LoginDies(q)
      BY <2>1, <2>2, <3>1 DEF LoginRejected, LoginDies, Die, Answer
    <3>2. CASE Login(q)
      BY <1>1, <3>2, LoginAnswers DEF Right
    <3> QED
      BY <2>4, <3>1, <3>2 DEF HandleLogin
  <2>5. CASE Start \/ Kill
    BY <2>1, <2>5 DEF Start, Kill, Die
  <2>6. CASE UNCHANGED vars
    BY <2>1, <2>6 DEF vars
  <2> QED
    BY <1>1, <2>3, <2>4, <2>5, <2>6 DEF Next
<1> QED
  BY <1>1, IInvInvariant, PTL DEF Spec, LoginIdentity

(* While one process runs, _cachedUsers only grows at the back. *)
LEMMA CacheGrows ==
  ASSUME IInv, [Next]_vars, running, running'
  PROVE  \/ cachedUsers' = cachedUsers
         \/ \E u \in User : cachedUsers' = Append(cachedUsers, u)
<1>1. ASSUME NEW q \in RegisterRequests, HandleRegister(q)
      PROVE  \/ cachedUsers' = cachedUsers
             \/ \E u \in User : cachedUsers' = Append(cachedUsers, u)
  <2>1. CASE Register(q)
    <3>1. NewUser(q) \in User
      BY <2>1, NewTypes DEF Register, IInv
    <3> QED
      BY <2>1, <3>1 DEF Register, Cached
  <2> QED
    BY <1>1, <2>1 DEF HandleRegister, RegisterRejected, RegisterThrows, RegisterKilled, Die
<1>2. ASSUME NEW q \in LoginRequests, HandleLogin(q) PROVE cachedUsers' = cachedUsers
  BY <1>2 DEF HandleLogin, LoginRejected, LoginDies, Login, Die
<1> QED
  BY <1>1, <1>2 DEF Next, Start, Kill, Die, vars

LEMMA HitStays ==
  ASSUME IInv, NEW u \in User, cachedUsers' = Append(cachedUsers, u),
         NEW account, Hits(cachedUsers, account) # {}
  PROVE  /\ Hits(cachedUsers', account) # {}
         /\ cachedUsers'[Min(Hits(cachedUsers', account))] = cachedUsers[Min(Hits(cachedUsers, account))]
<1> DEFINE n == Len(cachedUsers)
           old == Hits(cachedUsers, account)
           new == Hits(cachedUsers', account)
<1>1. /\ n \in Nat /\ DOMAIN cachedUsers = 1..n /\ DOMAIN cachedUsers' = 1..n + 1
      /\ \A k \in 1..n : cachedUsers'[k] = cachedUsers[k]
  BY AppendProperties, LenProperties DEF IInv, TypeOK
<1> HIDE DEF n
<1>2. /\ old \subseteq 1..n /\ new \subseteq 1..n + 1
      /\ old \subseteq new /\ \A k \in new : k \in old \/ k = n + 1
  BY <1>1 DEF Hits
<1>3. old \in SUBSET Nat /\ new \in SUBSET Nat /\ new # {}
  BY <1>1, <1>2
<1> HIDE DEF old, new
<1>4. /\ Min(old) \in old /\ \A y \in old : Min(old) <= y
      /\ Min(new) \in new /\ \A y \in new : Min(new) <= y
  BY <1>3, FirstExists DEF old
<1>5. Min(new) = Min(old)
  <2>1. Min(old) \in 1..n /\ Min(new) \in Nat /\ Min(new) <= Min(old)
    BY <1>2, <1>3, <1>4
  <2>2. Min(new) \in old
    BY <1>1, <1>2, <1>4, <2>1
  <2> QED
    BY <1>3, <1>4, <2>1, <2>2
<1> QED
  BY <1>1, <1>2, <1>3, <1>4, <1>5 DEF old, new

(* A name that finds an account goes on finding that account while the     *)
(* process runs: addUser() appends, and the search starts at the front.    *)
THEOREM NamesAreStable == Spec => NameStable
<1>1. ASSUME IInv, [Next]_vars
      PROVE  [running /\ running' => \A n \in Text :
                LET hit == Lookup([type |-> "string", text |-> n])
                IN  hit # NoUser => hit' = hit]_vars
  <2> SUFFICES ASSUME running, running', NEW n \in Text,
                      Lookup([type |-> "string", text |-> n]) # NoUser
               PROVE  Lookup([type |-> "string", text |-> n])'
                        = Lookup([type |-> "string", text |-> n])
    OBVIOUS
  <2> DEFINE account == [type |-> "string", text |-> n]
  <2>1. Hits(cachedUsers, account) # {}
    BY LookupIsFirst
  <2>2. Lookup(account)' = IF Hits(cachedUsers', account) = {} THEN NoUser
                           ELSE cachedUsers'[Min(Hits(cachedUsers', account))]
    BY DEF Lookup, FirstCached, Hits, IsString, AsString
  <2>3. CASE cachedUsers' = cachedUsers
    BY <2>2, <2>3, LookupIsFirst
  <2>4. ASSUME NEW u \in User, cachedUsers' = Append(cachedUsers, u)
        PROVE  Lookup(account)' = Lookup(account)
    BY <1>1, <2>1, <2>2, <2>4, HitStays, LookupIsFirst
  <2> QED
    BY <1>1, <2>3, <2>4, CacheGrows
<1> QED
  BY <1>1, IInvInvariant, PTL DEF Spec, NameStable
=============================================================================
