--------------------------- MODULE MCUserManager ---------------------------
(* UserManager for TLC: three names, of which SQL keeps one, respells one  *)
(* and refuses one, with and without the optional keys, and one account in *)
(* the table when the server is installed.                                 *)
EXTENDS UserManager

Null == [type |-> "null"]
Str(x) == [type |-> "string", text |-> x]
Num(n) == [type |-> "int", num |-> n]
Flag(b) == [type |-> "bool", flag |-> b]

MCText == {"", "true", "false", "ann", "o'b", "o''b", "nick", "pw", "root", "on"}
MCSqlText == [x \in MCText |-> CASE x = "o''b" -> {"o'b"} [] x = "o'b" -> {} [] OTHER -> {x}]
MCRegisterRequests == NotAnObject \cup
  [shape : {"object"}, username : {Null, Str("ann"), Str("o'b"), Str("o''b")},
   nickname : {Str("nick")}, nicknime : {Null, Str("nick")},
   password : {Null, Flag(TRUE), Num(7), Str("pw")}]
MCLoginRequests == NotAnObject \cup
  [shape : {"object"}, user : {Str("ann"), Str("o''b"), Str("nick"), Num(10001), Num(10002)},
   password : {Str(""), Str("true"), Str("nick")}, status : {Num(1), Str("on")},
   stastus : {Null, Num(1)}]
MCInitialTable == {[user_id |-> 10001, username |-> "root", nickname |-> "root",
                    password |-> "pw"]}
=============================================================================
