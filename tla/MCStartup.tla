----------------------------- MODULE MCStartup -----------------------------
(* Startup for TLC: the server's database is the first that is listed.     *)
EXTENDS Startup

MCDatabases == <<"IMServer", "mysql", "sys">>
=============================================================================
