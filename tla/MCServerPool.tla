---------------------------- MODULE MCServerPool ----------------------------
(***************************************************************************)
(* Two clients against three workers and a channel for one connection,     *)
(* where the pool can be exhausted and a shutdown can come at any time; and *)
(* one client against three, the smallest pool that is large enough: one   *)
(* for its connection, one for the connection a registration keeps open,   *)
(* one for the server's calls to itself.                                   *)
(***************************************************************************)
EXTENDS ServerPool

CONSTANTS u1, u2

OneUser == {u1}
TwoUsers == {u1, u2}
AllRequests == {"user", "register"}
=============================================================================
