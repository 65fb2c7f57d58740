----------------------------- MODULE MCUserKeys -----------------------------
(***************************************************************************)
(* A ring of two nodes and one user for TLC: one node has the position of  *)
(* the empty node, which is also that of registrations; requests for keys  *)
(* that either node is responsible for, and ring lookups of one of them.   *)
(***************************************************************************)
EXTENDS UserKeys

CONSTANTS a, b, u

TwoNodes == {a, b}
JoinFirst == {<<b, a>>}
PairColliding == a :> 40 @@ b :> 0
OneUser == {u}
OneKey == {20}
TwoKeys == {20, 60}
=============================================================================
