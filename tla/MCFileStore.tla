---------------------------- MODULE MCFileStore ----------------------------
(***************************************************************************)
(* A small directory for TLC: two users, one key, and texts of no, one and *)
(* two whole blocks, so that a header that is one block short swallows a   *)
(* payload whole, a part of one, or runs into its end.                     *)
(***************************************************************************)
EXTENDS FileStore

CONSTANTS u1, u2, k1, d1, d2

OneUser == {u1}
TwoUsers == {u1, u2}
OneKey == {k1}
ThreeTexts == {<<>>, <<d1>>, <<d1, d2>>}
OneText == {<<d1, d2>>}
TwoTexts == {<<d1>>, <<d1, d2>>}
AllClients == {"backup", "share", "sync", "delete"}
SecretClients == {"backup", "share", "delete"}
SharingClients == {"backup", "share"}
=============================================================================
