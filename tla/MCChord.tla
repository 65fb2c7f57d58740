------------------------------ MODULE MCChord ------------------------------
(***************************************************************************)
(* Small rings for TLC: three nodes, the positions of their identifiers in *)
(* every relation to the first node's that matters, and keys between two   *)
(* nodes and on a node's own position.                                     *)
(***************************************************************************)
EXTENDS Chord

CONSTANTS a, b, c

ThreeNodes == {a, b, c}

(* Positions in the order in which the nodes are named. *)
TripleAscending == a :> 40 @@ b :> 80 @@ c :> 120

(* The first node lies between the two others (for a variation, README 3).  *)
TripleFirstInside == a :> 80 @@ b :> 40 @@ c :> 120

(* Two identifiers that KeyToID maps to one position. *)
TripleColliding == a :> 40 @@ b :> 40 @@ c :> 80

(* The peers that command lines name: whoever was there before. *)
PeersBefore == {<<b, a>>, <<c, a>>, <<c, b>>}

(* b is started with the first node, or with c once that is there. *)
PeersThroughLast == {<<b, a>>, <<c, a>>, <<b, c>>}

(* b and c name each other (for a variation). *)
PeersEachOther == {<<b, c>>, <<c, b>>}

NoKeys == {}
OneKey == {60}
TripleKeys == {80, 100}
=============================================================================
