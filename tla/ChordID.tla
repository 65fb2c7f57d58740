------------------------------ MODULE ChordID ------------------------------
(***************************************************************************)
(* The arithmetic of the identifier circle (models/models.go, chord/local.go). *)
(* KeyToID reduces a 160 bit SHA-1 value modulo 160, so the circle has 160 *)
(* positions; every decision of the ring maintenance compares positions,   *)
(* never the full identifiers.                                             *)
(***************************************************************************)
EXTENDS Integers

(* The modulus written in KeyToID: big.NewInt(160). *)
RingSize == 160

Positions == 0 .. RingSize - 1

(* Mutant: the walk that may stop at b itself. *)
BetweenClosed(a, x, b) ==
    IF a < b THEN a < x /\ x <= b
             ELSE a < x \/ x <= b

(* The circular test of ClosestPrecedingNode and of SetPredecessor: x lies  *)
(* strictly between a and b when one walks clockwise from a to b.  With     *)
(* a = b the walk goes once around, and only a itself is outside.           *)
Between(a, x, b) ==
    IF a < b THEN a < x /\ x < b
             ELSE a < x \/ x < b

(* The decision of Stabilize, from the positions of this node (n), of its  *)
(* successor (s) and of the predecessor the successor reports (p): TRUE    *)
(* when this node makes p its new successor, FALSE when it tells s that it *)
(* is its predecessor.  The two branches are written differently: without  *)
(* wrap-around p is adopted when n is NOT between p and s, with wrap-around *)
(* it is adopted when n IS between them.                                   *)
Adopts(n, p, s) ==
    IF p < s THEN ~ (p < n /\ n < s)
             ELSE p < n \/ n < s

(* How far one walks clockwise from a to reach b: 1 .. RingSize, a full    *)
(* turn from a position to itself.                                         *)
Gap(a, b) == IF a < b THEN b - a ELSE b - a + RingSize
=============================================================================
