---------------------------- MODULE RouteProofs ----------------------------
(***************************************************************************)
(* The walk of a lookup through a ring that stands still (module Chord):   *)
(* it settles after fewer hops than there are nodes, for any finite set of *)
(* nodes, any fingers and any key.                                         *)
(*                                                                         *)
(* The walk is a recursive function, so its values are established by the  *)
(* smallest number for which they would fail.                              *)
(***************************************************************************)
EXTENDS ChordProofs, FiniteSetTheorems, WellFoundedInduction, TLAPS

-----------------------------------------------------------------------------
(* NUMBERS *)

(* A set of numbers has a smallest one. *)
LEMMA SmallestNumber ==
    ASSUME NEW T \in SUBSET Nat, T # {}
    PROVE  \E x \in T : \A y \in T : x <= y
  <1>1. \E x \in T : \A y \in T : ~ (<<y, x>> \in OpToRel(<, Nat))
    BY WFMin, NatLessThanWellFounded, Zenon
  <1>2. \E x \in T : \A y \in T : ~ (y < x)
    BY <1>1, Zenon DEF OpToRel
  <1>3. QED
    BY <1>2

(* Numbers up to N that start in a set, and whose successors up to N are in *)
(* it with them, are all in it.                                             *)
LEMMA UpTo ==
    ASSUME NEW N \in Nat, NEW G, NEW s \in 0 .. N, s \in G,
           \A i \in s .. N - 1 : i \in G => i + 1 \in G
    PROVE  \A i \in s .. N : i \in G
  <1> DEFINE Bad == {i \in s .. N : i \notin G}
  <1>1. SUFFICES ASSUME Bad # {} PROVE FALSE
    OBVIOUS
  <1>2. PICK m \in Bad : \A y \in Bad : m <= y
    <2>1. Bad \in SUBSET Nat
      OBVIOUS
    <2> HIDE DEF Bad
    <2>2. QED
      BY <1>1, <2>1, SmallestNumber
  <1>3. m \in s .. N /\ m \notin G /\ m # s
    OBVIOUS
  <1>4. m - 1 \in s .. N - 1 /\ m - 1 \notin Bad
    <2>1. m - 1 \in s .. N - 1 /\ ~ (m <= m - 1)
      BY <1>3
    <2> HIDE DEF Bad
    <2>2. QED
      BY <1>2, <2>1
  <1>5. m - 1 \in G /\ (m - 1) + 1 = m
    BY <1>3, <1>4
  <1>6. QED
    BY <1>3, <1>4, <1>5

-----------------------------------------------------------------------------
(* THE WALK *)

(* The walk of a lookup of key from node n, N hops long. *)
IsWalk(w, n, key, N) ==
    w = [i \in 0 .. N |-> IF i = 0 THEN n ELSE ClosestPrecedingNode(w[i - 1], key)]

(* Every hop goes to a node. *)
LEMMA HopType ==
    ASSUME TypeOK, NEW n \in Nodes, NEW key
    PROVE  ClosestPrecedingNode(n, key) \in Nodes
  BY DEF TypeOK, Maybe, ClosestPrecedingNode

(* There is such a walk, of any length. *)
LEMMA WalkExists ==
    ASSUME TypeOK, NEW n \in Nodes, NEW key, NEW N \in Nat
    PROVE  \E w \in [0 .. N -> Nodes] : IsWalk(w, n, key, N)
  <1> DEFINE Bad == {m \in Nat : ~ \E w \in [0 .. m -> Nodes] : IsWalk(w, n, key, m)}
  <1>1. SUFFICES ASSUME Bad # {} PROVE FALSE
    BY <1>1
  <1>2. PICK m \in Bad : \A y \in Bad : m <= y
    <2> HIDE DEF Bad
    <2>1. Bad \in SUBSET Nat
      BY DEF Bad
    <2>2. QED
      BY <1>1, <2>1, SmallestNumber
  <1>3. m \in Nat /\ ~ \E w \in [0 .. m -> Nodes] : IsWalk(w, n, key, m)
    OBVIOUS
  <1>4. m # 0
    <2> DEFINE w == [i \in 0 .. 0 |-> n]
    <2>1. w \in [0 .. 0 -> Nodes] /\ IsWalk(w, n, key, 0)
      BY DEF IsWalk
    <2>2. QED
      BY <1>3, <2>1
  <1>5. m - 1 \in Nat /\ m - 1 \notin Bad
    <2>1. m - 1 \in Nat /\ ~ (m <= m - 1)
      BY <1>3, <1>4
    <2> HIDE DEF Bad
    <2>2. QED
      BY <1>2, <2>1
  <1>6. PICK v \in [0 .. m - 1 -> Nodes] : IsWalk(v, n, key, m - 1)
    BY <1>5
  <1> DEFINE w == [i \in 0 .. m |-> IF i = m THEN ClosestPrecedingNode(v[m - 1], key) ELSE v[i]]
  <1>7. w \in [0 .. m -> Nodes]
    <2>1. m - 1 \in 0 .. m - 1 /\ ClosestPrecedingNode(v[m - 1], key) \in Nodes
      BY <1>5, <1>6, HopType
    <2>2. \A i \in 0 .. m : i # m => v[i] \in Nodes
      BY <1>3, <1>6
    <2>3. QED
      BY <2>1, <2>2
  <1>8. ASSUME NEW i \in 0 .. m
        PROVE  w[i] = IF i = 0 THEN n ELSE ClosestPrecedingNode(w[i - 1], key)
    <2>1. \A j \in 0 .. m - 1 : w[j] = v[j] /\ j # m
      BY <1>3
    <2>2. \A j \in 0 .. m - 1 : v[j] = IF j = 0 THEN n ELSE ClosestPrecedingNode(v[j - 1], key)
      BY <1>6 DEF IsWalk
    <2>3. CASE i = m
      <3>1. m - 1 \in 0 .. m - 1
        BY <1>5
      <3>2. QED
        BY <1>4, <2>1, <2>3, <3>1
    <2>4. CASE i # m
      <3>1. i \in 0 .. m - 1 /\ (i # 0 => i - 1 \in 0 .. m - 1)
        BY <1>3, <2>4
      <3>2. QED
        BY <2>1, <2>2, <3>1
    <2>5. QED
      BY <2>3, <2>4
  <1>9. IsWalk(w, n, key, m)
    <2> HIDE DEF w
    <2>1. w = [i \in 0 .. m |-> w[i]]
      BY <1>7
    <2>2. QED
      BY <1>8, <2>1 DEF IsWalk
  <1>10. QED
    BY <1>3, <1>7, <1>9

(* Owner is the end of one. *)
LEMMA OwnerOfWalk ==
    ASSUME TypeOK, NEW n \in Nodes, NEW key, NEW N, N = Cardinality(Nodes)
    PROVE  \E w \in [0 .. N -> Nodes] : IsWalk(w, n, key, N) /\ Owner(n, key) = w[N]
  <1> DEFINE walk == CHOOSE w : IsWalk(w, n, key, N)
  <1>1. Owner(n, key) = walk[N]
    BY DEF Owner, IsWalk
  <1>2. N \in Nat
    BY NodesFinite, FS_CardinalityType
  <1>3. IsWalk(walk, n, key, N)
    BY <1>2, WalkExists
  <1> HIDE DEF walk
  <1>4. DOMAIN walk = 0 .. N /\ walk = [i \in 0 .. N |-> walk[i]]
    BY <1>3 DEF IsWalk
  <1>5. \A i \in 0 .. N : walk[i] = IF i = 0 THEN n ELSE ClosestPrecedingNode(walk[i - 1], key)
    BY <1>3 DEF IsWalk
  <1> DEFINE G == {i \in Nat : walk[i] \in Nodes}
  <1>6. \A i \in 0 .. N : i \in G
    <2>1. 0 \in 0 .. N /\ 0 \in G
      BY <1>2, <1>5
    <2>2. \A i \in 0 .. N - 1 : i \in G => i + 1 \in G
      <3>1. TAKE i \in 0 .. N - 1
      <3>2. i + 1 \in 0 .. N /\ i + 1 # 0 /\ (i + 1) - 1 = i /\ i + 1 \in Nat
        BY <1>2
      <3>3. walk[i + 1] = ClosestPrecedingNode(walk[i], key)
        BY <1>5, <3>2
      <3>4. QED
        BY <3>2, <3>3, HopType
    <2> HIDE DEF G
    <2>3. QED
      BY <1>2, <2>1, <2>2, UpTo
  <1>7. walk \in [0 .. N -> Nodes]
    BY <1>4, <1>6
  <1>8. QED
    BY <1>1, <1>3, <1>7

-----------------------------------------------------------------------------
(* IT SETTLES *)

(* Distances are numbers. *)
LEMMA GapType ==
    ASSUME NEW x \in Positions, NEW y \in Positions
    PROVE  Gap(x, y) \in Int
  BY DEF Positions, RingSize, Gap

(* A hop that is taken leads closer to the key, and a node without one is   *)
(* the end.                                                                 *)
LEMMA HopIsCloser ==
    ASSUME TypeOK, NEW n \in Nodes, NEW key \in Positions
    PROVE  \/ /\ finger[n] # NoNode /\ Between(ID(n), ID(finger[n]), key)
              /\ Gap(ID(ClosestPrecedingNode(n, key)), key) < Gap(ID(n), key)
           \/ /\ finger[n] = NoNode \/ ~ Between(ID(n), ID(finger[n]), key)
              /\ ClosestPrecedingNode(n, key) = n
  <1>1. finger[n] \in Maybe /\ n \in Maybe
    BY DEF TypeOK, Maybe
  <1>2. ID(n) \in Positions /\ ID(finger[n]) \in Positions
    BY <1>1, IDType
  <1>3. QED
    BY <1>2, BetweenIsCloser DEF ClosestPrecedingNode

(* While a walk goes on no two of its nodes are at the same distance from   *)
(* the key, so there is an end to it among as many hops as there are nodes. *)
LEMMA WalkSettles ==
    ASSUME TypeOK, NEW n \in Nodes, NEW key \in Positions, NEW N, N = Cardinality(Nodes),
           NEW w \in [0 .. N -> Nodes], IsWalk(w, n, key, N)
    PROVE  ClosestPrecedingNode(w[N], key) = w[N]
  <1>1. N \in Nat
    BY NodesFinite, FS_CardinalityType
  <1>2. \A i \in 0 .. N : i # 0 => w[i] = ClosestPrecedingNode(w[i - 1], key)
    BY DEF IsWalk
  <1> DEFINE G(i) == Gap(ID(w[i]), key)
             Moves(i) == ClosestPrecedingNode(w[i], key) # w[i]
  <1>3. ASSUME NEW i \in 0 .. N PROVE w[i] \in Nodes /\ G(i) \in Int
    <2>1. ID(w[i]) \in Positions
      BY IDType DEF Maybe
    <2>2. QED
      BY <2>1, GapType
  <1>4. SUFFICES ASSUME Moves(N) PROVE FALSE
    OBVIOUS
  <1>5. ASSUME NEW i \in 0 .. N - 1
        PROVE  /\ i \in 0 .. N /\ i + 1 \in 0 .. N
               /\ w[i + 1] = ClosestPrecedingNode(w[i], key)
    <2>1. i \in 0 .. N /\ i + 1 \in 0 .. N /\ i + 1 # 0 /\ (i + 1) - 1 = i
      BY <1>1
    <2>2. QED
      BY <1>2, <2>1
  <1>6. ASSUME NEW i \in 0 .. N PROVE Moves(i)
    <2>1. SUFFICES ASSUME ~ Moves(i) PROVE FALSE
      OBVIOUS
    <2> DEFINE Still == {j \in Nat : ~ Moves(j)}
    <2>2. i \in Still
      BY <1>1, <2>1
    <2>3. \A j \in i .. N - 1 : j \in Still => j + 1 \in Still
      <3>1. SUFFICES ASSUME NEW j \in i .. N - 1, ~ Moves(j) PROVE ~ Moves(j + 1) /\ j + 1 \in Nat
        OBVIOUS
      <3>2. j \in 0 .. N - 1 /\ j + 1 \in Nat
        BY <1>1
      <3>3. w[j + 1] = w[j]
        BY <1>5, <3>1, <3>2
      <3>4. QED
        BY <3>1, <3>2, <3>3
    <2>4. N \in i .. N
      BY <1>1
    <2> HIDE DEF Still
    <2>5. N \in Still
      BY <1>1, <2>2, <2>3, <2>4, UpTo
    <2>6. QED
      BY <1>4, <2>5 DEF Still
  <1>7. ASSUME NEW i \in 0 .. N - 1 PROVE G(i + 1) < G(i)
    BY <1>3, <1>5, <1>6, HopIsCloser
  <1>8. ASSUME NEW i \in 0 .. N, NEW j \in 0 .. N, i < j PROVE G(j) < G(i)
    <2> DEFINE Below == {x \in Nat : G(x) < G(i)}
    <2>1. i + 1 \in 0 .. N /\ i \in 0 .. N - 1 /\ j \in i + 1 .. N
      BY <1>1, <1>8
    <2>2. i + 1 \in Below
      BY <1>7, <2>1
    <2>3. \A x \in i + 1 .. N - 1 : x \in Below => x + 1 \in Below
      <3>1. TAKE x \in i + 1 .. N - 1
      <3>2. x \in 0 .. N - 1 /\ x \in 0 .. N /\ x + 1 \in 0 .. N /\ x + 1 \in Nat
        BY <1>1
      <3>3. G(x) \in Int /\ G(x + 1) \in Int /\ G(i) \in Int /\ G(x + 1) < G(x)
        BY <1>3, <1>7, <3>2
      <3> HIDE DEF G
      <3>4. QED
        BY <3>2, <3>3
    <2> HIDE DEF Below
    <2>4. j \in Below
      BY <1>1, <2>1, <2>2, <2>3, UpTo
    <2>5. QED
      BY <2>4 DEF Below
  <1>9. ASSUME NEW i \in 0 .. N, NEW j \in 0 .. N, i # j PROVE w[i] # w[j]
    <2>1. i < j \/ j < i
      BY <1>9
    <2>2. G(i) # G(j)
      <3>1. G(i) \in Int /\ G(j) \in Int
        BY <1>3
      <3> HIDE DEF G
      <3>2. QED
        BY <1>8, <2>1, <3>1
    <2>3. QED
      BY <2>2
  <1>10. IsFiniteSet(0 .. N) /\ Cardinality(0 .. N) = N + 1 /\ N < N + 1
    <2>1. 0 \in Int /\ N \in Int
      BY <1>1
    <2>2. /\ IsFiniteSet(0 .. N)
          /\ Cardinality(0 .. N) = IF 0 > N THEN 0 ELSE N - 0 + 1
      BY <2>1, FS_Interval, Zenon
    <2>3. QED
      BY <1>1, <2>2
  <1>11. \E i, j \in 0 .. N : i # j /\ w[i] = w[j]
    <2>1. Cardinality(Nodes) < Cardinality(0 .. N)
      BY <1>1, <1>10
    <2>2. QED
      BY <1>10, <2>1, NodesFinite, FS_PigeonHole, Zenon
  <1>12. QED
    BY <1>9, <1>11

(* The state of the fingers never matters: types are enough. *)
LEMMA RoutesAlwaysSettle == TypeOK => RoutesSettle
  <1> SUFFICES ASSUME TypeOK, NEW n \in Serving,
                      NEW k \in Keys \cup {ID(m) : m \in Nodes}
               PROVE  LET o == Owner(n, k)
                      IN  finger[o] = NoNode \/ ~ Between(ID(o), ID(finger[o]), k)
    BY DEF RoutesSettle
  <1> DEFINE N == Cardinality(Nodes)
  <1>1. n \in Nodes /\ k \in Positions
    BY NodesAssumption, IDType DEF Serving, Maybe
  <1>2. PICK w \in [0 .. N -> Nodes] : IsWalk(w, n, k, N) /\ Owner(n, k) = w[N]
    BY <1>1, OwnerOfWalk
  <1>3. N \in 0 .. N
    BY NodesFinite, FS_CardinalityType
  <1>4. ClosestPrecedingNode(w[N], k) = w[N]
    BY <1>1, <1>2, WalkSettles
  <1>5. w[N] \in Nodes
    BY <1>3
  <1>6. ID(w[N]) \in Positions
    BY <1>5, IDType DEF Maybe
  <1>7. Gap(ID(w[N]), k) \in Int
    BY <1>1, <1>6, GapType
  <1>8. finger[w[N]] = NoNode \/ ~ Between(ID(w[N]), ID(finger[w[N]]), k)
    BY <1>1, <1>4, <1>5, <1>7, HopIsCloser
  <1>9. QED
    BY <1>2, <1>8

(* However wrong the fingers are, the walk of Successor ends with a node    *)
(* that finds none closer to the key, after fewer hops than there are nodes *)
(* (chord/local.go:360-389).                                                *)
THEOREM LookupsSettle == Spec => []RoutesSettle
  BY TypeCorrect, RoutesAlwaysSettle, PTL
=============================================================================
