---------------------------- MODULE ChordProofs ----------------------------
(***************************************************************************)
(* What holds of the ring maintenance for every set of nodes, every        *)
(* assignment of positions (collisions and position zero included), every  *)
(* set of keys and any number of crashes.                                  *)
(***************************************************************************)
EXTENDS Chord, TLAPS

(* The steps of the ring, with lookups of any position: the lemmas hold for *)
(* every use of the ring, whatever its clients look up.                     *)
AnyNext ==
    \/ BootFirst
    \/ \E n, p \in Nodes : Join(n, p)
    \/ \E n \in Nodes : Thread(n)
    \/ \E n \in Nodes, k \in Positions : Ask(n, k)
    \/ QueryForward \/ QueryAnswered
    \/ \E n \in Nodes : Crash(n) \/ RegistrationFails(n)

(* The ring of module Chord is one. *)
LEMMA NextIsAny == [Next]_vars => [AnyNext]_vars
  BY NodesAssumption DEF Next, AnyNext

-----------------------------------------------------------------------------
(* The circle. *)

(* The code's interval test says that x is closer to b than a is: the order *)
(* that makes lookups descend and predecessors improve.                     *)
LEMMA BetweenIsCloser ==
    ASSUME NEW x \in Positions, NEW y \in Positions, NEW z \in Positions
    PROVE  Between(x, y, z) <=> Gap(y, z) < Gap(x, z)
  BY DEF Positions, RingSize, Between, Gap

(* The interval excludes its right end. *)
LEMMA BetweenExcludesEnd ==
    ASSUME NEW x \in Positions, NEW y \in Positions
    PROVE  ~ Between(x, y, y)
  BY DEF Positions, RingSize, Between

(* Every node, the empty one included, has a position. *)
LEMMA IDType ==
    ASSUME NEW n \in Maybe
    PROVE  ID(n) \in Positions
  BY NodesAssumption DEF Maybe, ID, Positions, RingSize

-----------------------------------------------------------------------------
(* The last node of a call chain that is not empty. *)
LEMMA LastType ==
    ASSUME NEW s \in Seq(Nodes), s # <<>>
    PROVE  /\ Len(s) \in Nat \ {0}
           /\ Last(s) \in Nodes
           /\ Last(s) = s[Len(s)]
  BY DEF Last

(* What a chain is after one more call: its length, its nodes, its end. *)
LEMMA AppendFacts ==
    ASSUME NEW s \in Seq(Nodes), NEW x \in Nodes
    PROVE  /\ Append(s, x) \in Seq(Nodes)
           /\ Append(s, x) # <<>>
           /\ Len(Append(s, x)) = Len(s) + 1
           /\ Append(s, x)[Len(s) + 1] = x
           /\ \A i \in 1 .. Len(s) : Append(s, x)[i] = s[i]
  OBVIOUS

(* The node a thread's lookup has reached, and the node it goes to next. *)
LEMMA WalkType ==
    ASSUME TypeOK, NEW n \in Nodes, pc[n] = "lookup"
    PROVE  /\ path[n] \in Seq(Nodes)
           /\ path[n] # <<>>
           /\ At(n) \in Nodes
           /\ NextHop(n) \in Nodes
           /\ NextHop(n) # At(n) => Between(ID(At(n)), ID(NextHop(n)), ID(n))
  <1>1. path[n] \in Seq(Nodes) /\ path[n] # <<>>
    BY DEF TypeOK
  <1>2. At(n) \in Nodes
    BY <1>1, LastType DEF At
  <1>3. finger[At(n)] \in Maybe
    BY <1>2 DEF TypeOK
  <1> QED
    BY <1>1, <1>2, <1>3 DEF NextHop, ClosestPrecedingNode, Maybe

-----------------------------------------------------------------------------
(* Type correctness. *)

(* The initial state is of the declared types. *)
LEMMA TypeInit == Init => TypeOK
  BY NodesAssumption DEF Init, TypeOK, Maybe, Positions, RingSize

(* Each step of a maintenance thread keeps the types and the agreement of a *)
(* program counter with the local state it speaks of.                       *)
LEMMA TypeThread ==
    ASSUME TypeOK, NEW n \in Nodes, Thread(n)
    PROVE  TypeOK'
  <1> USE NodesAssumption DEF Maybe
  <1>0. CASE Registered(n)
    <2>1. target[n] \in Nodes
      BY <1>0 DEF TypeOK, Registered, Reach
    <2>2. <<target[n]>> \in Seq(Nodes) /\ <<target[n]>> # <<>>
      BY <2>1
    <2> QED
      BY <1>0, <2>2 DEF TypeOK, Registered
  <1>1. CASE StartStabilize(n)
    BY <1>1 DEF TypeOK, StartStabilize, ring
  <1>2. CASE LookupForward(n)
    <2>1. NextHop(n) \in Nodes /\ path[n] \in Seq(Nodes)
      BY <1>2, WalkType DEF LookupForward, Walking
    <2>2. Append(path[n], NextHop(n)) \in Seq(Nodes) /\ Append(path[n], NextHop(n)) # <<>>
      BY <2>1, AppendFacts
    <2> QED
      BY <1>2, <2>1, <2>2 DEF TypeOK, LookupForward, Walking, ring
  <1>3. CASE LookupDialFails(n)
    BY <1>3 DEF TypeOK, LookupDialFails, EndRound, Walking
  <1>4. CASE JoinAnswered(n)
    <2>1. At(n) \in Nodes
      BY <1>4, WalkType DEF JoinAnswered, Walking
    <2> QED
      BY <1>4, <2>1 DEF TypeOK, JoinAnswered, Proceed, Walking
  <1>5. CASE StabilizeAnswered(n)
    <2>1. At(n) \in Nodes
      BY <1>5, WalkType DEF StabilizeAnswered, Walking
    <2> QED
      BY <1>5, <2>1 DEF TypeOK, StabilizeAnswered, Proceed, Walking
  <1>6. CASE StabilizeAlone(n)
    <2>1. CASE EndRound(n)
      BY <1>6, <2>1 DEF TypeOK, StabilizeAlone, EndRound, Walking
    <2>2. CASE Proceed(n, "chase", predecessor[n]) /\ UNCHANGED seen
      BY <1>6, <2>2 DEF TypeOK, StabilizeAlone, Proceed, Walking
    <2> QED
      BY <1>6, <2>1, <2>2 DEF StabilizeAlone
  <1>7. CASE Chase(n)
    <2>1. target[n] \in Nodes
      BY <1>7 DEF TypeOK, Chase, Reach
    <2>2. CASE Proceed(n, "close", target[n])
      BY <1>7, <2>1, <2>2 DEF TypeOK, Chase, Proceed
    <2>3. CASE Proceed(n, "chase", predecessor[target[n]])
      BY <1>7, <2>1, <2>3 DEF TypeOK, Chase, Proceed
    <2> QED
      BY <1>7, <2>2, <2>3 DEF Chase
  <1>8. CASE CloseRing(n)
    BY <1>8 DEF TypeOK, CloseRing, Proceed
  <1>9. CASE AskPredecessor(n)
    <2>1. target[n] \in Nodes
      BY <1>9 DEF TypeOK, AskPredecessor, Reach
    <2> QED
      BY <1>9, <2>1 DEF TypeOK, AskPredecessor, Proceed
  <1>10. CASE StillPredecessor(n)
    BY <1>10 DEF TypeOK, StillPredecessor, EndRound
  <1>11. CASE AdoptSeen(n)
    BY <1>11 DEF TypeOK, AdoptSeen, Proceed
  <1>12. CASE KeepSuccessor(n)
    BY <1>12 DEF TypeOK, KeepSuccessor, Proceed
  <1>13. CASE Notify(n)
    <2>1. target[n] \in Nodes /\ status[target[n]] = "up"
      BY <1>13 DEF TypeOK, Notify, Reach
    <2> QED
      BY <1>13, <2>1 DEF TypeOK, Notify, EndRound
  <1>14. CASE CallFails(n)
    BY <1>14 DEF TypeOK, CallFails, EndRound
  <1> QED
    BY <1>0, <1>1, <1>2, <1>3, <1>4, <1>5, <1>6, <1>7, <1>8, <1>9, <1>10, <1>11, <1>12,
       <1>13, <1>14 DEF Thread, Maintenance

(* A client's lookup keeps its type as it is asked, forwarded and answered. *)
LEMMA TypeQuery ==
    ASSUME TypeOK,
           (\E n \in Nodes, k \in Positions : Ask(n, k)) \/ QueryForward \/ QueryAnswered
    PROVE  TypeOK'
  <1> USE NodesAssumption DEF Maybe
  <1>1. UNCHANGED <<ring, thread, crashes>>
    BY DEF Ask, QueryForward, QueryAnswered
  <1>2. query' \in [key : Positions, path : Seq(Nodes)]
    <2>1. CASE \E n \in Nodes, k \in Positions : Ask(n, k)
      BY <2>1 DEF Ask
    <2>2. CASE QueryForward
      <3>1. query.path \in Seq(Nodes) /\ query.path # <<>> /\ query.key \in Positions
        BY <2>2 DEF TypeOK, QueryForward
      <3>2. QueryAt \in Nodes
        BY <3>1, LastType DEF QueryAt
      <3>3. QueryHop \in Nodes
        BY <3>2 DEF TypeOK, QueryHop, ClosestPrecedingNode
      <3>4. Append(query.path, QueryHop) \in Seq(Nodes)
        BY <3>1, <3>3, AppendFacts
      <3> QED
        BY <2>2, <3>1, <3>4 DEF TypeOK, QueryForward
    <2>3. CASE QueryAnswered
      BY <2>3 DEF QueryAnswered, Positions, RingSize
    <2> QED
      BY <2>1, <2>2, <2>3
  <1> QED
    BY <1>1, <1>2 DEF TypeOK, ring, thread

(* A node stops in a crash, which counts, or when it cannot register. *)
LEMMA StopFacts ==
    ASSUME TypeOK, NEW n \in Nodes, Crash(n) \/ RegistrationFails(n)
    PROVE  Stop(n) /\ crashes' \in 0 .. MaxCrashes
  BY NodesAssumption DEF TypeOK, Crash, RegistrationFails

(* A stop cuts the calls nested through the node and keeps the types.       *)
LEMMA TypeStop ==
    ASSUME TypeOK, NEW n \in Nodes, Crash(n) \/ RegistrationFails(n)
    PROVE  TypeOK'
  <1> USE NodesAssumption DEF Maybe
  <1>0. Stop(n) /\ crashes' \in 0 .. MaxCrashes
    BY StopFacts
  <1>1. Nested(n) \subseteq Nodes \ {n}
    BY DEF Nested
  <1>2. \A m \in Nested(n) : path[m] # <<>>
    BY DEF Nested, ToSet
  <1>3. query' \in [key : Positions, path : Seq(Nodes)]
    BY <1>0 DEF TypeOK, Stop, Positions, RingSize
  <1>4. /\ status' \in [Nodes -> {"down", "starting", "up"}]
        /\ finger' \in [Nodes -> Maybe]
        /\ predecessor' \in [Nodes -> Maybe]
        /\ target' \in [Nodes -> Maybe]
        /\ seen' \in [Nodes -> Maybe]
    BY <1>0 DEF TypeOK, Stop
  <1>5. pc' \in [Nodes -> {"idle", "register", "lookup", "ask", "decide", "chase", "close", "notify"}]
    BY <1>0 DEF TypeOK, Stop
  <1>6. path' \in [Nodes -> Seq(Nodes)]
    BY <1>0 DEF TypeOK, Stop
  <1>8. ASSUME NEW m \in Nodes
        PROVE  /\ pc'[m] = "lookup" <=> path'[m] # <<>>
               /\ pc'[m] \in {"idle", "lookup"} => target'[m] = NoNode
               /\ pc'[m] \in {"idle", "register", "lookup"} => seen'[m] = NoNode
               /\ status'[m] = "down" => pc'[m] = "idle"
               /\ status'[m] = "starting" => pc'[m] \in {"register", "lookup", "notify"}
               /\ pc'[m] = "register" => status'[m] = "starting"
               /\ status'[m] = "down" \/ pc'[m] = "register" =>
                    finger'[m] = NoNode /\ predecessor'[m] = NoNode
    <2>1. CASE m = n
      BY <1>0, <2>1 DEF TypeOK, Stop
    <2>2. CASE m \in Nested(n)
      <3>1. m # n /\ pc[m] = "lookup"
        BY <1>1, <1>2, <2>2 DEF TypeOK
      <3>2. pc'[m] = "idle" /\ path'[m] = <<>> /\ status'[m] = "up"
        BY <1>1, <2>2, <1>0, <3>1 DEF TypeOK, Stop
      <3>3. target'[m] = target[m] /\ seen'[m] = seen[m]
        BY <1>0, <3>1 DEF TypeOK, Stop
      <3> QED
        BY <3>1, <3>2, <3>3 DEF TypeOK
    <2>3. CASE m \notin Nested(n) \cup {n}
      BY <1>0, <2>3 DEF TypeOK, Stop
    <2> QED
      BY <2>1, <2>2, <2>3
  <1> QED
    BY <1>0, <1>3, <1>4, <1>5, <1>6, <1>8 DEF TypeOK

(* The types are kept by every step of the system. *)
LEMMA TypeNext == TypeOK /\ [AnyNext]_vars => TypeOK'
  <1> SUFFICES ASSUME TypeOK, [AnyNext]_vars PROVE TypeOK'
    OBVIOUS
  <1> USE NodesAssumption DEF Maybe
  <1>1. CASE BootFirst
    BY <1>1 DEF TypeOK, BootFirst, thread
  <1>2. ASSUME NEW n \in Nodes, NEW p \in Nodes, Join(n, p) PROVE TypeOK'
    BY <1>2 DEF TypeOK, Join
  <1>3. CASE \E n \in Nodes : Thread(n)
    BY <1>3, TypeThread
  <1>4. CASE (\E n \in Nodes, k \in Positions : Ask(n, k)) \/ QueryForward \/ QueryAnswered
    BY <1>4, TypeQuery
  <1>5. CASE \E n \in Nodes : Crash(n) \/ RegistrationFails(n)
    BY <1>5, TypeStop
  <1>6. CASE UNCHANGED vars
    BY <1>6 DEF TypeOK, vars
  <1> QED
    BY <1>1, <1>2, <1>3, <1>4, <1>5, <1>6 DEF AnyNext

(* Every state of the ring maintenance is of the declared types. *)
THEOREM TypeCorrect == Spec => []TypeOK
  BY TypeInit, TypeNext, NextIsAny, PTL DEF Spec

-----------------------------------------------------------------------------
(* No call chain turns back. *)

(* A chain extended by a node that is closer to the key still descends. *)
LEMMA DescendsAppend ==
    ASSUME NEW s \in Seq(Nodes), s # <<>>, NEW x \in Nodes, NEW k \in Positions,
           Descends(s, k), Between(ID(Last(s)), ID(x), k)
    PROVE  Descends(Append(s, x), k)
  <1>1. Len(s) \in Nat \ {0} /\ Last(s) \in Nodes /\ Last(s) = s[Len(s)]
    BY LastType
  <1>2. /\ Len(Append(s, x)) = Len(s) + 1
        /\ Append(s, x)[Len(s) + 1] = x
        /\ \A i \in 1 .. Len(s) : Append(s, x)[i] = s[i]
    BY AppendFacts
  <1>3. Gap(ID(x), k) < Gap(ID(s[Len(s)]), k)
    BY <1>1, IDType, BetweenIsCloser DEF Maybe
  <1> SUFFICES ASSUME NEW i \in 1 .. Len(s)
               PROVE  Gap(ID(Append(s, x)[i + 1]), k) < Gap(ID(Append(s, x)[i]), k)
    BY <1>1, <1>2 DEF Descends
  <1>4. CASE i = Len(s)
    BY <1>1, <1>2, <1>3, <1>4
  <1>5. CASE i # Len(s)
    <2>1. i \in 1 .. Len(s) - 1 /\ i + 1 \in 1 .. Len(s)
      BY <1>1, <1>5
    <2> QED
      BY <1>2, <2>1 DEF Descends
  <1> QED
    BY <1>4, <1>5

(* Chains of no or one node descend. *)
LEMMA DescendsShort ==
    ASSUME NEW k \in Positions
    PROVE  /\ Descends(<<>>, k)
           /\ \A x \in Nodes : Descends(<<x>>, k)
  BY DEF Descends

(* The key of a query that nobody asks is a position. *)
LEMMA ZeroPosition == 0 \in Positions
  BY DEF Positions, RingSize

(* No call is made in the initial state. *)
LEMMA DescendsInit == Init => LookupDescends
  <1> SUFFICES ASSUME Init PROVE LookupDescends
    OBVIOUS
  <1>1. \A n \in Nodes : path[n] = <<>> /\ ID(n) \in Positions
    BY IDType DEF Init, Maybe
  <1>2. query.path = <<>> /\ query.key = 0
    BY DEF Init
  <1>3. \A k \in Positions : Descends(<<>>, k)
    BY DescendsShort
  <1> QED
    BY <1>1, <1>2, <1>3, ZeroPosition DEF LookupDescends

(* Every step of a maintenance thread extends its own chain by a closer     *)
(* node, starts a chain, drops it or leaves it alone.                       *)
LEMMA DescendsThread ==
    ASSUME TypeOK, LookupDescends, NEW n \in Nodes, Thread(n)
    PROVE  LookupDescends'
  <1>1. ID(n) \in Positions
    BY IDType DEF Maybe
  <1>2. path \in [Nodes -> Seq(Nodes)] /\ query' = query
    BY DEF TypeOK, Thread, Maintenance, Registered, StartStabilize, LookupForward, LookupDialFails, JoinAnswered,
       StabilizeAnswered, StabilizeAlone, Chase, CloseRing, AskPredecessor,
       StillPredecessor, AdoptSeen, KeepSuccessor, Notify, CallFails
  <1>3. \E s \in Seq(Nodes) : path' = [path EXCEPT ![n] = s] /\ Descends(s, ID(n))
    <2>0. CASE Registered(n)
      <3>1. target[n] \in Nodes
        BY <2>0, NodesAssumption DEF TypeOK, Registered, Reach, Maybe
      <3>2. <<target[n]>> \in Seq(Nodes) /\ path' = [path EXCEPT ![n] = <<target[n]>>]
        BY <2>0, <3>1 DEF Registered
      <3> QED
        BY <1>1, <3>1, <3>2, DescendsShort
    <2>1. CASE StartStabilize(n)
      <3>1. <<n>> \in Seq(Nodes) /\ path' = [path EXCEPT ![n] = <<n>>]
        BY <2>1 DEF StartStabilize
      <3> QED
        BY <1>1, <3>1, DescendsShort
    <2>2. CASE LookupForward(n)
      <3>1. /\ path[n] \in Seq(Nodes) /\ path[n] # <<>> /\ NextHop(n) \in Nodes
            /\ Between(ID(Last(path[n])), ID(NextHop(n)), ID(n))
        BY <2>2, WalkType DEF LookupForward, Walking, At
      <3>2. Descends(Append(path[n], NextHop(n)), ID(n))
        BY <1>1, <3>1, DescendsAppend DEF LookupDescends
      <3>3. path' = [path EXCEPT ![n] = Append(path[n], NextHop(n))]
        BY <2>2 DEF LookupForward
      <3> QED
        BY <3>1, <3>2, <3>3, AppendFacts
    <2>3. CASE ~ Registered(n) /\ ~ StartStabilize(n) /\ ~ LookupForward(n)
      <3>1. path' = [path EXCEPT ![n] = <<>>]
        BY <2>3 DEF Thread, Maintenance, LookupDialFails, JoinAnswered, StabilizeAnswered, StabilizeAlone,
           Chase, CloseRing, AskPredecessor, StillPredecessor, AdoptSeen, KeepSuccessor,
           Notify, CallFails, EndRound, Proceed
      <3>2. <<>> \in Seq(Nodes) /\ Descends(<<>>, ID(n))
        BY <1>1, DescendsShort
      <3> QED
        BY <3>1, <3>2
    <2> QED
      BY <2>0, <2>1, <2>2, <2>3
  <1> QED
    BY <1>2, <1>3 DEF LookupDescends, Descends, ID

(* No step of the system makes a call chain climb. *)
LEMMA DescendsNext == TypeOK /\ LookupDescends /\ [AnyNext]_vars => LookupDescends'
  <1> SUFFICES ASSUME TypeOK, LookupDescends, [AnyNext]_vars PROVE LookupDescends'
    OBVIOUS
  <1> USE NodesAssumption
  <1>0. \A m \in Nodes : ID(m) \in Positions
    BY IDType DEF Maybe
  <1>1. CASE BootFirst
    BY <1>1 DEF LookupDescends, Descends, ID, BootFirst, thread
  <1>2. ASSUME NEW n \in Nodes, NEW p \in Nodes, Join(n, p) PROVE LookupDescends'
    BY <1>2 DEF LookupDescends, Descends, ID, Join
  <1>3. CASE \E n \in Nodes : Thread(n)
    BY <1>3, DescendsThread
  <1>4. ASSUME NEW n \in Nodes, NEW k \in Positions, Ask(n, k) PROVE LookupDescends'
    <2>1. query'.path = <<n>> /\ query'.key = k /\ path' = path
      BY <1>4 DEF Ask, thread
    <2>2. Descends(<<n>>, k)
      BY DescendsShort
    <2> QED
      BY <2>1, <2>2 DEF LookupDescends, Descends, ID
  <1>5. CASE QueryForward
    <2>1. query.path \in Seq(Nodes) /\ query.path # <<>> /\ query.key \in Positions
      BY <1>5 DEF TypeOK, QueryForward
    <2>2. QueryAt \in Nodes /\ QueryHop # QueryAt
      BY <1>5, <2>1, LastType DEF QueryAt, QueryForward
    <2>3. QueryHop \in Nodes /\ Between(ID(Last(query.path)), ID(QueryHop), query.key)
      BY <2>2 DEF TypeOK, QueryHop, QueryAt, ClosestPrecedingNode, Maybe
    <2>4. Descends(Append(query.path, QueryHop), query.key)
      BY <2>1, <2>3, DescendsAppend DEF LookupDescends
    <2>5. query'.path = Append(query.path, QueryHop) /\ query'.key = query.key /\ path' = path
      BY <1>5 DEF TypeOK, QueryForward, thread
    <2> QED
      BY <2>4, <2>5 DEF LookupDescends, Descends, ID
  <1>6. CASE QueryAnswered
    <2>1. query'.path = <<>> /\ query'.key = 0 /\ path' = path
      BY <1>6 DEF QueryAnswered, thread
    <2>2. Descends(<<>>, 0)
      BY DescendsShort, ZeroPosition
    <2> QED
      BY <2>1, <2>2 DEF LookupDescends, Descends, ID
  <1>7. ASSUME NEW n \in Nodes, Crash(n) \/ RegistrationFails(n) PROVE LookupDescends'
    <2>0. Stop(n)
      BY <1>7, StopFacts
    <2>1. \A m \in Nodes : path'[m] = path[m] \/ path'[m] = <<>>
      BY <2>0 DEF Stop
    <2>2. query' = query \/ (query'.path = <<>> /\ query'.key = 0)
      BY <2>0 DEF Stop
    <2>3. \A k \in Positions : Descends(<<>>, k)
      BY DescendsShort
    <2>4. \A m \in Nodes : Descends(path'[m], ID(m))
      BY <1>0, <2>1, <2>3 DEF LookupDescends
    <2>5. Descends(query'.path, query'.key)
      BY <2>2, <2>3, ZeroPosition DEF LookupDescends
    <2> QED
      BY <2>4, <2>5 DEF LookupDescends, Descends, ID
  <1>8. CASE UNCHANGED vars
    BY <1>8 DEF LookupDescends, Descends, ID, vars
  <1> QED
    BY <1>1, <1>2, <1>3, <1>4, <1>5, <1>6, <1>7, <1>8 DEF AnyNext

(* On every call chain of every behaviour each node is closer to the        *)
(* position looked for than its caller.                                     *)
THEOREM LookupsDescend == Spec => []LookupDescends
  BY DescendsInit, DescendsNext, NextIsAny, TypeCorrect, PTL DEF Spec

-----------------------------------------------------------------------------
(* Initially no node has a predecessor and no thread is under way. *)
LEMMA NoSelfInit == Init => NoSelfInvariant
  BY NodesAssumption DEF Init, NoSelfInvariant

(* The steps that announce a node do so to another node, and only such an   *)
(* announcement writes a predecessor.                                       *)
LEMMA NoSelfThread ==
    ASSUME TypeOK, NoSelfInvariant, NEW n \in Nodes, Thread(n)
    PROVE  NoSelfInvariant'
  <1> USE NodesAssumption DEF Maybe
  <1>0. CASE Registered(n)
    <2>1. target[n] \in Nodes /\ target[n] # n
      BY <1>0 DEF TypeOK, Registered, Reach
    <2>2. n \notin ToSet(<<target[n]>>)
      BY <2>1 DEF ToSet
    <2> QED
      BY <1>0, <2>2 DEF TypeOK, NoSelfInvariant, Registered
  <1>1. CASE StartStabilize(n)
    BY <1>1 DEF TypeOK, NoSelfInvariant, StartStabilize, ring
  <1>2. CASE LookupForward(n)
    <2>1. /\ path[n] \in Seq(Nodes) /\ NextHop(n) \in Nodes /\ At(n) \in Nodes
          /\ Between(ID(At(n)), ID(NextHop(n)), ID(n))
      BY <1>2, WalkType DEF LookupForward, Walking
    <2>2. NextHop(n) # n
      BY <2>1, IDType, BetweenExcludesEnd
    <2>3. status[n] = "starting" => n \notin ToSet(path[n])
      BY DEF NoSelfInvariant
    <2>4. status[n] = "starting" => n \notin ToSet(Append(path[n], NextHop(n)))
      BY <2>1, <2>2, <2>3 DEF ToSet
    <2> QED
      BY <1>2, <2>4 DEF TypeOK, NoSelfInvariant, LookupForward, Walking, ring
  <1>3. CASE LookupDialFails(n)
    BY <1>3 DEF TypeOK, NoSelfInvariant, LookupDialFails, EndRound, Walking, ToSet
  <1>4. CASE JoinAnswered(n)
    <2>1. path[n] \in Seq(Nodes) /\ path[n] # <<>>
      BY <1>4, WalkType DEF JoinAnswered, Walking
    <2>2. At(n) = path[n][Len(path[n])] /\ Len(path[n]) \in 1 .. Len(path[n])
      BY <2>1, LastType DEF At
    <2>3. At(n) # n
      BY <1>4, <2>1, <2>2 DEF NoSelfInvariant, JoinAnswered, ToSet
    <2> QED
      BY <1>4, <2>3 DEF TypeOK, NoSelfInvariant, JoinAnswered, Proceed, Walking, ToSet
  <1>5. CASE StabilizeAnswered(n)
    BY <1>5 DEF TypeOK, NoSelfInvariant, StabilizeAnswered, Proceed, Walking, ToSet
  <1>6. CASE StabilizeAlone(n)
    <2>1. CASE EndRound(n)
      BY <1>6, <2>1 DEF TypeOK, NoSelfInvariant, StabilizeAlone, EndRound, Walking, ToSet
    <2>2. CASE predecessor[n] # NoNode /\ Proceed(n, "chase", predecessor[n])
      BY <1>6, <2>2 DEF TypeOK, NoSelfInvariant, StabilizeAlone, Proceed, Walking, ToSet
    <2> QED
      BY <1>6, <2>1, <2>2 DEF StabilizeAlone
  <1>7. CASE Chase(n)
    <2>1. target[n] \in Nodes /\ status[n] # "starting" /\ predecessor[n] # NoNode
      BY <1>7 DEF TypeOK, NoSelfInvariant, Chase, Reach
    <2>2. CASE predecessor[target[n]] = NoNode /\ Proceed(n, "close", target[n])
      BY <1>7, <2>1, <2>2 DEF TypeOK, NoSelfInvariant, Chase, Proceed
    <2>3. CASE Proceed(n, "chase", predecessor[target[n]])
      BY <1>7, <2>1, <2>3 DEF TypeOK, NoSelfInvariant, Chase, Proceed
    <2> QED
      BY <1>7, <2>2, <2>3 DEF Chase
  <1>8. CASE CloseRing(n)
    BY <1>8 DEF TypeOK, NoSelfInvariant, CloseRing, Proceed
  <1>9. CASE AskPredecessor(n)
    BY <1>9 DEF TypeOK, NoSelfInvariant, AskPredecessor, Proceed
  <1>10. CASE StillPredecessor(n)
    BY <1>10 DEF TypeOK, NoSelfInvariant, StillPredecessor, EndRound, ToSet
  <1>11. CASE AdoptSeen(n)
    <2>1. seen[n] # n
      BY <1>11 DEF AdoptSeen, StillOurs
    <2> QED
      BY <1>11, <2>1 DEF TypeOK, NoSelfInvariant, AdoptSeen, Proceed
  <1>12. CASE KeepSuccessor(n)
    BY <1>12 DEF TypeOK, NoSelfInvariant, KeepSuccessor, Proceed
  <1>13. CASE Notify(n)
    <2>1. target[n] \in Nodes /\ target[n] # n
      BY <1>13 DEF TypeOK, NoSelfInvariant, Notify, Reach
    <2> QED
      BY <1>13, <2>1 DEF TypeOK, NoSelfInvariant, Notify, EndRound, ToSet
  <1>14. CASE CallFails(n)
    BY <1>14 DEF TypeOK, NoSelfInvariant, CallFails, EndRound, ToSet
  <1> QED
    BY <1>0, <1>1, <1>2, <1>3, <1>4, <1>5, <1>6, <1>7, <1>8, <1>9, <1>10, <1>11, <1>12,
       <1>13, <1>14 DEF Thread, Maintenance

(* What a thread knows stays true under the steps of all the others. *)
LEMMA NoSelfNext == TypeOK /\ NoSelfInvariant /\ [AnyNext]_vars => NoSelfInvariant'
  <1> SUFFICES ASSUME TypeOK, NoSelfInvariant, [AnyNext]_vars PROVE NoSelfInvariant'
    OBVIOUS
  <1> USE NodesAssumption DEF Maybe
  <1>1. CASE BootFirst
    BY <1>1 DEF TypeOK, NoSelfInvariant, BootFirst, thread
  <1>2. ASSUME NEW n \in Nodes, NEW p \in Nodes, Join(n, p) PROVE NoSelfInvariant'
    <2>1. path[n] = <<>>
      BY <1>2 DEF TypeOK, Join
    <2> QED
      BY <1>2, <2>1 DEF TypeOK, NoSelfInvariant, Join, ToSet
  <1>3. CASE \E n \in Nodes : Thread(n)
    BY <1>3, NoSelfThread
  <1>4. CASE (\E n \in Nodes, k \in Positions : Ask(n, k)) \/ QueryForward \/ QueryAnswered
    BY <1>4 DEF NoSelfInvariant, Ask, QueryForward, QueryAnswered, ring, thread
  <1>5. ASSUME NEW n \in Nodes, Crash(n) \/ RegistrationFails(n) PROVE NoSelfInvariant'
    <2>0. Stop(n)
      BY <1>5, StopFacts
    <2>1. n \notin Nested(n) /\ Nested(n) \subseteq Nodes
      BY DEF Nested
    <2> SUFFICES ASSUME NEW m \in Nodes
                 PROVE  /\ predecessor'[m] # m
                        /\ pc'[m] \in {"ask", "decide", "close", "notify"} => target'[m] # m
                        /\ pc'[m] \in {"chase", "close"} => predecessor'[m] # NoNode
                        /\ status'[m] = "starting" => m \notin ToSet(path'[m])
      BY DEF NoSelfInvariant, ToSet
    <2>2. CASE m \in Nested(n) \cup {n}
      BY <2>0, <2>1, <2>2 DEF TypeOK, NoSelfInvariant, Stop
    <2>3. CASE m \notin Nested(n) \cup {n}
      BY <2>0, <2>3 DEF TypeOK, NoSelfInvariant, Stop
    <2> QED
      BY <2>2, <2>3
  <1>6. CASE UNCHANGED vars
    BY <1>6 DEF NoSelfInvariant, vars, ToSet
  <1> QED
    BY <1>1, <1>2, <1>3, <1>4, <1>5, <1>6 DEF AnyNext

(* The thread's knowledge holds throughout. *)
THEOREM ThreadKnowledge == Spec => []NoSelfInvariant
  BY NoSelfInit, NoSelfNext, NextIsAny, TypeCorrect, PTL DEF Spec

(* No node ever becomes its own predecessor or is announced to itself.      *)
THEOREM NeverOwnPredecessor == Spec => []NoSelfPredecessor
  <1>1. NoSelfInvariant => NoSelfPredecessor
    BY DEF NoSelfInvariant, NoSelfPredecessor
  <1> QED
    BY <1>1, ThreadKnowledge, PTL

-----------------------------------------------------------------------------
(* Only Notify replaces a predecessor, and AcceptsPredecessor is the test. *)
LEMMA CloserStep ==
    ASSUME TypeOK, [AnyNext]_vars, NEW n \in Nodes,
           predecessor[n] # NoNode, predecessor'[n] # predecessor[n], status'[n] = "up"
    PROVE  /\ predecessor'[n] # NoNode
           /\ Gap(ID(predecessor'[n]), ID(n)) < Gap(ID(predecessor[n]), ID(n))
  <1> USE NodesAssumption
  <1>1. PICK m \in Nodes : Notify(m)
    <2>1. ASSUME NEW m \in Nodes, Thread(m), ~ Notify(m) PROVE predecessor' = predecessor
      BY <2>1 DEF Thread, Maintenance, Registered, StartStabilize, LookupForward, LookupDialFails, JoinAnswered,
         StabilizeAnswered, StabilizeAlone, Chase, CloseRing, AskPredecessor,
         StillPredecessor, AdoptSeen, KeepSuccessor, CallFails, ring
    <2>2. ASSUME NEW m \in Nodes, Crash(m) \/ RegistrationFails(m) PROVE FALSE
      <3>1. Stop(m)
        BY <2>2, StopFacts
      <3> QED
        BY <3>1 DEF TypeOK, Stop
    <2> QED
      BY <2>1, <2>2 DEF AnyNext, BootFirst, Join, Ask, QueryForward, QueryAnswered, ring, vars
  <1>2. /\ n = target[m] /\ predecessor'[n] = m
        /\ AcceptsPredecessor(n, m)
    BY <1>1 DEF TypeOK, Notify, Maybe
  <1>3. Between(ID(predecessor[n]), ID(m), ID(n))
    BY <1>2 DEF AcceptsPredecessor
  <1>4. predecessor[n] \in Nodes
    BY DEF TypeOK, Maybe
  <1> QED
    BY <1>2, <1>3, <1>4, IDType, BetweenIsCloser DEF Maybe

(* A serving node exchanges its predecessor only for a closer one, whatever *)
(* the order in which announcements reach it.                               *)
THEOREM PredecessorsImprove == Spec => PredecessorOnlyCloser
  <1>1. TypeOK /\ [Next]_vars =>
          [\A n \in Nodes :
             predecessor[n] # NoNode /\ predecessor'[n] # predecessor[n] /\ status'[n] = "up"
               => /\ predecessor'[n] # NoNode
                  /\ Gap(ID(predecessor'[n]), ID(n)) < Gap(ID(predecessor[n]), ID(n))]_vars
    BY CloserStep, NextIsAny
  <1> QED
    BY <1>1, TypeCorrect, PTL DEF Spec, PredecessorOnlyCloser
=============================================================================
