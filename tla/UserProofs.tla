----------------------------- MODULE UserProofs -----------------------------
(***************************************************************************)
(* What holds of registration and authentication for every set of nodes,   *)
(* users and request keys, every assignment of positions and any number of *)
(* crashes; and what the ring keeps when users make calls over it.         *)
(***************************************************************************)
EXTENDS UserKeys, RouteProofs

-----------------------------------------------------------------------------
(* The ring under the users' calls. *)

(* Every step of the users' system is a step of the ring or leaves it alone. *)
LEMMA UserStepIsRingStep == [UserNext]_allVars => [AnyNext]_vars
  <1> SUFFICES ASSUME [UserNext]_allVars PROVE [AnyNext]_vars
    OBVIOUS
  <1> USE NodesAssumption, UserAssumption, ZeroPosition
  <1>1. CASE UNCHANGED allVars
    BY <1>1 DEF allVars
  <1>2. CASE BootFirstNode
    BY <1>2 DEF BootFirstNode, AnyNext
  <1>3. ASSUME NEW n \in Nodes, NEW p \in Nodes, JoinNode(n, p) PROVE AnyNext
    BY <1>3 DEF JoinNode, AnyNext
  <1>4. ASSUME NEW n \in Nodes, RegisteredTrusted(n) \/ StopNode(n) PROVE AnyNext
    BY <1>4 DEF RegisteredTrusted, StopNode, Thread, AnyNext
  <1>5. CASE RingStep
    BY <1>5 DEF RingStep, Thread, AnyNext
  <1>6. ASSUME NEW u \in Users, NEW n \in Nodes, Register(u, n) PROVE AnyNext
    BY <1>6 DEF Register, Send, RegistrationKey, AnyNext
  <1>7. ASSUME NEW u \in Users, NEW n \in Nodes, NEW k \in RequestKeys, Request(u, n, k)
        PROVE AnyNext
    BY <1>7 DEF Request, Send, AnyNext
  <1>8. CASE CallStep
    BY <1>8 DEF CallStep, HolderFound, HolderUnreachable, PostPublicKey, RegistrationAnswered,
       RequestAccepted, RequestRefused, CallEnds, AnyNext
  <1> QED
    BY <1>1, <1>2, <1>3, <1>4, <1>5, <1>6, <1>7, <1>8 DEF UserNext

(* What is known of the ring in every state, whoever uses it. *)
RingInvariant == TypeOK /\ LookupDescends /\ NoSelfInvariant

(* Users' calls do not disturb what is known of the ring. *)
THEOREM UsersKeepRing == UserSpec => []RingInvariant
  <1>1. UserInit => RingInvariant
    BY TypeInit, DescendsInit, NoSelfInit DEF UserInit, RingInvariant
  <1>2. RingInvariant /\ [UserNext]_allVars => RingInvariant'
    BY UserStepIsRingStep, TypeNext, DescendsNext, NoSelfNext DEF RingInvariant
  <1> QED
    BY <1>1, <1>2, PTL DEF UserSpec

(* Lookups of the registrations' and the requests' keys settle like those  *)
(* of the ring itself.                                                      *)
THEOREM UserRoutesSettle == UserSpec => []RoutesSettle
  <1>1. RingInvariant => RoutesSettle
    BY RoutesAlwaysSettle DEF RingInvariant
  <1> QED
    BY <1>1, UsersKeepRing, PTL

-----------------------------------------------------------------------------
(* Type correctness. *)

(* The thread of a node that is down does nothing. *)
LEMMA ThreadRuns ==
    ASSUME TypeOK, NEW n \in Nodes, Thread(n)
    PROVE  status[n] # "down"
  BY DEF TypeOK, Thread, Maintenance, Registered, StartStabilize, LookupForward, LookupDialFails,
     JoinAnswered, StabilizeAnswered, StabilizeAlone, Chase, CloseRing, AskPredecessor,
     StillPredecessor, AdoptSeen, KeepSuccessor, Notify, CallFails, Walking

(* A step of a maintenance thread neither stops a node nor starts one that  *)
(* was down.                                                                *)
LEMMA ThreadServes ==
    ASSUME TypeOK, NEW n \in Nodes, Thread(n)
    PROVE  /\ \A m \in Nodes : status'[m] = "down" <=> status[m] = "down"
           /\ Serving \subseteq Serving'
           /\ UNCHANGED <<query, crashes>>
  <1>1. status[n] # "down"
    BY ThreadRuns
  <1>2. status' = status \/ status' = [status EXCEPT ![n] = "up"]
    BY DEF Thread, Maintenance, Registered, StartStabilize, LookupForward, LookupDialFails,
       JoinAnswered, StabilizeAnswered, StabilizeAlone, Chase, CloseRing, AskPredecessor, StillPredecessor,
       AdoptSeen, KeepSuccessor, Notify, CallFails, EndRound, Proceed, ring
  <1>3. UNCHANGED <<query, crashes>>
    BY DEF Thread, Maintenance, Registered, StartStabilize, LookupForward, LookupDialFails,
       JoinAnswered, StabilizeAnswered, StabilizeAlone, Chase, CloseRing, AskPredecessor, StillPredecessor,
       AdoptSeen, KeepSuccessor, Notify, CallFails
  <1>4. status \in [Nodes -> {"down", "starting", "up"}]
    BY DEF TypeOK
  <1> QED
    BY <1>1, <1>2, <1>3, <1>4 DEF Serving

(* What holds of a call that is under way. *)
CallOK ==
    call # Nobody =>
      /\ call \in Calls
      /\ call.server \in Serving
      /\ call.stage = "lookup" <=> query.path # <<>>

(* What holds of the trusted nodes and of the users. *)
TrustOK ==
    /\ trusted \in [Nodes -> SUBSET Nodes]
    /\ keyFiles \in [Nodes -> SUBSET Users]
    /\ registered \subseteq Users
    /\ \A n \in Nodes : status[n] # "down" <=> n \in trusted[n]

(* The two parts of the type invariant. *)
LEMMA UserTypeParts == UserTypeOK <=> TrustOK /\ CallOK
  BY DEF UserTypeOK, TrustOK, CallOK

(* A call that stays as it is keeps its type while its server still runs    *)
(* and its lookup is not over.                                              *)
LEMMA CallKept ==
    ASSUME CallOK, UNCHANGED call,
           call # Nobody => call.server \in Serving',
           query'.path = <<>> <=> query.path = <<>>
    PROVE  CallOK'
  BY DEF CallOK

(* The initial state is of the declared types. *)
LEMMA UserTypeInit == UserInit => UserTypeOK
  BY DEF UserInit, Init, UserTypeOK

(* Nodes that start, join or stop, and every other step of the ring, keep   *)
(* the types.                                                               *)
LEMMA UserTypeRing ==
    ASSUME TypeOK, TrustOK, CallOK,
           \/ BootFirstNode
           \/ \E n, p \in Nodes : JoinNode(n, p)
           \/ \E n \in Nodes : RegisteredTrusted(n) \/ StopNode(n)
           \/ RingStep
    PROVE  TrustOK' /\ CallOK'
  <1> USE NodesAssumption
  <1>s. status \in [Nodes -> {"down", "starting", "up"}]
    BY DEF TypeOK
  <1>1. CASE BootFirstNode
    <2>1. TrustOK'
      BY <1>1, <1>s DEF BootFirstNode, BootFirst, TrustOK
    <2>2. Serving \subseteq Serving' /\ UNCHANGED <<query, call>>
      BY <1>1, <1>s DEF BootFirstNode, BootFirst, Serving
    <2>3. call # Nobody => call.server \in Serving'
      BY <2>2 DEF CallOK
    <2> QED
      BY <2>1, <2>2, <2>3, CallKept
  <1>2. ASSUME NEW n \in Nodes, NEW p \in Nodes, JoinNode(n, p) PROVE TrustOK' /\ CallOK'
    <2>1. TrustOK'
      BY <1>2, <1>s DEF JoinNode, Join, TrustOK
    <2>2. Serving \subseteq Serving' /\ UNCHANGED <<query, call>>
      BY <1>2, <1>s DEF JoinNode, Join, Serving
    <2>3. call # Nobody => call.server \in Serving'
      BY <2>2 DEF CallOK
    <2> QED
      BY <2>1, <2>2, <2>3, CallKept
  <1>5. ASSUME NEW n \in Nodes, RegisteredTrusted(n) PROVE TrustOK' /\ CallOK'
    <2>1. target[n] \in Nodes /\ status[target[n]] # "down"
      BY <1>5 DEF TypeOK, RegisteredTrusted, Registered, Reach, Maybe
    <2>2. UNCHANGED <<status, query, call>> /\ Serving' = Serving
      BY <1>5 DEF RegisteredTrusted, Registered, Serving
    <2>3. TrustOK'
      BY <1>5, <2>1, <2>2 DEF RegisteredTrusted, TrustOK
    <2>4. call # Nobody => call.server \in Serving'
      BY <2>2 DEF CallOK
    <2> QED
      BY <2>2, <2>3, <2>4, CallKept
  <1>3. ASSUME NEW n \in Nodes, StopNode(n) PROVE TrustOK' /\ CallOK'
    <2>0. Stop(n)
      BY <1>3, StopFacts DEF StopNode
    <2>1. \A m \in Nested(n) : m \in Nodes /\ m # n /\ status[m] # "down"
      BY DEF TypeOK, Nested, ToSet
    <2>2. \A m \in Nodes : /\ status'[m] = "down" <=> m = n \/ status[m] = "down"
                           /\ m # n /\ status[m] = "up" => status'[m] = "up"
      BY <2>0, <2>1, <1>s DEF Stop
    <2>3. TrustOK'
      BY <1>3, <2>2 DEF StopNode, TrustOK
    <2>4. query.path = <<>> => query' = query
      BY <2>0 DEF Stop, ToSet
    <2>5. query' = query \/ query'.path = <<>>
      BY <2>0 DEF Stop
    <2>6. CASE call' = Nobody
      BY <2>3, <2>6 DEF CallOK
    <2>7. CASE call' # Nobody
      <3>1. call' = call /\ call.server # n /\ ~ (call.stage = "lookup" /\ query'.path = <<>>)
        BY <1>3, <2>7 DEF StopNode
      <3>2. call.server \in Serving'
        BY <2>2, <2>7, <3>1 DEF CallOK, Serving
      <3>3. query'.path = <<>> <=> query.path = <<>>
        BY <2>4, <2>5, <2>7, <3>1 DEF CallOK
      <3> QED
        BY <2>3, <3>1, <3>2, <3>3, CallKept
    <2> QED
      BY <2>6, <2>7
  <1>4. CASE RingStep
    <2>0. UNCHANGED userVars
      BY <1>4 DEF RingStep
    <2>1. /\ \A m \in Nodes : status'[m] = "down" <=> status[m] = "down"
          /\ Serving \subseteq Serving'
      <3>1. CASE \E n \in Nodes : Maintenance(n)
        BY <3>1, ThreadServes DEF Thread
      <3>2. CASE QueryForward \/ QueryAnswered \/ \E n \in Nodes, k \in Keys : Ask(n, k)
        BY <3>2 DEF QueryForward, QueryAnswered, Ask, ring, Serving
      <3> QED
        BY <1>4, <3>1, <3>2 DEF RingStep
    <2>2. TrustOK'
      BY <2>0, <2>1 DEF TrustOK, userVars
    <2>3. CASE call = Nobody
      BY <2>0, <2>2, <2>3 DEF userVars, CallOK
    <2>4. CASE call # Nobody
      <3>1. query'.path = <<>> <=> query.path = <<>>
        <4>1. CASE \E n \in Nodes : Maintenance(n)
          BY <4>1, ThreadServes DEF Thread
        <4>2. CASE QueryForward
          <5>1. /\ query \in [key : Positions, path : Seq(Nodes)] /\ query.path # <<>>
                /\ query'.path = Append(query.path, QueryHop)
            BY <4>2 DEF QueryForward, TypeOK
          <5>2. QueryAt \in Nodes
            BY <5>1, LastType DEF QueryAt
          <5>3. QueryHop \in Nodes
            BY <5>2 DEF TypeOK, QueryHop, ClosestPrecedingNode, Maybe
          <5> QED
            BY <5>1, <5>3, AppendFacts
        <4> QED
          BY <1>4, <2>4, <4>1, <4>2 DEF RingStep
      <3>2. call.server \in Serving'
        BY <2>1, <2>4 DEF CallOK
      <3> QED
        BY <2>0, <2>2, <3>1, <3>2, CallKept DEF userVars
    <2> QED
      BY <2>3, <2>4
  <1> QED
    BY <1>1, <1>2, <1>3, <1>4, <1>5

(* The steps of a user's call keep the types. *)
LEMMA UserTypeCall ==
    ASSUME TypeOK, TrustOK, CallOK,
           \/ \E u \in Users, n \in Nodes, kind \in {"register", "request"}, k \in Positions :
                 Send(u, n, kind, k)
           \/ CallStep
    PROVE  TrustOK' /\ CallOK'
  <1>1. ASSUME NEW u \in Users, NEW n \in Nodes, NEW kind \in {"register", "request"},
               NEW k \in Positions, Send(u, n, kind, k)
        PROVE  TrustOK' /\ CallOK'
    <2>1. UNCHANGED <<trusted, keyFiles, registered, status>> /\ n \in Serving'
      BY <1>1 DEF Send, Ask, ring, Serving
    <2>2. query'.path # <<>>
      BY <1>1 DEF Send, Ask
    <2>3. call' = [user |-> u, server |-> n, kind |-> kind, stage |-> "lookup", holder |-> NoNode]
      BY <1>1 DEF Send
    <2> QED
      BY <2>1, <2>2, <2>3 DEF TrustOK, CallOK, Calls, Maybe
  <1>2. CASE HolderFound
    <2>1. UNCHANGED <<trusted, keyFiles, registered, status>> /\ Serving' = Serving
      BY <1>2 DEF HolderFound, QueryAnswered, ring, Serving
    <2>2. QueryAt \in Nodes
      BY <1>2, LastType DEF HolderFound, QueryAnswered, TypeOK, QueryAt
    <2>3. query'.path = <<>>
      BY <1>2 DEF HolderFound, QueryAnswered
    <2>4. /\ call # Nobody
          /\ call' = [call EXCEPT !.stage = "holder",
                                  !.holder = IF QueryHop = QueryAt THEN QueryAt ELSE NoNode]
      BY <1>2 DEF HolderFound
    <2> QED
      BY <2>1, <2>2, <2>3, <2>4 DEF TrustOK, CallOK, Calls, Maybe
  <1>3. CASE PostPublicKey
    <2>1. UNCHANGED <<trusted, registered, status, query>> /\ Serving' = Serving
      BY <1>3 DEF PostPublicKey, vars, Serving
    <2>2. call # Nobody /\ call.stage = "holder" /\ call' = [call EXCEPT !.stage = "posted"]
      BY <1>3 DEF PostPublicKey, Holding
    <2>3. keyFiles' \in [Nodes -> SUBSET Users]
      BY <1>3, <2>2 DEF PostPublicKey, TrustOK, CallOK, Calls
    <2> QED
      BY <2>1, <2>2, <2>3 DEF TrustOK, CallOK, Calls
  <1>4. CASE RegistrationAnswered
    BY <1>4 DEF RegistrationAnswered, vars, TrustOK, CallOK, Calls
  <1>5. CASE RequestAccepted \/ RequestRefused
    <2>1. UNCHANGED <<trusted, keyFiles, registered, status, query>> /\ Serving' = Serving
      BY <1>5 DEF RequestAccepted, RequestRefused, vars, Serving
    <2>2. /\ call # Nobody /\ call.stage = "holder"
          /\ \/ call' = [call EXCEPT !.stage = "accepted"]
             \/ call' = [call EXCEPT !.stage = "refused"]
      BY <1>5 DEF RequestAccepted, RequestRefused, Holding
    <2> QED
      BY <2>1, <2>2 DEF TrustOK, CallOK, Calls
  <1>6. CASE HolderUnreachable \/ CallEnds
    BY <1>6 DEF HolderUnreachable, CallEnds, vars, TrustOK, CallOK
  <1> QED
    BY <1>1, <1>2, <1>3, <1>4, <1>5, <1>6 DEF CallStep

(* The types are kept by every step of the system. *)
LEMMA UserTypeNext == TypeOK /\ UserTypeOK /\ [UserNext]_allVars => UserTypeOK'
  <1> SUFFICES ASSUME TypeOK, TrustOK, CallOK, [UserNext]_allVars PROVE TrustOK' /\ CallOK'
    BY UserTypeParts DEF UserTypeOK, TrustOK, CallOK
  <1>1. CASE UNCHANGED allVars
    BY <1>1 DEF allVars, userVars, vars, TrustOK, CallOK, Serving
  <1>2. CASE \/ \E u \in Users, n \in Nodes : Register(u, n)
             \/ \E u \in Users, n \in Nodes, k \in RequestKeys : Request(u, n, k)
    BY <1>2, UserTypeCall, ZeroPosition, UserAssumption DEF Register, Request, RegistrationKey
  <1>3. CASE CallStep
    BY <1>3, UserTypeCall
  <1> QED
    BY <1>1, <1>2, <1>3, UserTypeRing DEF UserNext

(* Every state of the users' system is of the declared types: a node that   *)
(* runs trusts itself, a call has a server that runs, and a lookup is under *)
(* way exactly when a call waits for it.                                    *)
THEOREM UserTypeCorrect == UserSpec => []UserTypeOK
  <1>1. RingInvariant => TypeOK
    BY DEF RingInvariant
  <1> QED
    BY <1>1, UsersKeepRing, UserTypeInit, UserTypeNext, PTL DEF UserSpec

-----------------------------------------------------------------------------
(* Nobody is accepted who did not register. *)

(* What the users know of the keys, and what a request is answered with.    *)
AcceptedInvariant == KeysVouched /\ AcceptedRegistered

(* Neither is touched while keys, answers and the user's call stay the same. *)
LEMMA VouchedKept ==
    ASSUME AcceptedInvariant, UNCHANGED <<keyFiles, registered, call>>,
           crashes > 0 => crashes' > 0
    PROVE  AcceptedInvariant'
  BY DEF AcceptedInvariant, KeysVouched, AcceptedRegistered, Decided

(* Every step keeps both. *)
LEMMA AcceptedNext ==
    ASSUME TypeOK, UserTypeOK, AcceptedInvariant, [UserNext]_allVars
    PROVE  AcceptedInvariant'
  <1> USE NodesAssumption
  <1>t. crashes \in Nat
    BY DEF TypeOK
  <1>1. CASE UNCHANGED allVars
    BY <1>1, VouchedKept DEF allVars, userVars, vars
  <1>2. CASE \/ BootFirstNode \/ \E n, p \in Nodes : JoinNode(n, p)
             \/ \E n \in Nodes : RegisteredTrusted(n)
    <2>1. UNCHANGED <<keyFiles, registered, call, crashes>>
      BY <1>2 DEF BootFirstNode, BootFirst, JoinNode, Join, RegisteredTrusted, Registered
    <2> QED
      BY <2>1, VouchedKept
  <1>3. ASSUME NEW n \in Nodes, StopNode(n) PROVE AcceptedInvariant'
    <2>1. CASE Crash(n)
      <3>1. crashes' > 0
        BY <1>t, <2>1 DEF Crash
      <3> QED
        BY <3>1 DEF AcceptedInvariant, KeysVouched, AcceptedRegistered
    <2>2. CASE RegistrationFails(n)
      <3>1. status[n] = "starting" /\ UNCHANGED <<keyFiles, registered, crashes>>
        BY <1>3, <2>2 DEF TypeOK, StopNode, RegistrationFails
      <3>2. call # Nobody => call.server # n
        BY <3>1 DEF UserTypeOK, Serving
      <3>3. call' = call \/ (call # Nobody /\ call.stage = "lookup" /\ call' = Nobody)
        BY <1>3, <3>2 DEF StopNode
      <3> QED
        BY <3>1, <3>3 DEF AcceptedInvariant, KeysVouched, AcceptedRegistered, Decided
    <2> QED
      BY <1>3, <2>1, <2>2 DEF StopNode
  <1>4. CASE RingStep
    <2>1. crashes' = crashes
      BY <1>4, ThreadServes DEF RingStep, Thread, QueryForward, QueryAnswered, Ask
    <2> QED
      BY <1>4, <2>1, VouchedKept DEF RingStep, userVars
  <1>5. ASSUME NEW u \in Users, NEW n \in Nodes, NEW kind \in {"register", "request"},
               NEW k \in Positions, Send(u, n, kind, k)
        PROVE  AcceptedInvariant'
    <2>1. /\ UNCHANGED <<keyFiles, registered, crashes>> /\ call = Nobody
          /\ call' = [user |-> u, server |-> n, kind |-> kind, stage |-> "lookup", holder |-> NoNode]
      BY <1>5 DEF Send, Ask
    <2> QED
      BY <2>1 DEF AcceptedInvariant, KeysVouched, AcceptedRegistered, Decided
  <1>6. CASE HolderFound
    <2>1. /\ UNCHANGED <<keyFiles, registered, crashes>> /\ call # Nobody /\ call.stage = "lookup"
          /\ call' = [call EXCEPT !.stage = "holder",
                                  !.holder = IF QueryHop = QueryAt THEN QueryAt ELSE NoNode]
      BY <1>6 DEF HolderFound, QueryAnswered
    <2>2. call'.stage = "holder"
      BY <2>1 DEF UserTypeOK, Calls
    <2> QED
      BY <2>1, <2>2 DEF AcceptedInvariant, KeysVouched, AcceptedRegistered, Decided
  <1>7. CASE PostPublicKey
    <2>1. /\ UNCHANGED <<registered, crashes>> /\ call # Nobody /\ call.stage = "holder"
          /\ call' = [call EXCEPT !.stage = "posted"]
      BY <1>7 DEF PostPublicKey, Holding, vars
    <2>2. call'.stage = "posted" /\ call'.user = call.user /\ call' # Nobody
      BY <2>1, UserAssumption DEF UserTypeOK, Calls
    <2>3. \A n \in Nodes : \A u \in keyFiles'[n] : u \in keyFiles[n] \/ u = call.user
      BY <1>7 DEF PostPublicKey, UserTypeOK, Calls
    <2> QED
      BY <2>1, <2>2, <2>3 DEF AcceptedInvariant, KeysVouched, AcceptedRegistered, Decided
  <1>8. CASE RegistrationAnswered
    BY <1>8 DEF RegistrationAnswered, vars, AcceptedInvariant, KeysVouched, AcceptedRegistered,
       Decided
  <1>9. CASE RequestAccepted
    <2>1. /\ UNCHANGED <<keyFiles, registered, crashes>> /\ call # Nobody /\ call.stage = "holder"
          /\ call' = [call EXCEPT !.stage = "accepted"]
      BY <1>9 DEF RequestAccepted, Holding, vars
    <2>2. call'.stage = "accepted" /\ call'.user = call.user
      BY <2>1 DEF UserTypeOK, Calls
    <2>3. call.user \in registered \/ crashes > 0
      <3>1. call.holder \in Nodes /\ call.user \in keyFiles[call.holder]
        BY <1>9, <2>1 DEF RequestAccepted, KeyFound, UserTypeOK, Calls, Maybe, Reach
      <3> QED
        BY <2>1, <3>1 DEF AcceptedInvariant, KeysVouched, Decided
    <2> QED
      BY <2>1, <2>2, <2>3 DEF AcceptedInvariant, KeysVouched, AcceptedRegistered, Decided
  <1>10. CASE RequestRefused
    <2>1. /\ UNCHANGED <<keyFiles, registered, crashes>> /\ call # Nobody /\ call.stage = "holder"
          /\ call' = [call EXCEPT !.stage = "refused"]
      BY <1>10 DEF RequestRefused, Holding, vars
    <2>2. call'.stage = "refused"
      BY <2>1 DEF UserTypeOK, Calls
    <2> QED
      BY <2>1, <2>2 DEF AcceptedInvariant, KeysVouched, AcceptedRegistered, Decided
  <1>11. CASE CallEnds
    BY <1>11 DEF CallEnds, vars, AcceptedInvariant, KeysVouched, AcceptedRegistered, Decided
  <1>12. CASE HolderUnreachable
    BY <1>12 DEF HolderUnreachable, Holding, vars, AcceptedInvariant, KeysVouched,
       AcceptedRegistered, Decided
  <1>13. CASE \/ \E u \in Users, n \in Nodes : Register(u, n)
              \/ \E u \in Users, n \in Nodes, k \in RequestKeys : Request(u, n, k)
    BY <1>5, <1>13, ZeroPosition, UserAssumption DEF Register, Request, RegistrationKey
  <1>14. CASE CallStep
    BY <1>6, <1>7, <1>8, <1>9, <1>10, <1>11, <1>12, <1>14 DEF CallStep
  <1> QED
    BY <1>1, <1>2, <1>3, <1>4, <1>13, <1>14 DEF UserNext

(* Every key file is that of a user that was told to be registered, unless  *)
(* its registration is under way or a node has crashed.                     *)
THEOREM KeysAlwaysVouched == UserSpec => [](KeysVouched /\ AcceptedRegistered)
  <1>1. UserInit => AcceptedInvariant
    BY DEF UserInit, AcceptedInvariant, KeysVouched, AcceptedRegistered, Decided
  <1>2. RingInvariant => TypeOK
    BY DEF RingInvariant
  <1>3. TypeOK /\ UserTypeOK /\ AcceptedInvariant /\ [UserNext]_allVars => AcceptedInvariant'
    BY AcceptedNext
  <1>4. AcceptedInvariant <=> KeysVouched /\ AcceptedRegistered
    BY DEF AcceptedInvariant
  <1> QED
    BY <1>1, <1>2, <1>3, <1>4, UsersKeepRing, UserTypeCorrect, PTL DEF UserSpec

(* A request is accepted only of a user that was told to be registered, or  *)
(* after a crash, which may have cut off a registration before its answer.  *)
THEOREM OnlyRegisteredAccepted == UserSpec => []AcceptedRegistered
  BY KeysAlwaysVouched, PTL

-----------------------------------------------------------------------------
(* The first node alone. *)

(* The node a lookup goes to from the first node while that has no finger   *)
(* but itself.                                                              *)
LEMMA AloneHop ==
    ASSUME TypeOK, finger[First] \in {First, NoNode}, NEW k \in Positions
    PROVE  ClosestPrecedingNode(First, k) = First
  <1>1. ID(First) \in Positions
    BY NodesAssumption, IDType DEF Maybe
  <1>2. ~ Between(ID(First), ID(First), k)
    BY <1>1 DEF Between, Positions, RingSize
  <1> QED
    BY <1>2 DEF ClosestPrecedingNode

(* The only node of a chain that has no other. *)
LEMMA LastOfOne ==
    ASSUME NEW s \in Seq(Nodes), s # <<>>, ToSet(s) \subseteq {First}
    PROVE  Last(s) = First
  BY LastType DEF ToSet

(* A thread of the ring of one node goes on looking up itself, and finds    *)
(* nobody else.                                                             *)
LEMMA AloneThread ==
    ASSUME TypeOK, AloneInvariant, NEW n \in Nodes, Maintenance(n), Alone
    PROVE  /\ n = First
           /\ finger'[First] = finger[First] /\ predecessor'[First] = predecessor[First]
           /\ pc'[First] \in {"idle", "lookup"} /\ status'[First] = "up"
           /\ ToSet(path'[First]) \subseteq {First}
  <1> USE NodesAssumption
  <1>1. status[n] # "down" /\ pc[n] # "register" /\ (pc[n] = "lookup" <=> path[n] # <<>>)
    BY ThreadRuns DEF TypeOK, Thread, Maintenance, StartStabilize, LookupForward, LookupDialFails,
       JoinAnswered, StabilizeAnswered, StabilizeAlone, Chase, CloseRing, AskPredecessor,
       StillPredecessor, AdoptSeen, KeepSuccessor, Notify, CallFails, Walking
  <1>2. n = First
    BY <1>1 DEF Alone
  <1>3. /\ finger[First] \in {First, NoNode} /\ predecessor[First] = NoNode
        /\ pc[First] \in {"idle", "lookup"} /\ status[First] = "up"
        /\ ToSet(path[First]) \subseteq {First}
    BY <1>1, <1>2 DEF AloneInvariant, TypeOK
  <1>4. /\ path[First] \in Seq(Nodes) /\ path \in [Nodes -> Seq(Nodes)]
        /\ pc \in [Nodes -> {"idle", "register", "lookup", "ask", "decide", "chase", "close", "notify"}]
        /\ status \in [Nodes -> {"down", "starting", "up"}]
    BY DEF TypeOK
  <1>5. pc[First] = "lookup" => At(First) = First /\ NextHop(First) = First
    <2> SUFFICES ASSUME pc[First] = "lookup"
                 PROVE  At(First) = First /\ NextHop(First) = First
      OBVIOUS
    <2>1. At(First) = First
      BY <1>1, <1>2, <1>3, <1>4, LastOfOne DEF At
    <2> QED
      BY <1>3, <2>1, IDType, AloneHop DEF NextHop, Maybe
  <1>6. StartStabilize(n) \/ StabilizeAlone(n)
    BY <1>2, <1>3, <1>5 DEF Maintenance, LookupForward, LookupDialFails, JoinAnswered,
       StabilizeAnswered, Chase, CloseRing, AskPredecessor, StillPredecessor,
       AdoptSeen, KeepSuccessor, Notify, CallFails, Walking
  <1>7. CASE StartStabilize(n)
    <2>1. path'[First] = <<First>> /\ pc'[First] = "lookup" /\ UNCHANGED ring
      BY <1>2, <1>4, <1>7 DEF StartStabilize
    <2> QED
      BY <1>2, <1>3, <2>1 DEF ring, ToSet
  <1>8. CASE StabilizeAlone(n)
    <2>1. EndRound(n) /\ UNCHANGED <<finger, predecessor>>
      BY <1>2, <1>3, <1>8 DEF StabilizeAlone
    <2>2. path'[First] = <<>> /\ pc'[First] = "idle" /\ status'[First] = "up"
      BY <1>2, <1>4, <2>1 DEF EndRound
    <2> QED
      BY <1>2, <2>1, <2>2 DEF ToSet
  <1> QED
    BY <1>6, <1>7, <1>8

(* What is known of the ring of one node. *)
AloneRing ==
    /\ finger[First] \in {First, NoNode}
    /\ predecessor[First] = NoNode
    /\ pc[First] \in {"idle", "lookup"}
    /\ status[First] # "starting"
    /\ ToSet(path[First]) \subseteq {First}

(* What is known of the calls at it. *)
AloneCalls ==
    /\ registered \subseteq keyFiles[First]
    /\ call # Nobody =>
         /\ call.stage # "lookup" => call.holder = First
         /\ call.stage = "posted" => call.user \in keyFiles[First]
         /\ call.stage = "refused" => call.user \notin registered

(* The parts of the invariant of the first node alone. *)
LEMMA AloneParts ==
    AloneInvariant <=> (Alone => AloneRing /\ ToSet(query.path) \subseteq {First} /\ AloneCalls)
  BY DEF AloneInvariant, AloneRing, AloneCalls

(* The steps of the nodes keep the first node's view while it is alone.     *)
LEMMA AloneNodes ==
    ASSUME TypeOK, UserTypeOK, AloneInvariant, Alone',
           \/ BootFirstNode
           \/ \E n, p \in Nodes : JoinNode(n, p)
           \/ \E n \in Nodes : RegisteredTrusted(n) \/ StopNode(n)
           \/ RingStep
    PROVE  Alone /\ AloneRing' /\ ToSet(query'.path) \subseteq {First} /\ AloneCalls'
  <1> USE NodesAssumption
  <1>t. /\ status \in [Nodes -> {"down", "starting", "up"}] /\ crashes \in Nat
        /\ finger \in [Nodes -> Maybe] /\ query \in [key : Positions, path : Seq(Nodes)]
        /\ predecessor \in [Nodes -> Maybe] /\ path \in [Nodes -> Seq(Nodes)]
        /\ pc \in [Nodes -> {"idle", "register", "lookup", "ask", "decide", "chase", "close", "notify"}]
    BY DEF TypeOK
  <1>1. CASE BootFirstNode
    <2>1. Alone
      BY <1>1, <1>t DEF BootFirstNode, BootFirst, thread, Alone
    <2>2. AloneRing /\ ToSet(query.path) \subseteq {First} /\ AloneCalls
      BY <2>1, AloneParts
    <2>3. finger'[First] = First /\ status'[First] = "up"
      BY <1>1, <1>t DEF BootFirstNode, BootFirst
    <2>4. UNCHANGED <<predecessor, pc, path, query, keyFiles, registered, call>>
      BY <1>1 DEF BootFirstNode, BootFirst, thread
    <2> QED
      BY <2>1, <2>2, <2>3, <2>4 DEF AloneRing, AloneCalls
  <1>2. ASSUME NEW n \in Nodes, NEW p \in Nodes, JoinNode(n, p)
        PROVE  Alone /\ AloneRing' /\ ToSet(query'.path) \subseteq {First} /\ AloneCalls'
    <2>1. n # First /\ status[n] = "down" /\ status' = [status EXCEPT ![n] = "starting"]
          /\ pc' = [pc EXCEPT ![n] = "register"]
          /\ UNCHANGED <<finger, predecessor, path, query, crashes, keyFiles, registered, call>>
      BY <1>2 DEF JoinNode, Join
    <2>2. Alone
      BY <1>t, <2>1 DEF Alone
    <2>3. AloneRing /\ ToSet(query.path) \subseteq {First} /\ AloneCalls
      BY <2>2, AloneParts
    <2> QED
      BY <1>t, <2>1, <2>2, <2>3 DEF AloneRing, AloneCalls
  <1>3. ASSUME NEW n \in Nodes, RegisteredTrusted(n) PROVE FALSE
    <2>1. pc[n] = "register" /\ pc' = [pc EXCEPT ![n] = "lookup"] /\ UNCHANGED <<status, crashes>>
          /\ Reach(target[n]) = "up"
      BY <1>3 DEF RegisteredTrusted, Registered
    <2>2. status[n] = "starting"
      BY <2>1 DEF TypeOK
    <2>3. n = First
      BY <1>t, <2>1, <2>2 DEF Alone
    <2>4. Alone
      BY <1>t, <2>1, <2>3 DEF Alone
    <2> QED
      BY <2>2, <2>3, <2>4, AloneParts DEF AloneRing
  <1>5. ASSUME NEW n \in Nodes, StopNode(n)
        PROVE  Alone /\ AloneRing' /\ ToSet(query'.path) \subseteq {First} /\ AloneCalls'
    <2>1. RegistrationFails(n)
      BY <1>5, <1>t DEF StopNode, Crash, Alone
    <2>2. pc[n] = "register" /\ status[n] = "starting" /\ UNCHANGED crashes /\ Stop(n)
      BY <2>1 DEF TypeOK, RegistrationFails
    <2>3. ASSUME NEW m \in Nodes, m # n
          PROVE  \/ status'[m] = status[m] /\ pc'[m] = pc[m]
                 \/ status'[m] = "up" /\ pc'[m] = "idle"
      BY <1>t, <2>2, <2>3 DEF Stop, Nested
    <2>4. Alone
      BY <1>t, <2>2, <2>3 DEF Alone
    <2>5. AloneRing /\ ToSet(query.path) \subseteq {First} /\ AloneCalls
      BY <2>4, AloneParts
    <2>6. n # First
      BY <2>2, <2>5 DEF AloneRing
    <2>7. First \notin Nested(n)
      BY <2>5, <2>6 DEF Nested, AloneRing
    <2>8. UNCHANGED <<query, keyFiles, registered>>
      BY <1>5, <2>2, <2>5, <2>6 DEF StopNode, Stop
    <2>9. call' = call \/ call' = Nobody
      BY <1>5 DEF StopNode
    <2>10. /\ finger'[First] = finger[First] /\ predecessor'[First] = predecessor[First]
           /\ pc'[First] = pc[First] /\ status'[First] = status[First]
           /\ path'[First] = path[First]
      BY <1>t, <2>2, <2>6, <2>7 DEF Stop
    <2> QED
      BY <2>4, <2>5, <2>8, <2>9, <2>10 DEF AloneRing, AloneCalls
  <1>4. CASE RingStep
    <2>0. UNCHANGED <<keyFiles, registered, call>>
      BY <1>4 DEF RingStep, userVars
    <2>1. CASE \E n \in Nodes : Maintenance(n)
      <3>1. PICK n \in Nodes : Maintenance(n)
        BY <2>1
      <3>0. Thread(n) /\ pc[n] # "register"
        BY <3>1 DEF Thread, Maintenance, StartStabilize, LookupForward, LookupDialFails,
           JoinAnswered, StabilizeAnswered, StabilizeAlone, Chase, CloseRing, AskPredecessor,
           StillPredecessor, AdoptSeen, KeepSuccessor, Notify, CallFails, Walking
      <3>2. Alone
        <4>1. \A m \in Nodes \ {n} : pc'[m] = pc[m]
          BY <1>t, <3>1 DEF Maintenance, StartStabilize, LookupForward, LookupDialFails,
             JoinAnswered, StabilizeAnswered, StabilizeAlone, Chase, CloseRing, AskPredecessor,
             StillPredecessor, AdoptSeen, KeepSuccessor, Notify, CallFails, EndRound, Proceed
        <4>2. pc'[n] # "register"
          BY <1>t, <3>1, <3>0 DEF Maintenance, StartStabilize, LookupForward, LookupDialFails,
             JoinAnswered, StabilizeAnswered, StabilizeAlone, Chase, CloseRing, AskPredecessor,
             StillPredecessor, AdoptSeen, KeepSuccessor, Notify, CallFails, EndRound, Proceed
        <4>3. /\ \A m \in Nodes : status'[m] = "down" <=> status[m] = "down"
              /\ crashes' = crashes
          BY <3>0, ThreadServes
        <4> QED
          BY <4>1, <4>2, <4>3 DEF Alone
      <3>3. AloneRing /\ ToSet(query.path) \subseteq {First} /\ AloneCalls
        BY <3>2, AloneParts
      <3>4. AloneRing'
        BY <3>1, <3>2, <3>3, AloneThread DEF AloneRing
      <3>5. query' = query
        BY <3>0, ThreadServes
      <3> QED
        BY <2>0, <3>2, <3>3, <3>4, <3>5 DEF AloneCalls
    <2>2. ASSUME NEW n \in Nodes, NEW k \in Keys, Ask(n, k)
          PROVE  Alone /\ AloneRing' /\ ToSet(query'.path) \subseteq {First} /\ AloneCalls'
      <3>1. UNCHANGED <<status, finger, predecessor, pc, path, crashes>> /\ status[n] = "up"
        BY <2>2 DEF Ask, ring, thread
      <3>2. Alone /\ n = First
        BY <3>1 DEF Alone, TypeOK
      <3>3. query'.path = <<First>>
        BY <2>2, <3>2 DEF Ask
      <3>4. ToSet(query'.path) \subseteq {First}
        BY <3>3 DEF ToSet
      <3>5. AloneRing /\ AloneCalls
        BY <3>2, AloneParts
      <3> QED
        BY <2>0, <3>1, <3>2, <3>4, <3>5 DEF AloneRing, AloneCalls
    <2>3. CASE QueryForward \/ QueryAnswered
      <3>1. UNCHANGED <<status, finger, predecessor, pc, path, crashes>>
        BY <2>3 DEF QueryForward, QueryAnswered, ring, thread
      <3>2. Alone
        BY <3>1 DEF Alone
      <3>3. AloneRing /\ ToSet(query.path) \subseteq {First} /\ AloneCalls
        BY <3>2, AloneParts
      <3>4. query.path \in Seq(Nodes) /\ query.path # <<>> /\ query.key \in Positions
        BY <1>t, <2>3 DEF QueryForward, QueryAnswered
      <3>5. QueryAt = First /\ QueryHop = First
        BY <3>3, <3>4, LastOfOne, AloneHop DEF QueryAt, QueryHop, AloneRing
      <3>6. QueryAnswered
        BY <2>3, <3>5 DEF QueryForward
      <3>7. ToSet(query'.path) = {}
        BY <3>6 DEF QueryAnswered, ToSet
      <3> QED
        BY <2>0, <3>1, <3>2, <3>3, <3>7 DEF AloneRing, AloneCalls
    <2> QED
      BY <1>4, <2>1, <2>2, <2>3 DEF RingStep
  <1> QED
    BY <1>1, <1>2, <1>3, <1>4, <1>5

(* The server of a call is the first node while that is alone. *)
LEMMA AloneServer ==
    ASSUME TypeOK, UserTypeOK, Alone, call # Nobody
    PROVE  call.server = First /\ status[First] = "up" /\ First \in trusted[First]
  BY NodesAssumption DEF TypeOK, UserTypeOK, Alone, Calls, Serving

(* The steps of a call end at the first node while it is alone, and find    *)
(* the keys of the registered users there.                                  *)
LEMMA AloneCall ==
    ASSUME TypeOK, UserTypeOK, AloneInvariant, Alone',
           \/ \E u \in Users, n \in Nodes, kind \in {"register", "request"}, k \in Positions :
                 Send(u, n, kind, k)
           \/ CallStep
    PROVE  Alone /\ AloneRing' /\ ToSet(query'.path) \subseteq {First} /\ AloneCalls'
  <1> USE NodesAssumption
  <1>t. /\ query \in [key : Positions, path : Seq(Nodes)]
        /\ keyFiles \in [Nodes -> SUBSET Users]
        /\ call # Nobody => call \in Calls
    BY DEF TypeOK, UserTypeOK
  <1>1. UNCHANGED <<status, finger, predecessor, pc, path, crashes>>
    BY DEF Send, Ask, CallStep, HolderFound, QueryAnswered, HolderUnreachable, PostPublicKey,
       RegistrationAnswered, RequestAccepted, RequestRefused, CallEnds, vars, ring, thread
  <1>2. Alone
    BY <1>1 DEF Alone
  <1>3. AloneRing /\ ToSet(query.path) \subseteq {First} /\ AloneCalls
    BY <1>2, AloneParts
  <1>4. AloneRing'
    BY <1>1, <1>3 DEF AloneRing
  <1> SUFFICES ToSet(query'.path) \subseteq {First} /\ AloneCalls'
    BY <1>2, <1>4
  <1>5. ASSUME NEW u \in Users, NEW n \in Nodes, NEW kind \in {"register", "request"},
               NEW k \in Positions, Send(u, n, kind, k)
        PROVE  ToSet(query'.path) \subseteq {First} /\ AloneCalls'
    <2>1. status[n] = "up" /\ query'.path = <<n>>
      BY <1>5 DEF Send, Ask
    <2>2. n = First
      BY <1>2, <2>1 DEF Alone, TypeOK
    <2>3. ToSet(query'.path) \subseteq {First}
      BY <2>1, <2>2 DEF ToSet
    <2>4. /\ call' = [user |-> u, server |-> n, kind |-> kind, stage |-> "lookup", holder |-> NoNode]
          /\ UNCHANGED <<keyFiles, registered>>
      BY <1>5 DEF Send
    <2> QED
      BY <1>3, <2>3, <2>4 DEF AloneCalls
  <1>6. CASE HolderFound
    <2>1. query.path # <<>> /\ query.path \in Seq(Nodes) /\ query.key \in Positions
      BY <1>t, <1>6 DEF HolderFound, QueryAnswered
    <2>2. QueryAt = First /\ QueryHop = First
      BY <1>3, <2>1, LastOfOne, AloneHop DEF QueryAt, QueryHop, AloneRing
    <2>3. ToSet(query'.path) = {}
      BY <1>6 DEF HolderFound, QueryAnswered, ToSet
    <2>4. call # Nobody /\ UNCHANGED <<keyFiles, registered>>
          /\ call' = [call EXCEPT !.stage = "holder", !.holder = First]
      BY <1>6, <2>2 DEF HolderFound
    <2> QED
      BY <1>t, <1>3, <2>3, <2>4 DEF AloneCalls, Calls
  <1>7. CASE PostPublicKey
    <2>1. /\ call # Nobody /\ call.stage = "holder" /\ UNCHANGED <<query, registered>>
          /\ call' = [call EXCEPT !.stage = "posted"]
      BY <1>7 DEF PostPublicKey, Holding, vars
    <2>2. call.holder = First
      BY <1>3, <2>1 DEF AloneCalls
    <2>3. Serves(call.holder, call.server)
      BY <1>2, <2>1, <2>2, AloneServer DEF Serves
    <2>4. keyFiles' = [keyFiles EXCEPT ![First] = @ \cup {call.user}]
      BY <1>7, <2>2, <2>3 DEF PostPublicKey
    <2>5. keyFiles'[First] = keyFiles[First] \cup {call.user}
      BY <1>t, <2>4
    <2> QED
      BY <1>t, <1>3, <2>1, <2>2, <2>5 DEF AloneCalls, Calls
  <1>8. CASE RegistrationAnswered
    BY <1>3, <1>8 DEF RegistrationAnswered, vars, AloneCalls
  <1>9. CASE RequestAccepted
    <2>1. /\ call # Nobody /\ call.stage = "holder" /\ UNCHANGED <<query, keyFiles, registered>>
          /\ call' = [call EXCEPT !.stage = "accepted"]
      BY <1>9 DEF RequestAccepted, Holding, vars
    <2> QED
      BY <1>t, <1>3, <2>1 DEF AloneCalls, Calls
  <1>10. CASE RequestRefused
    <2>1. /\ call # Nobody /\ call.stage = "holder" /\ UNCHANGED <<query, keyFiles, registered>>
          /\ call' = [call EXCEPT !.stage = "refused"]
      BY <1>10 DEF RequestRefused, Holding, vars
    <2>2. call.holder = First
      BY <1>3, <2>1 DEF AloneCalls
    <2>3. Serves(call.holder, call.server)
      BY <1>2, <2>1, <2>2, AloneServer DEF Serves
    <2>4. call.user \notin registered
      BY <1>3, <1>10, <2>2, <2>3 DEF RequestRefused, KeyFound, AloneCalls
    <2> QED
      BY <1>t, <1>3, <2>1, <2>2, <2>4 DEF AloneCalls, Calls
  <1>11. CASE HolderUnreachable \/ CallEnds
    BY <1>3, <1>11 DEF HolderUnreachable, CallEnds, vars, AloneCalls
  <1> QED
    BY <1>5, <1>6, <1>7, <1>8, <1>9, <1>10, <1>11 DEF CallStep

(* Every step keeps what is known of the first node alone. *)
LEMMA AloneNext ==
    TypeOK /\ UserTypeOK /\ AloneInvariant /\ [UserNext]_allVars => AloneInvariant'
  <1> SUFFICES ASSUME TypeOK, UserTypeOK, AloneInvariant, [UserNext]_allVars, Alone'
               PROVE  Alone /\ AloneRing' /\ ToSet(query'.path) \subseteq {First} /\ AloneCalls'
    BY DEF AloneInvariant, AloneRing, AloneCalls
  <1>1. CASE UNCHANGED allVars
    BY <1>1, AloneParts DEF allVars, userVars, vars, Alone, AloneRing, AloneCalls
  <1>2. CASE \/ \E u \in Users, n \in Nodes : Register(u, n)
             \/ \E u \in Users, n \in Nodes, k \in RequestKeys : Request(u, n, k)
    BY <1>2, AloneCall, ZeroPosition, UserAssumption DEF Register, Request, RegistrationKey
  <1>3. CASE CallStep
    BY <1>3, AloneCall
  <1> QED
    BY <1>1, <1>2, <1>3, AloneNodes DEF UserNext

(* The ring of one node leads nowhere else, and the node has the key of     *)
(* every user it told to be registered.                                     *)
THEOREM AloneKnowsAll == UserSpec => []AloneInvariant
  <1>1. UserInit => AloneInvariant
    BY NodesAssumption DEF UserInit, Init, AloneInvariant, ToSet
  <1>2. RingInvariant => TypeOK
    BY DEF RingInvariant
  <1> QED
    BY <1>1, <1>2, UsersKeepRing, UserTypeCorrect, AloneNext, PTL DEF UserSpec

(* As long as no node but the first has got into the ring, no registered    *)
(* user is refused.                                                         *)
THEOREM AloneAuthenticatesAll == UserSpec => []AloneAuthenticates
  <1>1. TypeOK /\ AloneInvariant => AloneAuthenticates
    BY DEF TypeOK, AloneInvariant, Alone, AloneAuthenticates, Decided
  <1>2. RingInvariant => TypeOK
    BY DEF RingInvariant
  <1> QED
    BY <1>1, <1>2, UsersKeepRing, AloneKnowsAll, PTL
=============================================================================
