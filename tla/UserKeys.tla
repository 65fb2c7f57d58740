------------------------------ MODULE UserKeys ------------------------------
(***************************************************************************)
(* Nodes that trust each other and users that register, on top of the ring *)
(* of module Chord: NodeRegistrationHandler and UserRegistrationHandler    *)
(* (protocol/handler.go), the authentication of a request                  *)
(* (Server.handleConnection), the public key handlers (file/handlers.go)   *)
(* and the client's register operation.                                    *)
(*                                                                         *)
(* A user's public key is a file in the DHT.  The server that is asked     *)
(* looks up a node, and then sends that node a request of its own, in its  *)
(* own name; the node serves it when it trusts the sender.  Ring calls are *)
(* sent in the callee's name, so they are always served.                   *)
(***************************************************************************)
EXTENDS Chord

CONSTANTS
    Users,        \* the users, by identifier
    RequestKeys,  \* positions of the keys of the users' requests
    Nobody        \* no call in progress

(* A registration request carries no key: the position of the zero          *)
(* identifier.                                                              *)
RegistrationKey == 0

(* A call of a user: the server that works on it, what it is for, how far   *)
(* it got, and the node that holds the user's key.                          *)
Calls == [user : Users, server : Nodes, kind : {"register", "request"},
          stage : {"lookup", "holder", "posted", "accepted", "refused"}, holder : Maybe]

ASSUME UserAssumption ==
    /\ RequestKeys \subseteq Positions
    /\ Nobody \notin Calls

VARIABLES
    trusted,      \* per node: the nodes it trusts, in memory
    keyFiles,     \* per node: the users whose public key is in its data directory
    registered,   \* users that were told that they are registered
    call          \* one user's request at a server

userVars == <<trusted, keyFiles, registered, call>>
allVars == <<vars, userVars>>

UserInit ==
    /\ Init
    /\ trusted = [n \in Nodes |-> {}]
    /\ keyFiles = [n \in Nodes |-> {}]
    /\ registered = {}
    /\ call = Nobody

-----------------------------------------------------------------------------
(* Mutant: the node is not in its own map. *)
BootFirstUntrusted ==
    /\ BootFirst
    /\ UNCHANGED userVars

(* A node starts and trusts itself.  The peer whose key file it was given   *)
(* goes into the same map under the node's own identifier, which adds       *)
(* nobody.                                                                  *)
BootFirstNode ==
    /\ BootFirst
    /\ trusted' = [trusted EXCEPT ![First] = {First}]
    /\ UNCHANGED <<keyFiles, registered, call>>

(* So does any other node, before it calls its peer. *)
JoinNode(n, p) ==
    /\ Join(n, p)
    /\ trusted' = [trusted EXCEPT ![n] = {n}]
    /\ UNCHANGED <<keyFiles, registered, call>>

(* It registers with its peer, which trusts it from then on; the answer,    *)
(* even a refusal because it did so already, is not looked at, and the      *)
(* nodes listed in it are not contacted.                                    *)
RegisteredTrusted(n) ==
    /\ Registered(n)
    /\ trusted' = [trusted EXCEPT ![target[n]] = @ \cup {n}]
    /\ UNCHANGED <<keyFiles, registered, call>>

(* Trust is lost with the process, key files are not.  A call ends without  *)
(* an answer when its server or a node its lookup is nested in is the one.  *)
StopNode(n) ==
    /\ Crash(n) \/ RegistrationFails(n)
    /\ trusted' = [trusted EXCEPT ![n] = {}]
    /\ call' = IF call # Nobody /\ (call.server = n \/ (call.stage = "lookup" /\ query'.path = <<>>))
               THEN Nobody ELSE call
    /\ UNCHANGED <<keyFiles, registered>>

(* The other steps of the ring. *)
RingStep ==
    /\ \/ \E n \in Nodes : Maintenance(n)
       \/ QueryForward
       \/ call = Nobody /\ (QueryAnswered \/ \E n \in Nodes, k \in Keys : Ask(n, k))
    /\ UNCHANGED userVars

-----------------------------------------------------------------------------
(* User u sends server n a registration, or a request for a resource with   *)
(* key k.  Either way n asks itself for the successor of the request's key. *)
Send(u, n, kind, k) ==
    /\ call = Nobody
    /\ Ask(n, k)
    /\ call' = [user |-> u, server |-> n, kind |-> kind, stage |-> "lookup", holder |-> NoNode]
    /\ UNCHANGED <<trusted, keyFiles, registered>>

Register(u, n) == Send(u, n, "register", RegistrationKey)
Request(u, n, k) == Send(u, n, "request", k)

(* The server has the answer, a node or the zero Node. *)
HolderFound ==
    /\ call # Nobody /\ call.stage = "lookup"
    /\ QueryAnswered
    /\ call' = [call EXCEPT !.stage = "holder",
                            !.holder = IF QueryHop = QueryAt THEN QueryAt ELSE NoNode]
    /\ UNCHANGED <<trusted, keyFiles, registered>>

Holding == call # Nobody /\ call.stage = "holder"

(* Mutant: a node does not serve itself. *)
ServesOthers(t, n) == status[t] = "up" /\ n \in trusted[t] \ {t}

(* The holder serves the server's request. *)
Serves(t, n) == status[t] = "up" /\ n \in trusted[t]

(* PostPublicKeyHandler stores the key; a node that does not trust the      *)
(* server answers with an error that UserRegistrationHandler takes for an   *)
(* answer like any other.                                                   *)
PostPublicKey ==
    /\ Holding /\ call.kind = "register"
    /\ Reach(call.holder) = "up"
    /\ keyFiles' = IF Serves(call.holder, call.server)
                   THEN [keyFiles EXCEPT ![call.holder] = @ \cup {call.user}] ELSE keyFiles
    /\ call' = [call EXCEPT !.stage = "posted"]
    /\ UNCHANGED <<vars, trusted, registered>>

(* Mutant: the answer is sent, and the user never sees it. *)
RegistrationUnanswered ==
    /\ call # Nobody /\ call.stage = "posted"
    /\ call' = Nobody
    /\ UNCHANGED <<vars, trusted, keyFiles, registered>>

(* The user is told that the registration was a success. *)
RegistrationAnswered ==
    /\ call # Nobody /\ call.stage = "posted"
    /\ registered' = registered \cup {call.user}
    /\ call' = Nobody
    /\ UNCHANGED <<vars, trusted, keyFiles>>

KeyFound == Serves(call.holder, call.server) /\ call.user \in keyFiles[call.holder]

(* Mutant: a request without a key in the answer passes. *)
RequestAcceptedUnchecked ==
    /\ Holding /\ call.kind = "request"
    /\ Reach(call.holder) = "up"
    /\ call' = [call EXCEPT !.stage = "accepted"]
    /\ UNCHANGED <<vars, trusted, keyFiles, registered>>

(* GetPublicKeyHandler returns the key and the signature is checked with it. *)
RequestAccepted ==
    /\ Holding /\ call.kind = "request"
    /\ Reach(call.holder) = "up"
    /\ KeyFound
    /\ call' = [call EXCEPT !.stage = "accepted"]
    /\ UNCHANGED <<vars, trusted, keyFiles, registered>>

(* There is no key in the answer: the worker returns, and the user gets no  *)
(* answer.                                                                  *)
RequestRefused ==
    /\ Holding /\ call.kind = "request"
    /\ Reach(call.holder) = "up"
    /\ ~ KeyFound
    /\ call' = [call EXCEPT !.stage = "refused"]
    /\ UNCHANGED <<vars, trusted, keyFiles, registered>>

(* Mutant: the failing dial is noticed by a registration only. *)
RegistrationUnreachable ==
    /\ Holding /\ call.kind = "register"
    /\ Reach(call.holder) = "down"
    /\ call' = Nobody
    /\ UNCHANGED <<vars, trusted, keyFiles, registered>>

(* Nobody listens at the holder: an error, or no answer. *)
HolderUnreachable ==
    /\ Holding
    /\ Reach(call.holder) = "down"
    /\ call' = Nobody
    /\ UNCHANGED <<vars, trusted, keyFiles, registered>>

(* The request is over. *)
CallEnds ==
    /\ call # Nobody /\ call.stage \in {"accepted", "refused"}
    /\ call' = Nobody
    /\ UNCHANGED <<vars, trusted, keyFiles, registered>>

CallStep ==
    \/ HolderFound \/ HolderUnreachable
    \/ PostPublicKey \/ RegistrationAnswered
    \/ RequestAccepted \/ RequestRefused \/ CallEnds

UserNext ==
    \/ BootFirstNode
    \/ \E n, p \in Nodes : JoinNode(n, p)
    \/ \E n \in Nodes : RegisteredTrusted(n) \/ StopNode(n)
    \/ RingStep
    \/ \E u \in Users, n \in Nodes : Register(u, n)
    \/ \E u \in Users, n \in Nodes, k \in RequestKeys : Request(u, n, k)
    \/ CallStep

(* A thread's step, with what it does to trust. *)
NodeStep(n) == RegisteredTrusted(n) \/ (Maintenance(n) /\ UNCHANGED userVars)

UserSpec == UserInit /\ [][UserNext]_allVars

(* The threads of the ring run as in module Chord, and a worker that serves *)
(* a call goes on with it when it can.                                      *)
FairUserSpec ==
    /\ UserSpec
    /\ \A n \in Nodes : WF_allVars(NodeStep(n))
    /\ WF_allVars(QueryForward /\ UNCHANGED userVars)
    /\ WF_allVars(CallStep)

-----------------------------------------------------------------------------
(* PROPERTIES *)

(* Besides the types: a node that runs trusts itself; the server of a call  *)
(* runs; a lookup is under way exactly at that stage of a call.             *)
UserTypeOK ==
    /\ trusted \in [Nodes -> SUBSET Nodes]
    /\ keyFiles \in [Nodes -> SUBSET Users]
    /\ registered \subseteq Users
    /\ \A n \in Nodes : status[n] # "down" <=> n \in trusted[n]
    /\ call # Nobody =>
         /\ call \in Calls
         /\ call.server \in Serving
         /\ call.stage = "lookup" <=> query.path # <<>>

(* Every call of a user comes to its end at the server, while the ring is   *)
(* changed under its lookup.                                                *)
CallsEnd == call # Nobody ~> call = Nobody

Decided(stage) == call # Nobody /\ call.stage = stage

(* Every key file is that of a user that was told so, as long as no         *)
(* registration was cut off by a crash; while a registration is under way,  *)
(* its own key may be there before the answer.                              *)
KeysVouched ==
    \A n \in Nodes : \A u \in keyFiles[n] :
        u \in registered \/ crashes > 0 \/ (Decided("posted") /\ call.user = u)

(* A request is accepted only of a user that is registered, or whose        *)
(* registration may have been cut off before the answer.                    *)
AcceptedRegistered ==
    Decided("accepted") => call.user \in registered \/ crashes > 0

(* The first node has never stopped, and no other has got into the ring. *)
Alone ==
    /\ crashes = 0
    /\ \A n \in Nodes \ {First} : status[n] = "down" \/ pc[n] = "register"

(* As long as the first node is alone, it finds the key of every registered *)
(* user, whatever the request is for.                                       *)
AloneAuthenticates ==
    Decided("refused") /\ call.user \in registered =>
        ~ Alone

(* Why that is so: the ring of one node never leads anywhere else, so every *)
(* call ends where it began, and the first node has all the keys.           *)
AloneInvariant ==
    Alone =>
      /\ finger[First] \in {First, NoNode}
      /\ predecessor[First] = NoNode
      /\ pc[First] \in {"idle", "lookup"}
      /\ status[First] # "starting"
      /\ ToSet(path[First]) \cup ToSet(query.path) \subseteq {First}
      /\ registered \subseteq keyFiles[First]
      /\ call # Nobody =>
           /\ call.stage # "lookup" => call.holder = First
           /\ call.stage = "posted" => call.user \in keyFiles[First]
           /\ call.stage = "refused" => call.user \notin registered

(* "the signature of the request is validated against the public key which  *)
(* is stored in the DHT for that given user identifier"                     *)
(* (docs/design-document/README.md:451): nobody who was told to be          *)
(* registered is refused.                                                   *)
RegisteredAuthenticate == ~ (Decided("refused") /\ call.user \in registered)
=============================================================================
