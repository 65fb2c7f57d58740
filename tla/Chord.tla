------------------------------- MODULE Chord -------------------------------
(***************************************************************************)
(* The ring maintenance of peerstore: the chord package (local.go,         *)
(* remote.go, handlers.go), the finger table of models.go and the node     *)
(* start-up of cmd/peerstore/server/main.go.                               *)
(*                                                                         *)
(* Every node runs one maintenance thread: NewLocalNode/Initialize when it *)
(* joins, then Stabilize every ten seconds, for ever.  The thread blocks   *)
(* on each remote call; a remote call is answered by a worker of the       *)
(* callee's server, so a node answers while its own thread waits for       *)
(* somebody else.  A starting node listens before it registers with its    *)
(* peer and joins the ring, and serves afterwards: calls to it wait.       *)
(***************************************************************************)
EXTENDS ChordID, Sequences, FiniteSets, SequencesExt

CONSTANTS
    Nodes,        \* the nodes of the ring (a node is its address)
    NoNode,       \* the empty models.Node{}: no address, identifier zero
    First,        \* the node whose command line names no peer key file
    Peers,        \* the pairs <<n, p>> such that n may be started with peer p
    IDOf,         \* KeyToID of a node's identifier
    Keys,         \* positions of the keys that clients look up
    MaxCrashes    \* bound on the number of crashes

ASSUME NodesAssumption ==
    /\ NoNode \notin Nodes
    /\ First \in Nodes
    /\ Peers \subseteq Nodes \X Nodes
    /\ IDOf \in [Nodes -> Positions]
    /\ Keys \subseteq Positions
    /\ MaxCrashes \in Nat

(* A lookup's walk is bounded by the number of nodes. *)
ASSUME NodesFinite == IsFiniteSet(Nodes)

VARIABLES
    status,       \* "down", "starting" (before Serve), "up"
    finger,       \* fingerTable entry 1, the only entry the code ever sets
    predecessor,  \* LocalNode.predecessor
    pc,           \* what the maintenance thread is doing
    path,         \* the nodes its running Successor call is nested in
    target,       \* the node its current remote call goes to
    seen,         \* the predecessor its successor reported
    query,        \* one client's lookup: its key and the nodes it is nested in
    crashes       \* number of crashes so far

vars == <<status, finger, predecessor, pc, path, target, seen, query, crashes>>
ring == <<status, finger, predecessor>>
thread == <<pc, path, target, seen>>

Maybe == Nodes \cup {NoNode}

(* Besides the types: what the program counter says of a thread's local      *)
(* state, and that nothing is left of a node that is down.                   *)
TypeOK ==
    /\ status \in [Nodes -> {"down", "starting", "up"}]
    /\ finger \in [Nodes -> Maybe]
    /\ predecessor \in [Nodes -> Maybe]
    /\ pc \in [Nodes -> {"idle", "register", "lookup", "ask", "decide", "chase", "close", "notify"}]
    /\ path \in [Nodes -> Seq(Nodes)]
    /\ target \in [Nodes -> Maybe]
    /\ seen \in [Nodes -> Maybe]
    /\ query \in [key : Positions, path : Seq(Nodes)]
    /\ crashes \in 0 .. MaxCrashes
    /\ \A n \in Nodes :
         /\ pc[n] = "lookup" <=> path[n] # <<>>
         /\ pc[n] \in {"idle", "lookup"} => target[n] = NoNode
         /\ pc[n] \in {"idle", "register", "lookup"} => seen[n] = NoNode
         /\ status[n] = "down" => pc[n] = "idle"
         /\ status[n] = "starting" => pc[n] \in {"register", "lookup", "notify"}
         /\ pc[n] = "register" => status[n] = "starting"
         /\ status[n] = "down" \/ pc[n] = "register" =>
              finger[n] = NoNode /\ predecessor[n] = NoNode

-----------------------------------------------------------------------------
(* Positions on the circle.  The empty node has identifier zero. *)
ID(n) == IF n = NoNode THEN 0 ELSE IDOf[n]

(* Mutant: a finger beyond the key is followed, too. *)
ClosestPrecedingNodeBeyond(at, key) ==
    IF finger[at] # NoNode /\ ID(finger[at]) # key THEN finger[at] ELSE at

(* ClosestPrecedingNode(key) evaluated at node at: its only finger when it  *)
(* lies strictly between at and the key, itself otherwise.  The 159 other   *)
(* entries are never set and are skipped, as an empty first entry is.       *)
ClosestPrecedingNode(at, key) ==
    IF finger[at] # NoNode /\ Between(ID(at), ID(finger[at]), key)
    THEN finger[at]
    ELSE at

(* Mutant: the last caller always wins. *)
AcceptsAnyPredecessor(t, n) == n \in Nodes

(* LocalNode.SetPredecessor(n) at node t: taken when t has no predecessor,  *)
(* or when n is closer to t than the present one.                           *)
AcceptsPredecessor(t, n) ==
    \/ predecessor[t] = NoNode
    \/ Between(ID(predecessor[t]), ID(n), ID(t))

Init ==
    /\ status = [n \in Nodes |-> "down"]
    /\ finger = [n \in Nodes |-> NoNode]
    /\ predecessor = [n \in Nodes |-> NoNode]
    /\ pc = [n \in Nodes |-> "idle"]
    /\ path = [n \in Nodes |-> <<>>]
    /\ target = [n \in Nodes |-> NoNode]
    /\ seen = [n \in Nodes |-> NoNode]
    /\ query = [key |-> 0, path |-> <<>>]
    /\ crashes = 0

(* What a remote call to t meets; the empty node has no address to dial.    *)
Reach(t) == IF t = NoNode THEN "down" ELSE status[t]

-----------------------------------------------------------------------------
(* Mutant: the early returns leave the pending call in place. *)
EndRoundKeepsTarget(n) ==
    /\ status' = [status EXCEPT ![n] = "up"]
    /\ pc' = [pc EXCEPT ![n] = "idle"]
    /\ path' = [path EXCEPT ![n] = <<>>]
    /\ UNCHANGED <<target, seen>>

(* The thread of n ends its current round: Stabilize returns, or a joining  *)
(* node has left Initialize and starts to serve.                            *)
EndRound(n) ==
    /\ status' = [status EXCEPT ![n] = "up"]
    /\ pc' = [pc EXCEPT ![n] = "idle"]
    /\ path' = [path EXCEPT ![n] = <<>>]
    /\ target' = [target EXCEPT ![n] = NoNode]
    /\ seen' = [seen EXCEPT ![n] = NoNode]

(* The thread of n goes on to make remote call (or local step) label to t.  *)
Proceed(n, label, t) ==
    /\ pc' = [pc EXCEPT ![n] = label]
    /\ path' = [path EXCEPT ![n] = <<>>]
    /\ target' = [target EXCEPT ![n] = t]
    /\ UNCHANGED status

(* The first node boots: NewLocalNode points the finger at the node itself, *)
(* Initialize fails to dial the empty peer address, main logs the error and *)
(* serves.                                                                  *)
BootFirst ==
    /\ status[First] = "down"
    /\ status' = [status EXCEPT ![First] = "up"]
    /\ finger' = [finger EXCEPT ![First] = First]
    /\ UNCHANGED <<predecessor, thread, query, crashes>>

(* Another node boots.  NewServer listens; then main registers with the     *)
(* peer of its command line, before there is a local chord node.            *)
Join(n, p) ==
    /\ n # First
    /\ <<n, p>> \in Peers
    /\ status[n] = "down"
    /\ status' = [status EXCEPT ![n] = "starting"]
    /\ pc' = [pc EXCEPT ![n] = "register"]
    /\ target' = [target EXCEPT ![n] = p]
    /\ UNCHANGED <<finger, predecessor, path, seen, query, crashes>>

(* The peer serves and answers.  NewLocalNode points the finger at the node *)
(* itself, and Initialize asks the peer for the successor of its identifier. *)
Registered(n) ==
    /\ pc[n] = "register"
    /\ Reach(target[n]) = "up"
    /\ finger' = [finger EXCEPT ![n] = n]
    /\ pc' = [pc EXCEPT ![n] = "lookup"]
    /\ path' = [path EXCEPT ![n] = <<target[n]>>]
    /\ target' = [target EXCEPT ![n] = NoNode]
    /\ UNCHANGED <<status, predecessor, seen, query, crashes>>

(* The ten second timer fires: Stabilize calls ln.Successor(ln.ID). *)
StartStabilize(n) ==
    /\ status[n] = "up"
    /\ pc[n] = "idle"
    /\ pc' = [pc EXCEPT ![n] = "lookup"]
    /\ path' = [path EXCEPT ![n] = <<n>>]
    /\ UNCHANGED <<ring, target, seen, query, crashes>>

-----------------------------------------------------------------------------
(* Successor(id) of thread n has reached the last node of path[n].  That    *)
(* node answers a remote call once it serves.                               *)
At(n) == Last(path[n])
NextHop(n) == ClosestPrecedingNode(At(n), ID(n))

Walking(n) ==
    /\ pc[n] = "lookup"
    /\ status[At(n)] = "up"

(* It dials the finger it found to precede the identifier. *)
LookupForward(n) ==
    /\ Walking(n)
    /\ NextHop(n) # At(n)
    /\ status[NextHop(n)] # "down"
    /\ path' = [path EXCEPT ![n] = Append(@, NextHop(n))]
    /\ UNCHANGED <<ring, pc, target, seen, query, crashes>>

(* Mutant: only a joining node gets an answer when the dial fails. *)
LookupDialFailsJoining(n) ==
    /\ Walking(n)
    /\ NextHop(n) # At(n)
    /\ status[NextHop(n)] = "down"
    /\ status[n] = "starting"
    /\ finger' = [finger EXCEPT ![n] = NoNode]
    /\ EndRound(n)
    /\ UNCHANGED <<predecessor, query, crashes>>

(* The dial fails.  SuccessorHandler drops the error and answers with the   *)
(* zero Node under status Success, so a joining node takes that for its     *)
(* successor (and then fails to dial it).  Stabilize gives up either way.   *)
LookupDialFails(n) ==
    /\ Walking(n)
    /\ NextHop(n) # At(n)
    /\ status[NextHop(n)] = "down"
    /\ finger' = IF status[n] = "starting" THEN [finger EXCEPT ![n] = NoNode] ELSE finger
    /\ EndRound(n)
    /\ UNCHANGED <<predecessor, query, crashes>>

(* Initialize receives the node that found no closer finger, makes it its   *)
(* successor, and goes on to announce itself there.                         *)
JoinAnswered(n) ==
    /\ Walking(n)
    /\ status[n] = "starting"
    /\ NextHop(n) = At(n)
    /\ finger' = [finger EXCEPT ![n] = At(n)]
    /\ Proceed(n, "notify", At(n))
    /\ UNCHANGED <<predecessor, seen, query, crashes>>

(* Stabilize receives another node: it will ask it for its predecessor. *)
StabilizeAnswered(n) ==
    /\ Walking(n)
    /\ status[n] = "up"
    /\ NextHop(n) = At(n)
    /\ At(n) # n
    /\ Proceed(n, "ask", At(n))
    /\ UNCHANGED <<finger, predecessor, seen, query, crashes>>

(* Mutant: a node without a successor gives up at once. *)
StabilizeAloneIdles(n) ==
    /\ Walking(n)
    /\ status[n] = "up"
    /\ NextHop(n) = At(n)
    /\ At(n) = n
    /\ EndRound(n)
    /\ UNCHANGED <<finger, predecessor, query, crashes>>

(* Mutant: the chase starts at the node itself, whether or not it has a     *)
(* predecessor.                                                             *)
StabilizeAloneFromSelf(n) ==
    /\ Walking(n)
    /\ status[n] = "up"
    /\ NextHop(n) = At(n)
    /\ At(n) = n
    /\ Proceed(n, "chase", n)
    /\ UNCHANGED <<finger, predecessor, seen, query, crashes>>

(* Stabilize receives the node itself: it has no successor.  It starts to   *)
(* follow the chain of predecessors, if it has one.                         *)
StabilizeAlone(n) ==
    /\ Walking(n)
    /\ status[n] = "up"
    /\ NextHop(n) = At(n)
    /\ At(n) = n
    /\ IF predecessor[n] = NoNode
       THEN EndRound(n)
       ELSE Proceed(n, "chase", predecessor[n]) /\ UNCHANGED seen
    /\ UNCHANGED <<finger, predecessor, query, crashes>>

-----------------------------------------------------------------------------
(* Mutant: the chase steps on before it looks for the end of the chain, and *)
(* starts over at the node itself.                                          *)
ChaseRestarts(n) ==
    /\ pc[n] = "chase"
    /\ Reach(target[n]) = "up"
    /\ IF predecessor[target[n]] = NoNode
       THEN Proceed(n, "chase", n)
       ELSE Proceed(n, "chase", predecessor[target[n]])
    /\ UNCHANGED <<finger, predecessor, seen, query, crashes>>

(* The predecessor chase: "ask every pred in the chain if they have a nil   *)
(* pred".  The step reads the predecessor of the node the chase is at.      *)
Chase(n) ==
    /\ pc[n] = "chase"
    /\ Reach(target[n]) = "up"
    /\ IF predecessor[target[n]] = NoNode
       THEN Proceed(n, "close", target[n])
       ELSE Proceed(n, "chase", predecessor[target[n]])
    /\ UNCHANGED <<finger, predecessor, seen, query, crashes>>

(* The end of the chain becomes the successor, and will be told. *)
CloseRing(n) ==
    /\ pc[n] = "close"
    /\ finger' = [finger EXCEPT ![n] = target[n]]
    /\ Proceed(n, "notify", target[n])
    /\ UNCHANGED <<predecessor, seen, query, crashes>>

(* GetPredecessor on the successor. *)
AskPredecessor(n) ==
    /\ pc[n] = "ask"
    /\ Reach(target[n]) = "up"
    /\ seen' = [seen EXCEPT ![n] = predecessor[target[n]]]
    /\ Proceed(n, "decide", target[n])
    /\ UNCHANGED <<finger, predecessor, query, crashes>>

(* The successor still names this node, by position. *)
StillOurs(n) == ID(seen[n]) = ID(n)

(* No update in that case. *)
StillPredecessor(n) ==
    /\ pc[n] = "decide"
    /\ StillOurs(n)
    /\ EndRound(n)
    /\ UNCHANGED <<finger, predecessor, query, crashes>>

(* The predecessor that was seen becomes the successor, the empty node      *)
(* included.                                                                *)
AdoptSeen(n) ==
    /\ pc[n] = "decide"
    /\ ~ StillOurs(n)
    /\ Adopts(ID(n), ID(seen[n]), ID(target[n]))
    /\ finger' = [finger EXCEPT ![n] = seen[n]]
    /\ Proceed(n, "notify", seen[n])
    /\ UNCHANGED <<predecessor, seen, query, crashes>>

(* The successor is kept, and will be told who its predecessor is. *)
KeepSuccessor(n) ==
    /\ pc[n] = "decide"
    /\ ~ StillOurs(n)
    /\ ~ Adopts(ID(n), ID(seen[n]), ID(target[n]))
    /\ Proceed(n, "notify", target[n])
    /\ UNCHANGED <<finger, predecessor, seen, query, crashes>>

(* SetPredecessor(n) on the target.  A refusal comes back as a response     *)
(* with status Error, which nobody looks at.                                *)
Notify(n) ==
    /\ pc[n] = "notify"
    /\ Reach(target[n]) = "up"
    /\ predecessor' = IF AcceptsPredecessor(target[n], n)
                      THEN [predecessor EXCEPT ![target[n]] = n]
                      ELSE predecessor
    /\ EndRound(n)
    /\ UNCHANGED <<finger, query, crashes>>

(* A remote call fails because nobody listens at the target (or because the *)
(* target is the empty node).  Every caller abandons its round.             *)
CallFails(n) ==
    /\ pc[n] \in {"ask", "chase", "notify"}
    /\ Reach(target[n]) = "down"
    /\ EndRound(n)
    /\ UNCHANGED <<finger, predecessor, query, crashes>>

(* One step of the maintenance thread of n, from Initialize on. *)
Maintenance(n) ==
    \/ StartStabilize(n)
    \/ LookupForward(n) \/ LookupDialFails(n)
    \/ JoinAnswered(n) \/ StabilizeAnswered(n) \/ StabilizeAlone(n)
    \/ Chase(n) \/ CloseRing(n)
    \/ AskPredecessor(n)
    \/ StillPredecessor(n) \/ AdoptSeen(n) \/ KeepSuccessor(n)
    \/ Notify(n) \/ CallFails(n)

(* The same from the start of the node on. *)
Thread(n) == Registered(n) \/ Maintenance(n)

-----------------------------------------------------------------------------
(* A client asks node n which node is responsible for key k                 *)
(* (GetSuccessorMethod; also the hello loop of main).                       *)
Ask(n, k) ==
    /\ query.path = <<>>
    /\ status[n] = "up"
    /\ query' = [key |-> k, path |-> <<n>>]
    /\ UNCHANGED <<ring, thread, crashes>>

QueryAt == Last(query.path)
QueryHop == ClosestPrecedingNode(QueryAt, query.key)

QueryForward ==
    /\ query.path # <<>>
    /\ status[QueryAt] = "up"
    /\ QueryHop # QueryAt
    /\ status[QueryHop] # "down"
    /\ query' = [query EXCEPT !.path = Append(@, QueryHop)]
    /\ UNCHANGED <<ring, thread, crashes>>

(* The answer: the node that found no closer finger, or the zero Node when  *)
(* the next hop could not be dialled.                                       *)
QueryAnswered ==
    /\ query.path # <<>>
    /\ status[QueryAt] = "up"
    /\ QueryHop = QueryAt \/ status[QueryHop] = "down"
    /\ query' = [key |-> 0, path |-> <<>>]
    /\ UNCHANGED <<ring, thread, crashes>>

-----------------------------------------------------------------------------
(* The calls nested through n when it stops.                                *)
Nested(n) == {m \in Nodes \ {n} : n \in ToSet(path[m])}

(* Node n stops and loses its memory.  A Successor call nested through n is *)
(* cut: the caller gets an error when it had dialled n itself, and the zero *)
(* Node when some other node had; a joining node keeps its own finger in    *)
(* the first case and takes the zero Node for its successor in the second.  *)
Stop(n) ==
    /\ status' = [m \in Nodes |-> IF m = n THEN "down"
                                  ELSE IF m \in Nested(n) THEN "up" ELSE status[m]]
    /\ finger' = [m \in Nodes |->
                    IF m = n \/ (m \in Nested(n) /\ status[m] = "starting" /\ path[m][1] # n)
                    THEN NoNode ELSE finger[m]]
    /\ predecessor' = [predecessor EXCEPT ![n] = NoNode]
    /\ pc' = [m \in Nodes |-> IF m \in Nested(n) \cup {n} THEN "idle" ELSE pc[m]]
    /\ path' = [m \in Nodes |-> IF m \in Nested(n) \cup {n} THEN <<>> ELSE path[m]]
    /\ target' = [target EXCEPT ![n] = NoNode]
    /\ seen' = [seen EXCEPT ![n] = NoNode]
    /\ query' = IF n \in ToSet(query.path) THEN [key |-> 0, path |-> <<>>] ELSE query

Crash(n) ==
    /\ status[n] # "down"
    /\ crashes < MaxCrashes
    /\ crashes' = crashes + 1
    /\ Stop(n)

(* Nobody listens at the peer, or it stopped before it answered: main logs  *)
(* that and returns, which ends the process.                                *)
RegistrationFails(n) ==
    /\ pc[n] = "register"
    /\ Reach(target[n]) = "down"
    /\ Stop(n)
    /\ UNCHANGED crashes

Next ==
    \/ BootFirst
    \/ \E n, p \in Nodes : Join(n, p)
    \/ \E n \in Nodes : Thread(n)
    \/ \E n \in Nodes, k \in Keys : Ask(n, k)
    \/ QueryForward \/ QueryAnswered
    \/ \E n \in Nodes : Crash(n) \/ RegistrationFails(n)

Spec == Init /\ [][Next]_vars

(* The stabilizer is a goroutine in an endless loop with a timer, and a     *)
(* node that serves answers its calls: every thread keeps going when it can. *)
ThreadFairness == \A n \in Nodes : WF_vars(Thread(n))

FairSpec == Spec /\ ThreadFairness

(* A call to a node that starts and stops again and again is refused, or it *)
(* is cut when the node stops.                                              *)
CutFairness == \A n \in Nodes : SF_vars(CallFails(n) \/ RegistrationFails(n))

FairStartSpec == FairSpec /\ CutFairness

-----------------------------------------------------------------------------
(* PROPERTIES *)

(* No Successor call is nested in itself: on every call chain, of a         *)
(* maintenance thread or of a client, each node is closer to the position   *)
(* looked for than the node before it, whatever the other nodes do to their *)
(* fingers while the call is running.                                       *)
Descends(p, key) ==
    \A i \in 1 .. Len(p) - 1 : Gap(ID(p[i + 1]), key) < Gap(ID(p[i]), key)

LookupDescends ==
    /\ \A n \in Nodes : Descends(path[n], ID(n))
    /\ Descends(query.path, query.key)

(* No node is linked to itself by an announcement: no node is its own       *)
(* predecessor, and no thread is about to announce a node to itself.        *)
NoSelfPredecessor ==
    \A n \in Nodes :
        /\ predecessor[n] # n
        /\ pc[n] = "notify" => target[n] # n

(* Why that is so: what a thread knows at each point of its round.  A node  *)
(* that follows its predecessors has one, so the end of the chain is        *)
(* another node; a joining node has not come across itself on its lookup.   *)
NoSelfInvariant ==
    \A n \in Nodes :
        /\ predecessor[n] # n
        /\ pc[n] \in {"ask", "decide", "close", "notify"} => target[n] # n
        /\ pc[n] \in {"chase", "close"} => predecessor[n] # NoNode
        /\ status[n] = "starting" => n \notin ToSet(path[n])

(* While a node is up its predecessor changes only to a closer one. *)
PredecessorOnlyCloser ==
    [][\A n \in Nodes :
         predecessor[n] # NoNode /\ predecessor'[n] # predecessor[n] /\ status'[n] = "up"
           => /\ predecessor'[n] # NoNode
              /\ Gap(ID(predecessor'[n]), ID(n)) < Gap(ID(predecessor[n]), ID(n))]_vars

(* Every node that starts gets to serve (or stops): "trying to connect to   *)
(* the listed peer by getting the node's successor from the network.  If    *)
(* the node is unable to connect to the network, it will accept all         *)
(* requests" (docs/design-document/README.md:248).                          *)
JoinsFinish == \A n \in Nodes : status[n] = "starting" ~> status[n] # "starting"

(* The chase of n is at a node of a ring whose predecessors are all known.  *)
OnCircle(n) ==
    LET before[i \in 0 .. Cardinality(Nodes)] ==
          IF i = 0 THEN target[n]
          ELSE IF before[i - 1] = NoNode THEN NoNode ELSE predecessor[before[i - 1]]
    IN  /\ pc[n] = "chase"
        /\ target[n] # NoNode
        /\ \E i \in 1 .. Cardinality(Nodes) : before[i] = target[n]

(* Every round of a maintenance thread ends: its Successor call comes back  *)
(* although fingers change under it and nodes on its way crash or still     *)
(* start, and the calls after it are answered or fail.  There are two       *)
(* reasons why not.  Nodes that start may wait for each other for ever, and *)
(* then whoever calls them waits, too; and the chase for "the end of the    *)
(* line" (chord/local.go:97) has none to find when the predecessors form a  *)
(* circle.                                                                  *)
RoundsEnd ==
    <>[](\A n \in Nodes : status[n] # "starting") =>
      \A n \in Nodes : pc[n] # "idle" ~> pc[n] = "idle" \/ OnCircle(n)

(* Where a lookup of key that starts at n ends while the ring stands still. *)
Owner(n, key) ==
    LET walk[i \in 0 .. Cardinality(Nodes)] ==
          IF i = 0 THEN n ELSE ClosestPrecedingNode(walk[i - 1], key)
    IN  walk[Cardinality(Nodes)]

Serving == {n \in Nodes : status[n] = "up"}

(* However wrong the fingers are, a lookup that finds every node alive      *)
(* settles after fewer hops than there are nodes: the walk of Successor has *)
(* no cycle, for any key, the identifiers that joining nodes look up among  *)
(* them.                                                                    *)
RoutesSettle ==
    \A n \in Serving, k \in Keys \cup {ID(m) : m \in Nodes} :
        LET o == Owner(n, k) IN finger[o] = NoNode \/ ~ Between(ID(o), ID(finger[o]), k)

(* "eventual location consistency for keys": from some time on every two    *)
(* serving nodes route every key to the same node                           *)
(* (docs/design-document/README.md:262).                                    *)
EventualLocationConsistency ==
    <>[](\A k \in Keys, n, m \in Serving : Owner(n, k) = Owner(m, k))

(* Both nodes up for good and a ring of two, each the other's finger and    *)
(* predecessor, for ever: what two nodes reach that started one after the   *)
(* other and never stop.                                                    *)
MutualPair ==
    \A n, m \in Nodes : n # m /\ status[n] = "up" /\ status[m] = "up" =>
        finger[n] = m /\ predecessor[n] = m

PairConverges == <>[](crashes = 0 => MutualPair)
=============================================================================
