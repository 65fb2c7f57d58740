----------------------------- MODULE PoolProofs -----------------------------
(***************************************************************************)
(* Theorems about ServerPool: the types, that every connection is in one   *)
(* place, that none is lost, and that the calls of workers nest - for any  *)
(* number of clients, connections and workers and any buffer.              *)
(*                                                                         *)
(* OnePlace is inductive together with the types.  The other two rest on   *)
(* PoolInvariant, which adds what the parties know of the exchange on a    *)
(* connection.                                                             *)
(***************************************************************************)
EXTENDS ServerPool, TLAPS, FiniteSetTheorems

-----------------------------------------------------------------------------
(* QUEUES *)

(* A connection at the end of a queue is one more in it. *)
LEMMA AppendQueue ==
    ASSUME NEW q \in Seq(Conns), NEW e \in Conns
    PROVE  /\ Append(q, e) \in Seq(Conns)
           /\ \A c : InQueue(c, Append(q, e)) <=> InQueue(c, q) \/ c = e
           /\ Once(q) /\ ~ InQueue(e, q) => Once(Append(q, e))
  <1>1. /\ Append(q, e) \in Seq(Conns)
        /\ Len(Append(q, e)) = Len(q) + 1
        /\ Append(q, e)[Len(q) + 1] = e
        /\ \A i \in 1 .. Len(q) : Append(q, e)[i] = q[i]
        /\ Len(q) \in Nat
    OBVIOUS
  <1>2. ASSUME NEW c PROVE InQueue(c, Append(q, e)) <=> InQueue(c, q) \/ c = e
    <2>1. ASSUME InQueue(c, Append(q, e)) PROVE InQueue(c, q) \/ c = e
      BY <1>1, <2>1 DEF InQueue
    <2>2. ASSUME InQueue(c, q) PROVE InQueue(c, Append(q, e))
      BY <1>1, <2>2 DEF InQueue
    <2>3. ASSUME c = e PROVE InQueue(c, Append(q, e))
      BY <1>1, <2>3 DEF InQueue
    <2>4. QED
      BY <2>1, <2>2, <2>3
  <1>3. Once(q) /\ ~ InQueue(e, q) => Once(Append(q, e))
    BY <1>1 DEF InQueue, Once
  <1>4. QED
    BY <1>1, <1>2, <1>3

(* A connection that is taken from the head of a queue leaves the others. *)
LEMMA TailQueue ==
    ASSUME NEW q \in Seq(Conns), q # <<>>
    PROVE  /\ Head(q) \in Conns
           /\ Tail(q) \in Seq(Conns)
           /\ Len(Tail(q)) <= Len(q)
           /\ \A c : InQueue(c, q) <=> c = Head(q) \/ InQueue(c, Tail(q))
           /\ Once(q) => Once(Tail(q)) /\ ~ InQueue(Head(q), Tail(q))
  <1>1. /\ Head(q) = q[1] /\ Head(q) \in Conns
        /\ Tail(q) \in Seq(Conns)
        /\ Len(q) \in Nat /\ Len(q) >= 1
        /\ Len(Tail(q)) = Len(q) - 1
        /\ \A i \in 1 .. Len(q) - 1 : Tail(q)[i] = q[i + 1]
    OBVIOUS
  <1>2. ASSUME NEW c PROVE InQueue(c, q) <=> c = Head(q) \/ InQueue(c, Tail(q))
    <2>1. ASSUME InQueue(c, q), c # Head(q) PROVE InQueue(c, Tail(q))
      <3>1. PICK i \in 1 .. Len(q) : q[i] = c
        BY <2>1 DEF InQueue
      <3>2. i - 1 \in 1 .. Len(Tail(q)) /\ Tail(q)[i - 1] = c
        BY <1>1, <2>1, <3>1
      <3>3. QED
        BY <3>2 DEF InQueue
    <2>2. ASSUME InQueue(c, Tail(q)) PROVE InQueue(c, q)
      <3>1. PICK i \in 1 .. Len(Tail(q)) : Tail(q)[i] = c
        BY <2>2 DEF InQueue
      <3>2. i + 1 \in 1 .. Len(q) /\ q[i + 1] = c
        BY <1>1, <3>1
      <3>3. QED
        BY <3>2 DEF InQueue
    <2>3. InQueue(Head(q), q)
      BY <1>1 DEF InQueue
    <2>4. QED
      BY <2>1, <2>2, <2>3
  <1>3. ASSUME Once(q) PROVE Once(Tail(q)) /\ ~ InQueue(Head(q), Tail(q))
    <2>1. ASSUME NEW i \in 1 .. Len(Tail(q)), NEW j \in 1 .. Len(Tail(q)), Tail(q)[i] = Tail(q)[j]
          PROVE  i = j
      <3>1. i + 1 \in 1 .. Len(q) /\ j + 1 \in 1 .. Len(q) /\ q[i + 1] = q[j + 1]
        BY <1>1, <2>1
      <3>2. i + 1 = j + 1
        BY <1>3, <3>1 DEF Once
      <3>3. QED
        BY <1>1, <3>2
    <2>2. ASSUME InQueue(Head(q), Tail(q)) PROVE FALSE
      <3>1. PICK i \in 1 .. Len(Tail(q)) : Tail(q)[i] = Head(q)
        BY <2>2 DEF InQueue
      <3>2. i + 1 \in 1 .. Len(q) /\ 1 \in 1 .. Len(q) /\ q[i + 1] = q[1]
        BY <1>1, <3>1
      <3>3. i + 1 = 1
        BY <1>3, <3>2 DEF Once
      <3>4. QED
        BY <1>1, <3>3
    <2>3. QED
      BY <2>1, <2>2 DEF Once
  <1>4. QED
    BY <1>1, <1>2, <1>3

-----------------------------------------------------------------------------
(* CONNECTIONS *)

(* A worker's own connections are two. *)
LEMMA OwnConns ==
    /\ \A w \in Workers : <<w, 1>> \in Conns /\ <<w, 2>> \in Conns
    /\ \A c \in Conns : c[1] \in Workers => c = <<c[1], 1>> \/ c = <<c[1], 2>>
    /\ \A w \in Workers : w \notin Users
    /\ None \notin Conns
  <1>1. \A w \in Workers : <<w, 1>> \in Conns /\ <<w, 2>> \in Conns
    BY DEF Conns
  <1>2. \A w \in Workers : w \notin Users
    BY PoolAssumption
  <1>3. ASSUME NEW c \in Conns, c[1] \in Workers PROVE c = <<c[1], 1>> \/ c = <<c[1], 2>>
    <2>1. c \notin Users \X (1 .. MaxHeld)
      BY <1>2, <1>3
    <2>2. c \in Workers \X {1, 2}
      BY <2>1 DEF Conns
    <2>3. QED
      BY <2>2
  <1>4. QED
    BY <1>1, <1>2, <1>3, PoolAssumption

(* A call is one of the caller's own connections. *)
LEMMA CallIsOwn ==
    ASSUME NEW w \in Workers
    PROVE  CallOf(w) \in {<<w, 1>>, <<w, 2>>} /\ CallOf(w) \in Conns /\ CallOf(w)[1] = w
  BY OwnConns DEF CallOf

-----------------------------------------------------------------------------
(* TYPES *)

Talks == {"none", "node", "user", "register", "handled", "answered", "dropped"}
Phases == {"idle", "read", "auth1", "auth2", "reg1", "reg2", "ended"}

(* The types hold at the start. *)
LEMMA PoolTypeInit == Init => TypeOK
  BY PoolAssumption DEF Init, TypeOK, Workers

(* Steps of clients that only talk or hang up. *)
LEMMA TalkTypes ==
    ASSUME TypeOK, open' \in SUBSET Conns, talk' \in [Conns -> Talks],
           UNCHANGED <<accepting, pool, registered, ending>>
    PROVE  TypeOK'
  BY DEF TypeOK, Talks, accepting, pool, ending

(* A connection is dialled, and a worker that dials goes on to its next     *)
(* phase.                                                                   *)
LEMMA DialTypes ==
    ASSUME TypeOK, NEW c \in Conns,
           open' \in SUBSET Conns, talk' \in [Conns -> Talks],
           backlog' = Append(backlog, c),
           UNCHANGED <<offered, connChan, serving, registered, ending>>,
           \/ UNCHANGED phase
           \/ \E w \in Workers : \E to \in {"auth1", "auth2", "reg1", "reg2"} :
                phase[w] \notin {"idle", "ended"} /\ phase' = [phase EXCEPT ![w] = to]
    PROVE  TypeOK'
  <1>1. backlog' \in Seq(Conns)
    BY AppendQueue DEF TypeOK
  <1>2. CASE UNCHANGED phase
    BY <1>1, <1>2 DEF TypeOK, Talks, ending
  <1>3. ASSUME NEW w \in Workers, NEW to \in {"auth1", "auth2", "reg1", "reg2"},
               phase[w] \notin {"idle", "ended"}, phase' = [phase EXCEPT ![w] = to]
        PROVE  TypeOK'
    <2>1. /\ phase' \in [Workers -> Phases]
          /\ phase'[w] \notin {"idle", "ended"}
          /\ \A v \in Workers : v # w => phase'[v] = phase[v]
      BY <1>3 DEF TypeOK, Phases
    <2>2. \A v \in Workers : phase'[v] \in {"idle", "ended"} <=> phase[v] \in {"idle", "ended"}
      BY <1>3, <2>1
    <2>3. \A v \in Workers : phase'[v] = "ended" <=> phase[v] = "ended"
      BY <1>3, <2>1
    <2>4. QED
      BY <1>1, <2>1, <2>2, <2>3 DEF TypeOK, Talks, Phases, ending
  <1>4. QED
    BY <1>2, <1>3

(* The worker of a request that is over reads on, or goes back for another  *)
(* connection.                                                              *)
LEMMA WorkerTypes ==
    ASSUME TypeOK, NEW w \in Workers, phase[w] \notin {"idle", "ended"},
           open' \in SUBSET Conns, talk' \in [Conns -> Talks], registered' \in SUBSET Users,
           UNCHANGED <<accepting, ending>>,
           \/ phase' = [phase EXCEPT ![w] = "read"] /\ UNCHANGED serving
           \/ phase' = [phase EXCEPT ![w] = "idle"] /\ serving' = [serving EXCEPT ![w] = None]
    PROVE  TypeOK'
  <1>1. /\ phase' \in [Workers -> Phases]
        /\ phase'[w] # "ended"
        /\ \A v \in Workers : v # w => phase'[v] = phase[v] /\ serving'[v] = serving[v]
        /\ serving' \in [Workers -> Conns \cup {None}]
        /\ serving'[w] = None <=> phase'[w] \in {"idle", "ended"}
    BY DEF TypeOK, Phases
  <1>2. \A v \in Workers : serving'[v] = None <=> phase'[v] \in {"idle", "ended"}
    BY <1>1 DEF TypeOK
  <1>3. \A v \in Workers : phase'[v] = "ended" <=> phase[v] = "ended"
    BY <1>1
  <1>4. QED
    BY <1>1, <1>2, <1>3 DEF TypeOK, Talks, Phases, accepting, ending

(* Whom a worker calls for is a user. *)
CallsForUsers == \A w \in Workers : Calling(w) => serving[w][1] \in Users

(* No step leaves the types. *)
LEMMA PoolTypeStep ==
    ASSUME TypeOK, CallsForUsers, [Next]_vars
    PROVE  TypeOK'
  <1> USE DEF Talks
  <1>a. open \in SUBSET Conns /\ talk \in [Conns -> Talks] /\ registered \in SUBSET Users
    BY DEF TypeOK
  <1>1. ASSUME NEW u \in Users, User(u) PROVE TypeOK'
    <2>1. ASSUME NEW c \in Conns, UserDial(u, c) PROVE TypeOK'
      BY <1>a, <2>1, DialTypes DEF UserDial, Dial, pool
    <2>2. ASSUME NEW c \in Conns, NEW r \in Requests, UserSend(u, c, r) PROVE TypeOK'
      <3>1. talk' \in [Conns -> Talks]
        BY <1>a, <2>2, PoolAssumption DEF UserSend
      <3>2. QED
        BY <1>a, <2>2, <3>1, TalkTypes DEF UserSend
    <2>3. ASSUME NEW c \in Conns, UserReceive(u, c) \/ UserLost(u, c) PROVE TypeOK'
      BY <1>a, <2>3, TalkTypes DEF UserReceive, UserLost
    <2>4. CASE UserClose(u)
      <3>1. talk' \in [Conns -> Talks]
        BY <1>a, <2>4 DEF UserClose
      <3>2. QED
        BY <1>a, <2>4, <3>1, TalkTypes DEF UserClose
    <2>5. QED
      BY <1>1, <2>1, <2>2, <2>3, <2>4 DEF User
  <1>2. ASSUME NEW w \in Workers, Worker(w) PROVE TypeOK'
    <2>a. <<w, 1>> \in Conns /\ <<w, 2>> \in Conns
      BY OwnConns
    <2>1. CASE Take(w)
      <3>1. /\ phase[w] = "idle"
            /\ phase' = [phase EXCEPT ![w] = "read"]
            /\ serving' = [serving EXCEPT ![w] = Head(connChan)]
            /\ connChan' = Tail(connChan)
            /\ UNCHANGED <<open, talk, backlog, offered, registered, ending>>
        BY <2>1 DEF Take
      <3>2. Head(connChan) \in Conns /\ connChan' \in Seq(Conns) /\ Len(connChan') <= Len(connChan)
        BY <2>1, TailQueue DEF Take, TypeOK
      <3>3. Len(connChan') <= BufferSize
        BY <3>2, PoolAssumption DEF TypeOK
      <3>4. serving' \in [Workers -> Conns \cup {None}]
        BY <3>1, <3>2 DEF TypeOK
      <3>5. phase' \in [Workers -> Phases]
        BY <3>1 DEF TypeOK, Phases
      <3>6. \A v \in Workers : serving'[v] = None <=> phase'[v] \in {"idle", "ended"}
        BY <3>1, <3>2, OwnConns DEF TypeOK
      <3>7. \A v \in Workers : phase'[v] = "ended" <=> phase[v] = "ended"
        BY <3>1 DEF TypeOK
      <3>8. QED
        BY <3>1, <3>2, <3>3, <3>4, <3>5, <3>6, <3>7 DEF TypeOK, Phases, ending
    <2>2. CASE AnswerNode(w)
      BY <1>a, <2>2, TalkTypes DEF AnswerNode
    <2>3. CASE Authenticate(w)
      BY <1>a, <2>a, <2>3, DialTypes DEF Authenticate, Dial
    <2>4. CASE FetchKey(w)
      BY <1>a, <2>a, <2>4, DialTypes DEF FetchKey
    <2>5. CASE Register(w)
      BY <1>a, <2>a, <2>5, DialTypes DEF Register, Dial
    <2>6. CASE StoreKey(w)
      BY <1>a, <2>a, <2>6, DialTypes DEF StoreKey, Dial
    <2>7. CASE Respond(w)
      <3>1. registered' \in SUBSET Users
        BY <1>a, <2>7 DEF Respond, CallsForUsers, Calling
      <3>2. QED
        BY <1>a, <2>7, <3>1, WorkerTypes DEF Respond, Answer
    <2>8. CASE Drop(w)
      BY <1>a, <2>8, WorkerTypes DEF Drop, Answer
    <2>9. CASE EndOfFile(w)
      BY <1>a, <2>9, WorkerTypes DEF EndOfFile
    <2>10. QED
      BY <1>2, <2>1, <2>2, <2>3, <2>4, <2>5, <2>6, <2>7, <2>8, <2>9 DEF Worker, Handle
  <1>3. CASE Accept
    <2>1. Head(backlog) \in Conns /\ Tail(backlog) \in Seq(Conns)
      BY <1>3, TailQueue DEF Accept, TypeOK
    <2>2. QED
      BY <1>3, <2>1 DEF Accept, TypeOK, pool, ending
  <1>4. CASE Enqueue
    <2>1. connChan' \in Seq(Conns) /\ Len(connChan') <= BufferSize
      BY <1>4, PoolAssumption DEF Enqueue, TypeOK
    <2>2. QED
      BY <1>4, <2>1 DEF Enqueue, TypeOK, pool, ending
  <1>5. CASE QuitWorker
    <2>1. /\ told + 1 \in Workers /\ told' = told + 1 /\ told' \in 0 .. NumWorkers
          /\ phase[told + 1] = "idle"
          /\ phase' = [phase EXCEPT ![told + 1] = "ended"]
          /\ shutdown = "quitting"
          /\ UNCHANGED <<open, talk, accepting, serving, registered, shutdown>>
      BY <1>5, PoolAssumption DEF QuitWorker, TypeOK, Workers
    <2>2. phase' \in [Workers -> Phases]
      BY <2>1 DEF TypeOK, Phases
    <2>3. \A v \in Workers : serving[v] = None <=> phase'[v] \in {"idle", "ended"}
      BY <2>1 DEF TypeOK
    <2>4. \A v \in Workers : phase'[v] = "ended" <=> v <= told'
      BY <2>1 DEF TypeOK, Workers
    <2>5. QED
      BY <2>1, <2>2, <2>3, <2>4 DEF TypeOK, Phases, accepting
  <1>6. CASE Done \/ ReceiveQuit
    BY <1>6 DEF Done, ReceiveQuit, TypeOK, accepting, pool
  <1>7. CASE UNCHANGED vars
    BY <1>7, TalkTypes, <1>a DEF vars, accepting, pool, ending
  <1>8. QED
    BY <1>1, <1>2, <1>3, <1>4, <1>5, <1>6, <1>7 DEF Next, Serve

-----------------------------------------------------------------------------
(* PLACES *)

(* Steps that leave the places as they are. *)
LEMMA PlacesKept ==
    ASSUME OnePlace, UNCHANGED <<accepting, serving>>
    PROVE  OnePlace' /\ \A c \in Conns : AtServer(c)' <=> AtServer(c)
  BY DEF OnePlace, Once, InQueue, AtServer, accepting

(* A connection that is dialled is in the listener's queue only. *)
LEMMA PlacesDialled ==
    ASSUME TypeOK, OnePlace, NEW c \in Conns, ~ AtServer(c),
           backlog' = Append(backlog, c), UNCHANGED <<offered, connChan, serving>>
    PROVE  OnePlace' /\ \A d \in Conns : AtServer(d)' <=> AtServer(d) \/ d = c
  <1>1. /\ \A d : InQueue(d, backlog') <=> InQueue(d, backlog) \/ d = c
        /\ Once(backlog) /\ ~ InQueue(c, backlog) => Once(backlog')
    BY AppendQueue DEF TypeOK
  <1>2. \A d : InQueue(d, connChan') <=> InQueue(d, connChan)
    BY DEF InQueue
  <1>3. Once(connChan') <=> Once(connChan)
    BY DEF Once
  <1>4. \A d \in Conns : AtServer(d)' <=> AtServer(d) \/ d = c
    BY <1>1, <1>2 DEF AtServer
  <1>5. OnePlace'
    BY <1>1, <1>2, <1>3 DEF OnePlace, AtServer
  <1>6. QED
    BY <1>4, <1>5

(* A connection goes from the listener's queue to Serve. *)
LEMMA PlacesAccepted ==
    ASSUME TypeOK, OnePlace, Accept
    PROVE  OnePlace' /\ \A d \in Conns : AtServer(d)' <=> AtServer(d)
  <1>1. /\ offered = None /\ offered' = Head(backlog) /\ backlog' = Tail(backlog)
        /\ UNCHANGED <<connChan, serving>>
    BY DEF Accept, pool
  <1>2. /\ Head(backlog) \in Conns
        /\ \A d : InQueue(d, backlog) <=> d = Head(backlog) \/ InQueue(d, backlog')
        /\ Once(backlog')
        /\ ~ InQueue(Head(backlog), backlog')
    BY <1>1, TailQueue DEF Accept, TypeOK, OnePlace
  <1>3. \A d : InQueue(d, connChan') <=> InQueue(d, connChan)
    BY <1>1 DEF InQueue
  <1>4. Once(connChan') <=> Once(connChan)
    BY <1>1 DEF Once
  <1>5. \A d \in Conns : AtServer(d)' <=> AtServer(d)
    BY <1>1, <1>2, <1>3, OwnConns DEF AtServer
  <1>6. OnePlace'
    BY <1>1, <1>2, <1>3, <1>4, OwnConns DEF OnePlace
  <1>7. QED
    BY <1>5, <1>6

(* Serve puts the connection it has accepted into connChan. *)
LEMMA PlacesEnqueued ==
    ASSUME TypeOK, OnePlace, Enqueue
    PROVE  OnePlace' /\ \A d \in Conns : AtServer(d)' <=> AtServer(d)
  <1>1. /\ offered \in Conns /\ offered' = None /\ connChan' = Append(connChan, offered)
        /\ UNCHANGED <<backlog, serving>>
    BY DEF Enqueue, TypeOK, pool
  <1>2. /\ \A d : InQueue(d, connChan') <=> InQueue(d, connChan) \/ d = offered
        /\ Once(connChan) /\ ~ InQueue(offered, connChan) => Once(connChan')
    BY <1>1, AppendQueue DEF TypeOK
  <1>3. \A d : InQueue(d, backlog') <=> InQueue(d, backlog)
    BY <1>1 DEF InQueue
  <1>4. Once(backlog') <=> Once(backlog)
    BY <1>1 DEF Once
  <1>5. \A d \in Conns : AtServer(d)' <=> AtServer(d)
    BY <1>1, <1>2, <1>3, OwnConns DEF AtServer
  <1>6. offered # None
    BY <1>1, OwnConns
  <1>7. OnePlace'
    BY <1>1, <1>2, <1>3, <1>4, <1>6 DEF OnePlace
  <1>8. QED
    BY <1>5, <1>7

(* A worker takes the first connection of connChan. *)
LEMMA PlacesTaken ==
    ASSUME TypeOK, OnePlace, NEW w \in Workers, Take(w)
    PROVE  OnePlace' /\ \A d \in Conns : AtServer(d)' <=> AtServer(d)
  <1>1. /\ phase[w] = "idle" /\ connChan # <<>> /\ connChan' = Tail(connChan)
        /\ UNCHANGED <<backlog, offered>>
        /\ serving' = [serving EXCEPT ![w] = Head(connChan)]
    BY DEF Take
  <1>2. /\ Head(connChan) \in Conns
        /\ \A d : InQueue(d, connChan) <=> d = Head(connChan) \/ InQueue(d, connChan')
        /\ Once(connChan')
        /\ ~ InQueue(Head(connChan), connChan')
    BY <1>1, TailQueue DEF TypeOK, OnePlace
  <1>3. /\ serving[w] = None /\ serving'[w] = Head(connChan)
        /\ \A v \in Workers : v # w => serving'[v] = serving[v]
    BY <1>1 DEF TypeOK
  <1>4. \A d : InQueue(d, backlog') <=> InQueue(d, backlog)
    BY <1>1 DEF InQueue
  <1>5. Once(backlog') <=> Once(backlog)
    BY <1>1 DEF Once
  <1>6. \A d \in Conns : AtServer(d)' <=> AtServer(d)
    <2>1. ASSUME NEW d \in Conns
          PROVE  (\E v \in Workers : serving'[v] = d)
                   <=> (\E v \in Workers : serving[v] = d) \/ d = Head(connChan)
      BY <1>3, OwnConns
    <2>2. QED
      BY <1>1, <1>2, <1>4, <2>1 DEF AtServer
  <1>7. ASSUME NEW v \in Workers, serving'[v] # None
        PROVE  /\ serving'[v] # offered'
               /\ ~ InQueue(serving'[v], backlog') /\ ~ InQueue(serving'[v], connChan')
               /\ \A x \in Workers : serving'[x] = serving'[v] => x = v
    <2>1. ASSUME NEW x \in Workers, x # w PROVE serving[x] # Head(connChan)
      BY <1>2, OwnConns DEF OnePlace
    <2>2. CASE v = w
      BY <1>1, <1>2, <1>3, <1>4, <2>1, <2>2, OwnConns DEF OnePlace
    <2>3. CASE v # w
      BY <1>1, <1>2, <1>3, <1>4, <1>7, <2>1, <2>3 DEF OnePlace
    <2>4. QED
      BY <2>2, <2>3
  <1>8. OnePlace'
    BY <1>1, <1>2, <1>4, <1>5, <1>7 DEF OnePlace
  <1>9. QED
    BY <1>6, <1>8

(* A worker is done with its connection; all others stay where they are. *)
LEMMA PlacesLeft ==
    ASSUME TypeOK, OnePlace, NEW w \in Workers,
           serving' = [serving EXCEPT ![w] = None], UNCHANGED accepting
    PROVE  OnePlace' /\ \A d \in Conns : d # serving[w] => (AtServer(d)' <=> AtServer(d))
  <1>1. /\ serving'[w] = None
        /\ \A v \in Workers : v # w => serving'[v] = serving[v]
    BY DEF TypeOK
  <1>2. \A d : /\ InQueue(d, backlog') <=> InQueue(d, backlog)
               /\ InQueue(d, connChan') <=> InQueue(d, connChan)
    BY DEF InQueue, accepting
  <1>3. (Once(backlog') <=> Once(backlog)) /\ (Once(connChan') <=> Once(connChan))
    BY DEF Once, accepting
  <1>4. \A d \in Conns : d # serving[w] => (AtServer(d)' <=> AtServer(d))
    BY <1>1, <1>2, OwnConns DEF AtServer, accepting
  <1>5. OnePlace'
    BY <1>1, <1>2, <1>3 DEF OnePlace, accepting
  <1>6. QED
    BY <1>4, <1>5

(* No step puts a connection into two places. *)
LEMMA PlacesStep ==
    ASSUME TypeOK, OnePlace, [Next]_vars
    PROVE  OnePlace'
  <1>1. ASSUME NEW u \in Users, User(u) PROVE OnePlace'
    <2>1. ASSUME NEW c \in Conns, UserDial(u, c) PROVE OnePlace'
      BY <2>1, PlacesDialled DEF UserDial, Dial, pool
    <2>2. CASE ~ \E c \in Conns : UserDial(u, c)
      <3>1. UNCHANGED <<accepting, serving>>
        BY <1>1, <2>2 DEF User, UserSend, UserReceive, UserLost, UserClose, pool
      <3>2. QED
        BY <3>1, PlacesKept
    <2>3. QED
      BY <2>1, <2>2
  <1>2. ASSUME NEW w \in Workers, Worker(w) PROVE OnePlace'
    <2>1. CASE Take(w)
      BY <2>1, PlacesTaken
    <2>2. CASE Authenticate(w) \/ Register(w) \/ FetchKey(w) \/ StoreKey(w)
      <3>1. PICK i \in {1, 2} :
              ~ AtServer(<<w, i>>) /\ backlog' = Append(backlog, <<w, i>>)
        BY <2>2 DEF Authenticate, Register, FetchKey, StoreKey, Dial
      <3>2. UNCHANGED <<offered, connChan, serving>> /\ <<w, i>> \in Conns
        BY <2>2, OwnConns DEF Authenticate, Register, FetchKey, StoreKey
      <3>3. QED
        BY <3>1, <3>2, PlacesDialled
    <2>3. CASE AnswerNode(w) \/ Respond(w)
      <3>1. UNCHANGED <<accepting, serving>>
        BY <2>3 DEF AnswerNode, Respond, pool
      <3>2. QED
        BY <3>1, PlacesKept
    <2>4. CASE Drop(w) \/ EndOfFile(w)
      <3>1. serving' = [serving EXCEPT ![w] = None] /\ UNCHANGED accepting
        BY <2>4 DEF Drop, EndOfFile
      <3>2. QED
        BY <3>1, PlacesLeft
    <2>5. QED
      BY <1>2, <2>1, <2>2, <2>3, <2>4 DEF Worker, Handle
  <1>3. CASE Accept
    BY <1>3, PlacesAccepted
  <1>4. CASE Enqueue
    BY <1>4, PlacesEnqueued
  <1>5. CASE QuitWorker \/ Done \/ ReceiveQuit \/ UNCHANGED vars
    <2>1. UNCHANGED <<accepting, serving>>
      BY <1>5 DEF QuitWorker, Done, ReceiveQuit, vars, pool, accepting
    <2>2. QED
      BY <2>1, PlacesKept
  <1>6. QED
    BY <1>1, <1>2, <1>3, <1>4, <1>5 DEF Next, Serve

-----------------------------------------------------------------------------
(* THE EXCHANGE *)

(* A connection is a user's or a worker's. *)
LEMMA Dialler == \A c \in Conns : c[1] \in Users \/ c[1] \in Workers
  BY DEF Conns

(* While a worker calls, it serves a user's connection.                     *)
LEMMA CallsForUser ==
    ASSUME TypeOK, OwnTalk, CallsNest, NEW w \in Workers, Calling(w)
    PROVE  /\ serving[w] \in Conns /\ talk[serving[w]] = "handled"
           /\ serving[w][1] \in Users /\ serving[w][1] \notin Workers
           /\ \A v \in Workers, i \in {1, 2} : serving[w] # <<v, i>>
  <1>1. talk[serving[w]] = "handled"
    BY DEF CallsNest
  <1>2. serving[w] \in Conns
    BY DEF TypeOK, Calling
  <1>3. \A v \in Workers, i \in {1, 2} : serving[w] # <<v, i>>
    BY <1>1 DEF OwnTalk
  <1>4. serving[w][1] \notin Workers
    BY <1>2, <1>3, OwnConns
  <1>5. QED
    BY <1>1, <1>2, <1>3, <1>4, Dialler

(* The connection of a call is open until the answer is there. *)
LEMMA CallsAreOpen ==
    ASSUME CallsNest, NEW w \in Workers, Calling(w)
    PROVE  CallOf(w) \in open /\ talk[CallOf(w)] \in {"node", "answered"}
  BY DEF CallsNest

(* Steps in which no worker's connection is concerned. *)
LEMMA OwnTalkKept ==
    ASSUME OwnTalk, UNCHANGED phase,
           \A w \in Workers, i \in {1, 2} : talk'[<<w, i>>] = talk[<<w, i>>]
    PROVE  OwnTalk'
  <1>1. \A w \in Workers : (Calling(w)' <=> Calling(w)) /\ CallOf(w)' = CallOf(w)
    BY DEF Calling, CallOf
  <1>2. ASSUME NEW w \in Workers, NEW i \in {1, 2}
        PROVE  /\ talk'[<<w, i>>] \in {"none", "node", "answered"}
               /\ talk'[<<w, i>>] # "none" => Calling(w)' /\ CallOf(w)' = <<w, i>>
    BY <1>1 DEF OwnTalk
  <1>3. QED
    BY <1>2 DEF OwnTalk

(* Steps of the server that leave the exchange as it is: a connection is    *)
(* moved, or an idle worker ends or begins to read.                         *)
LEMMA ExchangeKept ==
    ASSUME TypeOK, Exchange, UNCHANGED <<open, talk>>, Present',
           \A w \in Workers : Calling(w) => phase'[w] = phase[w] /\ serving'[w] = serving[w],
           \A w \in Workers : ~ Calling(w) => ~ Calling(w)'
    PROVE  Exchange'
  <1>1. \A w \in Workers : /\ Calling(w)' <=> Calling(w)
                           /\ Calling(w) => CallOf(w)' = CallOf(w)
    BY DEF Calling, CallOf
  <1>2. Handling'
    BY <1>1 DEF Handling, Exchange
  <1>3. Quiet' /\ OneWait'
    BY DEF Quiet, OneWait, Exchange
  <1>4. OwnTalk'
    BY <1>1 DEF OwnTalk, Exchange
  <1>5. CallsNest'
    BY <1>1 DEF CallsNest, Exchange, Held
  <1>6. QED
    BY <1>2, <1>3, <1>4, <1>5 DEF Exchange

(* A user opens one more connection. *)
LEMMA UserDialExchange ==
    ASSUME TypeOK, OnePlace, Exchange, NEW u \in Users, NEW c \in Conns, UserDial(u, c)
    PROVE  Exchange'
  <1>1. /\ c[1] = u /\ c \notin open /\ open' = open \cup {c}
        /\ UNCHANGED <<talk, phase, serving>>
        /\ talk[c] = "none"
    BY DEF UserDial, Dial, pool, Exchange, Quiet, Present
  <1>2. \A d \in Conns : AtServer(d)' <=> AtServer(d) \/ d = c
    BY PlacesDialled DEF UserDial, Dial, pool
  <1>3. Present'
    BY <1>1, <1>2 DEF Present, Exchange, TypeOK
  <1>4. Quiet'
    BY <1>1 DEF Quiet, Exchange
  <1>5. OneWait'
    BY <1>1 DEF OneWait, Exchange
  <1>6. OwnTalk'
    BY <1>1 DEF OwnTalk, Exchange, Calling, CallOf
  <1>7. \A w \in Workers : Held(w)' = Held(w)
    BY <1>1, OwnConns DEF Held
  <1>8. CallsNest'
    BY <1>1, <1>7 DEF CallsNest, Exchange, Calling, CallOf
  <1>9. Handling'
    BY <1>1 DEF Handling, Exchange, Calling
  <1>10. QED
    BY <1>3, <1>4, <1>5, <1>6, <1>8, <1>9 DEF Exchange

(* A user's connection gets a request, or its answer is read. *)
LEMMA UserTalkExchange ==
    ASSUME TypeOK, Exchange, NEW u \in Users, NEW c \in Held(u), NEW what,
           \/ ~ Waiting(u) /\ what \in {"user", "register"}
           \/ talk[c] = "answered" /\ what = "none",
           talk' = [talk EXCEPT ![c] = what],
           UNCHANGED <<open, accepting, pool>>
    PROVE  Exchange'
  <1>1. c \in open /\ c \in Conns /\ c[1] = u
    BY DEF Held, TypeOK
  <1>2. /\ talk'[c] = what
        /\ \A d \in Conns : d # c => talk'[d] = talk[d]
        /\ UNCHANGED <<phase, serving>>
    BY <1>1 DEF TypeOK, pool
  <1>3. \A d : AtServer(d)' <=> AtServer(d)
    BY <1>2 DEF AtServer, InQueue, accepting
  <1>4. \A w \in Workers, i \in {1, 2} : c # <<w, i>>
    BY <1>1, OwnConns
  <1>5. talk[c] # "handled" /\ talk[c] # "dropped"
    BY <1>1 DEF Waiting, Held
  <1>6. Present'
    BY <1>1, <1>2, <1>3, <1>5 DEF Present, Exchange, TypeOK
  <1>7. Quiet'
    BY <1>1, <1>2 DEF Quiet, Exchange
  <1>8. OneWait'
    <2>1. ASSUME NEW d \in open, d[1] = u, talk[d] # "none", d # c PROVE what = "none"
      BY <1>1, <2>1 DEF Waiting, Held
    <2>2. QED
      BY <1>1, <1>2, <2>1 DEF OneWait, Exchange, TypeOK
  <1>9. OwnTalk'
    <2>1. ASSUME NEW w \in Workers, NEW i \in {1, 2} PROVE talk'[<<w, i>>] = talk[<<w, i>>]
      BY <1>2, <1>4, OwnConns
    <2>2. QED
      BY <1>2, <2>1, OwnTalkKept DEF Exchange
  <1>10. CallsNest'
    <2>1. ASSUME NEW w \in Workers, Calling(w)
          PROVE  /\ talk'[serving[w]] = "handled" /\ talk'[CallOf(w)] = talk[CallOf(w)]
      <3>1. serving[w] # c /\ serving[w] \in Conns
        BY <1>5, <2>1, CallsForUser DEF Exchange
      <3>2. CallOf(w) # c /\ CallOf(w) \in Conns
        BY <1>4, CallIsOwn
      <3>3. QED
        BY <1>2, <2>1, <3>1, <3>2, CallsForUser DEF Exchange
    <2>2. QED
      BY <1>2, <2>1 DEF CallsNest, Exchange, Calling, CallOf, Held
  <1>11. Handling'
    BY <1>1, <1>2 DEF Handling, Exchange, Calling
  <1>12. QED
    BY <1>6, <1>7, <1>8, <1>9, <1>10, <1>11 DEF Exchange

(* A user closes connections, in the middle of a request or not; only what  *)
(* nobody reads any more goes with them.                                    *)
LEMMA UserEndExchange ==
    ASSUME TypeOK, Exchange, NEW u \in Users, NEW closed \in SUBSET Held(u),
           open' = open \ closed,
           talk' \in [Conns -> Talks],
           \A c \in closed :
               talk'[c] = IF talk[c] \in {"answered", "dropped"} THEN "none" ELSE talk[c],
           \A c \in Conns \ closed : talk'[c] = talk[c],
           UNCHANGED <<accepting, pool>>
    PROVE  Exchange'
  <1>1. UNCHANGED <<phase, serving>> /\ open \subseteq Conns /\ closed \subseteq open
    BY DEF pool, TypeOK, Held
  <1>2. \A d : AtServer(d)' <=> AtServer(d)
    BY <1>1 DEF AtServer, InQueue, accepting
  <1>3. \A c \in closed : c[1] = u /\ c[1] \notin Workers
    BY OwnConns DEF Held, TypeOK
  <1>a. \A c \in Conns : talk'[c] \notin {"none"} => talk'[c] = talk[c]
    BY <1>1
  <1>b. \A c \in Conns : talk[c] \notin {"answered", "dropped"} => talk'[c] = talk[c]
    BY <1>1
  <1>4. Present'
    BY <1>1, <1>2, <1>a DEF Present, Exchange
  <1>5. Quiet'
    <2>1. ASSUME NEW c \in Conns, c \notin open' PROVE talk'[c] \notin {"node", "answered", "dropped"}
      <3>1. CASE c \in closed
        BY <1>1, <1>3, <3>1 DEF Quiet, Exchange
      <3>2. CASE c \notin closed
        BY <2>1, <3>2 DEF Quiet, Exchange
      <3>3. QED
        BY <3>1, <3>2
    <2>2. \A c \in Conns : c[1] \in Users => talk'[c] # "node"
      BY <1>a DEF Quiet, Exchange
    <2>3. QED
      BY <2>1, <2>2 DEF Quiet
  <1>6. OneWait'
    BY <1>1, <1>a DEF OneWait, Exchange
  <1>7. OwnTalk'
    <2>1. ASSUME NEW w \in Workers, NEW i \in {1, 2} PROVE talk'[<<w, i>>] = talk[<<w, i>>]
      <3>1. <<w, i>> \in Conns /\ <<w, i>>[1] \in Workers
        BY OwnConns
      <3>2. QED
        BY <1>3, <3>1
    <2>2. QED
      BY <1>1, <2>1, OwnTalkKept DEF Exchange
  <1>8. \A w \in Workers : Held(w)' = Held(w)
    BY <1>1, <1>3 DEF Held
  <1>9. CallsNest'
    <2>1. ASSUME NEW w \in Workers, Calling(w)
          PROVE  /\ talk'[serving[w]] = "handled"
                 /\ CallOf(w) \in open' /\ talk'[CallOf(w)] = talk[CallOf(w)]
      <3>1. CallOf(w) \in Conns /\ CallOf(w)[1] = w /\ CallOf(w) \in open
        BY <2>1, CallIsOwn, CallsAreOpen DEF Exchange
      <3>2. serving[w] \in Conns /\ talk[serving[w]] = "handled"
        BY <2>1, CallsForUser DEF Exchange
      <3>3. QED
        BY <1>3, <1>b, <3>1, <3>2
    <2>2. QED
      BY <1>1, <1>8, <2>1 DEF CallsNest, Exchange, Calling, CallOf
  <1>10. Handling'
    BY <1>1, <1>a DEF Handling, Exchange, Calling
  <1>11. QED
    BY <1>4, <1>5, <1>6, <1>7, <1>9, <1>10 DEF Exchange

(* A worker answers a call of the server to itself. *)
LEMMA AnswerNodeExchange ==
    ASSUME TypeOK, Exchange, NEW w \in Workers, AnswerNode(w)
    PROVE  Exchange'
  <1> DEFINE c == serving[w]
  <1>1. /\ phase[w] = "read" /\ talk[c] = "node" /\ c \in Conns
        /\ UNCHANGED <<open, accepting, phase, serving>>
        /\ talk' = [talk EXCEPT ![c] = "answered"]
    BY DEF AnswerNode, TypeOK, pool
  <1>2. /\ c \in open /\ talk'[c] = "answered"
        /\ \A d \in Conns : d # c => talk'[d] = talk[d]
    BY <1>1 DEF TypeOK, Exchange, Quiet
  <1> HIDE DEF c
  <1>3. \A d : AtServer(d)' <=> AtServer(d)
    BY <1>1 DEF AtServer, InQueue, accepting
  <1>4. Present'
    BY <1>1, <1>2, <1>3 DEF Present, Exchange, TypeOK
  <1>5. Quiet'
    BY <1>1, <1>2 DEF Quiet, Exchange
  <1>6. OneWait'
    BY <1>1, <1>2 DEF OneWait, Exchange, TypeOK
  <1>7. OwnTalk'
    <2>1. ASSUME NEW v \in Workers, NEW i \in {1, 2}
          PROVE  /\ talk'[<<v, i>>] \in {"none", "node", "answered"}
                 /\ talk'[<<v, i>>] # "none" => talk[<<v, i>>] # "none"
      <3>1. <<v, i>> \in Conns
        BY OwnConns
      <3>2. talk[<<v, i>>] \in {"none", "node", "answered"}
        BY DEF Exchange, OwnTalk
      <3>3. QED
        BY <1>1, <1>2, <3>1, <3>2
    <2>2. \A v \in Workers : (Calling(v)' <=> Calling(v)) /\ CallOf(v)' = CallOf(v)
      BY <1>1 DEF Calling, CallOf
    <2>3. ASSUME NEW v \in Workers, NEW i \in {1, 2}
          PROVE  talk'[<<v, i>>] # "none" => Calling(v)' /\ CallOf(v)' = <<v, i>>
      BY <2>1, <2>2 DEF Exchange, OwnTalk
    <2>4. QED
      BY <2>1, <2>3 DEF OwnTalk
  <1>8. CallsNest'
    <2>1. ASSUME NEW v \in Workers, Calling(v)
          PROVE  /\ talk'[serving[v]] = "handled"
                 /\ talk'[CallOf(v)] \in {"node", "answered"}
      <3>1. serving[v] # c /\ serving[v] \in Conns /\ talk[serving[v]] = "handled"
        BY <1>1, <2>1, CallsForUser DEF Exchange
      <3>2. CallOf(v) \in Conns /\ talk[CallOf(v)] \in {"node", "answered"}
        BY <2>1, CallIsOwn, CallsAreOpen DEF Exchange
      <3>3. QED
        BY <1>2, <3>1, <3>2
    <2>2. QED
      BY <1>1, <2>1 DEF CallsNest, Exchange, Calling, CallOf, Held
  <1>9. Handling'
    BY <1>1, <1>2 DEF Handling, Exchange, Calling
  <1>10. QED
    BY <1>4, <1>5, <1>6, <1>7, <1>8, <1>9 DEF Exchange

(* A worker that does not call holds nothing, so a connection that it opens *)
(* is its only one.                                                         *)
LEMMA HoldsCall ==
    ASSUME CallsNest, NEW w \in Workers, ~ Calling(w)
    PROVE  Held(w) = {}
  BY DEF CallsNest

(* A worker begins to call for the request it has read. *)
LEMMA BeginCallExchange ==
    ASSUME TypeOK, OnePlace, Exchange, NEW w \in Workers, NEW to \in {"auth1", "reg1"},
           phase[w] = "read", talk[serving[w]] \in {"user", "register"},
           Dial(<<w, 1>>),
           talk' = [talk EXCEPT ![serving[w]] = "handled", ![<<w, 1>>] = "node"],
           phase' = [phase EXCEPT ![w] = to],
           UNCHANGED <<offered, connChan, serving>>
    PROVE  Exchange'
  <1> DEFINE c == serving[w]
             call == <<w, 1>>
  <1>1. /\ c \in Conns
        /\ call \in Conns /\ call \notin open /\ c # call /\ ~ AtServer(call)
        /\ open' = open \cup {call}
    BY OwnConns DEF TypeOK, Exchange, OwnTalk, Dial
  <1>2. /\ talk'[c] = "handled" /\ talk'[call] = "node"
        /\ \A d \in Conns : d # c /\ d # call => talk'[d] = talk[d]
    BY <1>1 DEF TypeOK
  <1>3. /\ phase'[w] = to /\ \A v \in Workers : v # w => phase'[v] = phase[v]
        /\ ~ Calling(w)
    BY DEF TypeOK, Calling
  <1>4. \A v \in Workers, i \in {1, 2} : c # <<v, i>>
    BY DEF Exchange, OwnTalk
  <1>5. talk[c] # "none" /\ talk[c] # "handled" /\ talk[c] # "dropped"
    OBVIOUS
  <1>6. backlog' = Append(backlog, call)
    BY DEF Dial
  <1>7. call[1] = w /\ call[1] \notin Users
    BY OwnConns
  <1>8. CallOf(w)' = call /\ Calling(w)'
    BY <1>3 DEF CallOf, Calling
  <1>9. \A v \in Workers : v # w => (Calling(v)' <=> Calling(v)) /\ CallOf(v)' = CallOf(v)
    BY <1>3 DEF Calling, CallOf
  <1>10. \A v \in Workers, i \in {1, 2} : <<v, i>> = call => v = w
    OBVIOUS
  <1>11. serving[w] = c
    OBVIOUS
  <1> HIDE DEF c
  <1>12. \A d \in Conns : AtServer(d)' <=> AtServer(d) \/ d = call
    BY <1>1, <1>6, PlacesDialled
  <1>13. Present'
    BY <1>1, <1>2, <1>5, <1>12 DEF Present, Exchange, TypeOK
  <1>14. Quiet'
    BY <1>1, <1>2, <1>7 DEF Quiet, Exchange
  <1>15. OneWait'
    <2>1. ASSUME NEW d \in open', d[1] \in Users, talk'[d] # "none"
          PROVE  d \in open /\ talk[d] # "none"
      BY <1>1, <1>2, <1>5, <1>7, <2>1 DEF TypeOK
    <2>2. QED
      BY <2>1 DEF OneWait, Exchange
  <1>16. OwnTalk'
    <2>1. ASSUME NEW v \in Workers, NEW i \in {1, 2}
          PROVE  /\ talk'[<<v, i>>] \in {"none", "node", "answered"}
                 /\ talk'[<<v, i>>] # "none" => Calling(v)' /\ CallOf(v)' = <<v, i>>
      <3>1. <<v, i>> \in Conns /\ <<v, i>> # c
        BY <1>4, OwnConns
      <3>2. CASE <<v, i>> = call
        BY <1>2, <1>8, <1>10, <3>2
      <3>3. CASE <<v, i>> # call
        <4>1. talk'[<<v, i>>] = talk[<<v, i>>]
          BY <1>2, <3>1, <3>3
        <4>2. talk[<<v, i>>] # "none" => v # w
          BY <1>3 DEF Exchange, OwnTalk
        <4>3. QED
          BY <1>9, <4>1, <4>2 DEF Exchange, OwnTalk
      <3>4. QED
        BY <3>2, <3>3
    <2>2. QED
      BY <2>1 DEF OwnTalk
  <1>17. CallsNest'
    <2>1. ASSUME NEW v \in Workers, v # w, Calling(v)
          PROVE  /\ talk'[serving[v]] = "handled"
                 /\ CallOf(v) \in open' /\ talk'[CallOf(v)] \in {"node", "answered"}
                 /\ serving[v] # CallOf(v)
      <3>1. /\ serving[v] \in Conns /\ serving[v] # c /\ serving[v] # call
            /\ talk[serving[v]] = "handled"
        BY <1>5, <1>11, <2>1, CallsForUser DEF Exchange
      <3>2. /\ CallOf(v) \in Conns /\ CallOf(v) \in open /\ CallOf(v) # c
            /\ talk[CallOf(v)] \in {"node", "answered"}
        BY <1>4, <2>1, CallIsOwn, CallsAreOpen DEF Exchange
      <3>3. QED
        BY <1>1, <1>2, <3>1, <3>2
    <2>2. ASSUME NEW v \in Workers, v # w, ~ Calling(v) PROVE Held(v)' = {}
      <3>1. Held(v)' = Held(v)
        BY <1>1, <1>7, <2>2 DEF Held
      <3>2. QED
        BY <2>2, <3>1, HoldsCall DEF Exchange
    <2>3. /\ talk'[serving[w]] = "handled"
          /\ call \in open' /\ talk'[call] = "node" /\ serving[w] # call
      BY <1>1, <1>2, <1>11
    <2>4. QED
      BY <1>8, <1>9, <2>1, <2>2, <2>3 DEF CallsNest
  <1>18. Handling'
    <2>1. ASSUME NEW d \in Conns, talk'[d] = "handled"
          PROVE  \E v \in Workers : Calling(v)' /\ serving'[v] = d
      <3>1. CASE d = c
        BY <1>8, <1>11, <3>1
      <3>2. CASE d # c
        <4>1. talk[d] = "handled"
          BY <1>2, <2>1, <3>2
        <4>2. PICK v \in Workers : Calling(v) /\ serving[v] = d
          BY <4>1 DEF Handling, Exchange
        <4>3. v # w
          BY <1>3, <4>2
        <4>4. QED
          BY <1>9, <4>2, <4>3
      <3>3. QED
        BY <3>1, <3>2
    <2>2. QED
      BY <2>1 DEF Handling
  <1>19. QED
    BY <1>13, <1>14, <1>15, <1>16, <1>17, <1>18 DEF Exchange

(* The answer of the first call is there: the worker makes the second, over *)
(* another connection, and closes the first one or keeps it.                *)
LEMMA NextCallExchange ==
    ASSUME TypeOK, OnePlace, Exchange, NEW w \in Workers, NEW to \in {"auth2", "reg2"},
           NEW closed \in SUBSET {<<w, 1>>},
           phase[w] \in {"auth1", "reg1"}, CallAnswered(w),
           <<w, 2>> \notin open, ~ AtServer(<<w, 2>>),
           open' = (open \ closed) \cup {<<w, 2>>},
           backlog' = Append(backlog, <<w, 2>>),
           talk' = [talk EXCEPT ![<<w, 1>>] = "none", ![<<w, 2>>] = "node"],
           phase' = [phase EXCEPT ![w] = to],
           UNCHANGED <<offered, connChan, serving>>
    PROVE  Exchange'
  <1> DEFINE old == <<w, 1>>
             call == <<w, 2>>
  <1>1. /\ old \in Conns /\ call \in Conns /\ old # call
        /\ Calling(w) /\ CallOf(w) = old /\ talk[old] = "answered"
    BY OwnConns DEF Calling, CallOf, CallAnswered
  <1>2. /\ talk'[old] = "none" /\ talk'[call] = "node"
        /\ \A d \in Conns : d # old /\ d # call => talk'[d] = talk[d]
    BY <1>1 DEF TypeOK
  <1>3. phase'[w] = to /\ \A v \in Workers : v # w => phase'[v] = phase[v]
    BY DEF TypeOK
  <1>4. CallOf(w)' = call /\ Calling(w)'
    BY <1>3 DEF CallOf, Calling
  <1>5. \A v \in Workers : v # w => (Calling(v)' <=> Calling(v)) /\ CallOf(v)' = CallOf(v)
    BY <1>3 DEF Calling, CallOf
  <1>6. /\ old[1] = w /\ call[1] = w /\ w \notin Users
        /\ \A v \in Workers, i \in {1, 2} :
             v # w => <<v, i>> # old /\ <<v, i>> # call
    BY OwnConns
  <1>7. \A d \in open : d # old => d \in open'
    OBVIOUS
  <1>8. \A d \in open' : d = call \/ d \in open
    OBVIOUS
  <1>9. call \in open' /\ call \notin open
    OBVIOUS
  <1>10. \A d \in open : d \in open' \/ d = old
    OBVIOUS
  <1>11. \A v \in Workers, i \in {1, 2} : v = w => <<v, i>> = old \/ <<v, i>> = call
    OBVIOUS
  <1>12. \A d \in Conns : AtServer(d)' <=> AtServer(d) \/ d = call
    BY <1>1, PlacesDialled
  <1> HIDE DEF old, call
  <1>13. Present'
    <2>1. ASSUME NEW d \in Conns, d \in open' \/ talk'[d] # "none", talk'[d] # "dropped"
          PROVE  AtServer(d)'
      <3>1. CASE d = call
        BY <1>1, <1>12, <3>1
      <3>2. CASE d # call
        <4>1. d \in open \/ talk[d] # "none"
          BY <1>1, <1>2, <1>8, <2>1, <3>2
        <4>2. talk[d] # "dropped"
          BY <1>1, <1>2, <2>1, <3>2
        <4>3. QED
          BY <1>12, <2>1, <4>1, <4>2 DEF Exchange, Present
      <3>3. QED
        BY <3>1, <3>2
    <2>2. QED
      BY <2>1 DEF Present
  <1>14. Quiet'
    BY <1>1, <1>2, <1>6, <1>7, <1>9 DEF Quiet, Exchange
  <1>15. OneWait'
    <2>1. ASSUME NEW d \in open', d[1] \in Users
          PROVE  d \in open /\ talk'[d] = talk[d]
      BY <1>2, <1>6, <1>8, <2>1 DEF TypeOK
    <2>2. QED
      BY <2>1 DEF OneWait, Exchange
  <1>16. OwnTalk'
    <2>1. ASSUME NEW v \in Workers, NEW i \in {1, 2}
          PROVE  /\ talk'[<<v, i>>] \in {"none", "node", "answered"}
                 /\ talk'[<<v, i>>] # "none" => Calling(v)' /\ CallOf(v)' = <<v, i>>
      <3>1. <<v, i>> \in Conns
        BY OwnConns
      <3>2. CASE v = w
        BY <1>2, <1>4, <1>11, <3>2
      <3>3. CASE v # w
        <4>1. talk'[<<v, i>>] = talk[<<v, i>>]
          BY <1>2, <1>6, <3>1, <3>3
        <4>2. QED
          BY <1>5, <3>3, <4>1 DEF Exchange, OwnTalk
      <3>4. QED
        BY <3>2, <3>3
    <2>2. QED
      BY <2>1 DEF OwnTalk
  <1>17. CallsNest'
    <2>1. ASSUME NEW v \in Workers, Calling(v)
          PROVE  /\ serving[v] \in Conns /\ talk'[serving[v]] = "handled"
                 /\ serving[v] # old /\ serving[v] # call
      <3>1. /\ serving[v] \in Conns
            /\ talk[serving[v]] = "handled" /\ serving[v][1] # w
        BY <2>1, CallsForUser DEF Exchange
      <3>2. QED
        BY <1>2, <1>6, <1>7, <3>1
    <2>2. ASSUME NEW v \in Workers, v # w, Calling(v)
          PROVE  /\ CallOf(v) \in open' /\ talk'[CallOf(v)] \in {"node", "answered"}
                 /\ serving[v] # CallOf(v)
      <3>1. /\ CallOf(v) \in Conns /\ CallOf(v) # old /\ CallOf(v) # call
        BY <1>6, <2>2, CallIsOwn
      <3>2. QED
        BY <1>2, <1>7, <2>2, <3>1, CallsAreOpen DEF Exchange, CallsNest
    <2>3. ASSUME NEW v \in Workers, v # w, ~ Calling(v) PROVE Held(v)' = {}
      <3>1. Held(v) = {}
        BY <2>3, HoldsCall DEF Exchange
      <3>2. QED
        BY <1>6, <1>8, <2>3, <3>1 DEF Held
    <2>4. QED
      BY <1>1, <1>2, <1>4, <1>5, <1>9, <2>1, <2>2, <2>3 DEF CallsNest
  <1>18. Handling'
    <2>1. ASSUME NEW d \in Conns, talk'[d] = "handled" PROVE talk[d] = "handled"
      BY <1>2, <2>1
    <2>2. \A v \in Workers : Calling(v) => Calling(v)'
      BY <1>4, <1>5
    <2>3. QED
      BY <2>1, <2>2 DEF Handling, Exchange
  <1>19. QED
    BY <1>13, <1>14, <1>15, <1>16, <1>17, <1>18 DEF Exchange

(* The answer of the second call is there: the worker closes what it holds  *)
(* and answers the request it serves, or gives it up.                       *)
LEMMA EndCallExchange ==
    ASSUME TypeOK, OnePlace, Exchange, NEW w \in Workers, NEW to \in {"read", "idle"},
           NEW out \in {"answered", "dropped"},
           phase[w] \in {"auth2", "reg2"}, CallAnswered(w),
           open' = open \ Held(w),
           talk' = [talk EXCEPT ![CallOf(w)] = "none", ![serving[w]] = Answer(serving[w], out)],
           phase' = [phase EXCEPT ![w] = to],
           UNCHANGED accepting,
           \/ UNCHANGED serving
           \/ out = "dropped" /\ serving' = [serving EXCEPT ![w] = None]
    PROVE  Exchange'
  <1> DEFINE c == serving[w]
             call == <<w, 2>>
  <1>1. /\ call \in Conns /\ Calling(w) /\ ~ Calling(w)' /\ CallOf(w) = call
        /\ phase'[w] = to /\ \A v \in Workers : v # w => phase'[v] = phase[v]
    BY OwnConns DEF Calling, CallOf, CallAnswered, TypeOK
  <1>2. /\ c \in Conns /\ talk[c] = "handled"
        /\ c[1] \in Users /\ c[1] \notin Workers
    BY <1>1, CallsForUser DEF Exchange
  <1>3. call[1] = w /\ c # call
    BY <1>2
  <1>4. /\ talk'[c] = Answer(c, out) /\ talk'[call] = "none"
        /\ \A d \in Conns : d # c /\ d # call => talk'[d] = talk[d]
    BY <1>1, <1>2, <1>3 DEF TypeOK
  <1>a. /\ c \in open => talk'[c] = out
        /\ c \notin open => talk'[c] = "none"
    BY <1>4 DEF Answer
  <1>5. \A v \in Workers : v # w => (Calling(v)' <=> Calling(v)) /\ CallOf(v)' = CallOf(v)
    BY <1>1 DEF Calling, CallOf
  <1>6. \A v \in Workers : v # w => serving'[v] = serving[v]
    BY DEF TypeOK
  <1>7. \A d \in Conns : d # c \/ out # "dropped" => (AtServer(d) => AtServer(d)')
    <2>1. CASE UNCHANGED serving
      BY <2>1 DEF AtServer, InQueue, accepting
    <2>2. CASE out = "dropped" /\ serving' = [serving EXCEPT ![w] = None]
      <3>1. \A d : \A v \in Workers : serving[v] = d /\ d # c => serving'[v] = d
        BY <1>6
      <3>2. QED
        BY <2>2, <3>1 DEF AtServer, InQueue, accepting
    <2>3. QED
      BY <2>1, <2>2
  <1>8. /\ \A d \in Conns : d[1] # w => (d \in open' <=> d \in open)
        /\ \A d \in open' : d \in open /\ d[1] # w /\ d \in Conns
    BY DEF Held, TypeOK
  <1>9. serving[w] = c
    OBVIOUS
  <1>10. \A v \in Workers, i \in {1, 2} : <<v, i>> \in Conns /\ <<v, i>>[1] = v
    BY OwnConns
  <1> HIDE DEF c, call
  <1>11. Present'
    <2>1. ASSUME NEW d \in Conns, d \in open' \/ talk'[d] # "none", talk'[d] # "dropped"
          PROVE  AtServer(d)'
      <3>1. d # call
        BY <1>3, <1>4, <1>8, <2>1
      <3>2. d = c => d \in open /\ out # "dropped"
        BY <1>8, <1>a, <2>1
      <3>3. talk[d] # "dropped" /\ (d \in open \/ talk[d] # "none")
        BY <1>2, <1>4, <1>8, <2>1, <3>1, <3>2
      <3>4. QED
        BY <1>7, <2>1, <3>2, <3>3 DEF Exchange, Present
    <2>2. QED
      BY <2>1 DEF Present
  <1>12. Quiet'
    <2>1. ASSUME NEW d \in Conns, d \notin open'
          PROVE  talk'[d] \notin {"node", "answered", "dropped"}
      <3>1. CASE d = call
        BY <1>4, <3>1
      <3>2. CASE d # call /\ d[1] = w
        <4>1. d = <<w, 1>> \/ d = <<w, 2>>
          BY <3>2, OwnConns
        <4>2. talk[d] = "none"
          BY <1>1, <3>2, <4>1 DEF Exchange, OwnTalk
        <4>3. QED
          BY <1>2, <1>4, <3>2, <4>2
      <3>3. CASE d[1] # w
        <4>1. d \notin open /\ d # call
          BY <1>3, <1>8, <2>1, <3>3
        <4>2. CASE d = c
          BY <1>a, <4>1, <4>2
        <4>3. CASE d # c
          BY <1>4, <4>1, <4>3 DEF Exchange, Quiet
        <4>4. QED
          BY <4>2, <4>3
      <3>4. QED
        BY <3>1, <3>2, <3>3
    <2>2. ASSUME NEW d \in Conns, d[1] \in Users PROVE talk'[d] # "node"
      <3>1. talk[d] # "node"
        BY <2>2 DEF Exchange, Quiet
      <3>2. QED
        BY <1>4, <1>a, <3>1
    <2>3. QED
      BY <2>1, <2>2 DEF Quiet
  <1>13. OneWait'
    <2>1. ASSUME NEW d \in open', talk'[d] # "none" PROVE d \in open /\ talk[d] # "none"
      <3>1. d \in open /\ d \in Conns /\ d # call
        BY <1>3, <1>8
      <3>2. QED
        BY <1>2, <1>4, <2>1, <3>1
    <2>2. QED
      BY <2>1 DEF OneWait, Exchange
  <1>14. OwnTalk'
    <2>1. ASSUME NEW v \in Workers, NEW i \in {1, 2}
          PROVE  /\ talk'[<<v, i>>] \in {"none", "node", "answered"}
                 /\ talk'[<<v, i>>] # "none" => Calling(v)' /\ CallOf(v)' = <<v, i>>
      <3>1. <<v, i>> # c
        BY <1>2, <1>10
      <3>2. CASE <<v, i>> = call
        BY <1>4, <3>2
      <3>3. CASE <<v, i>> # call
        <4>1. talk'[<<v, i>>] = talk[<<v, i>>]
          BY <1>4, <1>10, <3>1, <3>3
        <4>2. talk[<<v, i>>] # "none" => v # w
          BY <1>1, <3>3 DEF Exchange, OwnTalk
        <4>3. QED
          BY <1>5, <4>1, <4>2 DEF Exchange, OwnTalk
      <3>4. QED
        BY <3>2, <3>3
    <2>2. QED
      BY <2>1 DEF OwnTalk
  <1>15. CallsNest'
    <2>1. ASSUME NEW v \in Workers, v # w, Calling(v)
          PROVE  /\ talk'[serving[v]] = "handled"
                 /\ CallOf(v) \in open' /\ talk'[CallOf(v)] \in {"node", "answered"}
                 /\ serving[v] # CallOf(v)
      <3>1. /\ serving[v] \in Conns /\ serving[v][1] \in Users
            /\ serving[v][1] \notin Workers /\ talk[serving[v]] = "handled"
        BY <2>1, CallsForUser DEF Exchange
      <3>2. serving[v] # c
        BY <1>2, <1>9, <2>1, <3>1 DEF OnePlace, TypeOK
      <3>3. /\ CallOf(v) \in Conns /\ CallOf(v) \in open /\ CallOf(v)[1] = v
            /\ talk[CallOf(v)] \in {"node", "answered"}
        BY <2>1, CallIsOwn, CallsAreOpen DEF Exchange
      <3>4. CallOf(v) # c /\ CallOf(v) # call /\ serving[v] # call
        BY <1>2, <1>3, <2>1, <3>1, <3>3
      <3>5. QED
        BY <1>4, <1>8, <2>1, <3>1, <3>2, <3>3, <3>4
    <2>2. ASSUME NEW v \in Workers, ~ Calling(v) \/ v = w PROVE Held(v)' = {}
      <3>1. CASE v = w
        BY <1>8, <3>1 DEF Held
      <3>2. CASE v # w
        <4>1. Held(v) = {}
          BY <2>2, <3>2, HoldsCall DEF Exchange
        <4>2. QED
          BY <1>8, <4>1 DEF Held
      <3>3. QED
        BY <3>1, <3>2
    <2>3. QED
      BY <1>1, <1>5, <1>6, <2>1, <2>2 DEF CallsNest
  <1>16. Handling'
    <2>1. ASSUME NEW d \in Conns, talk'[d] = "handled" PROVE d # c /\ talk[d] = "handled"
      BY <1>4, <1>a, <2>1
    <2>2. ASSUME NEW d \in Conns, talk'[d] = "handled"
          PROVE  \E v \in Workers : Calling(v)' /\ serving'[v] = d
      <3>1. PICK v \in Workers : Calling(v) /\ serving[v] = d
        BY <2>1, <2>2 DEF Handling, Exchange
      <3>2. v # w
        BY <1>9, <2>1, <2>2, <3>1
      <3>3. QED
        BY <1>5, <1>6, <3>1, <3>2
    <2>3. QED
      BY <2>2 DEF Handling
  <1>17. QED
    BY <1>11, <1>12, <1>13, <1>14, <1>15, <1>16 DEF Exchange

(* The exchange holds at the start. *)
LEMMA ExchangeInit == Init => Exchange
  <1> SUFFICES ASSUME Init PROVE Exchange
    OBVIOUS
  <1>1. /\ open = {} /\ \A c \in Conns : talk[c] = "none"
        /\ \A w \in Workers : phase[w] = "idle"
    BY DEF Init
  <1>2. OwnTalk
    BY <1>1, OwnConns DEF OwnTalk
  <1>3. CallsNest
    BY <1>1 DEF CallsNest, Calling, Held
  <1>4. QED
    BY <1>1, <1>2, <1>3 DEF Exchange, Present, Quiet, Handling, OneWait

(* What clients do keeps it. *)
LEMMA UserExchange ==
    ASSUME TypeOK, OnePlace, Exchange, NEW u \in Users, User(u)
    PROVE  Exchange'
  <1>1. ASSUME NEW c \in Conns, UserDial(u, c) PROVE Exchange'
    BY <1>1, UserDialExchange
  <1>2. ASSUME NEW c \in Conns, NEW r \in Requests, UserSend(u, c, r) PROVE Exchange'
    <2>1. r \in {"user", "register"}
      BY PoolAssumption
    <2>2. QED
      BY <1>2, <2>1, UserTalkExchange DEF UserSend
  <1>3. ASSUME NEW c \in Conns, UserReceive(u, c) PROVE Exchange'
    BY <1>3, UserTalkExchange DEF UserReceive
  <1>4. ASSUME NEW c \in Conns, UserLost(u, c) PROVE Exchange'
    <2>1. PICK closed \in SUBSET Held(u) : closed = {c}
      BY <1>4 DEF UserLost
    <2>2. /\ talk[c] = "dropped" /\ open' = open \ closed /\ talk' = [talk EXCEPT ![c] = "none"]
          /\ UNCHANGED <<accepting, pool>>
      BY <1>4, <2>1 DEF UserLost
    <2>3. talk' \in [Conns -> Talks] /\ talk'[c] = "none" /\ \A d \in Conns : d # c => talk'[d] = talk[d]
      BY <2>2 DEF TypeOK, Talks
    <2>4. QED
      BY <2>1, <2>2, <2>3, UserEndExchange
  <1>5. CASE UserClose(u)
    <2>1. PICK closed \in SUBSET Held(u) : closed = Held(u)
      OBVIOUS
    <2>2. Held(u) \subseteq Conns
      BY DEF Held, TypeOK
    <2>3. /\ open' = open \ closed /\ UNCHANGED <<accepting, pool>>
          /\ talk' = [c \in Conns |->
               IF c \in Held(u) /\ talk[c] \in {"answered", "dropped"} THEN "none" ELSE talk[c]]
      BY <1>5, <2>1 DEF UserClose
    <2>4. talk' \in [Conns -> Talks]
      BY <2>3 DEF TypeOK, Talks
    <2>5. /\ \A c \in closed :
               talk'[c] = IF talk[c] \in {"answered", "dropped"} THEN "none" ELSE talk[c]
          /\ \A c \in Conns \ closed : talk'[c] = talk[c]
      BY <2>1, <2>2, <2>3
    <2>6. QED
      BY <2>3, <2>4, <2>5, UserEndExchange
  <1>6. QED
    BY <1>1, <1>2, <1>3, <1>4, <1>5 DEF User

(* So does what workers do. *)
LEMMA WorkerExchange ==
    ASSUME TypeOK, OnePlace, Exchange, NEW w \in Workers, Worker(w)
    PROVE  Exchange'
  <1>1. CASE Take(w)
    <2>1. /\ phase[w] = "idle" /\ phase' = [phase EXCEPT ![w] = "read"]
          /\ UNCHANGED <<open, talk>>
          /\ \A v \in Workers : v # w => phase'[v] = phase[v] /\ serving'[v] = serving[v]
          /\ phase'[w] = "read"
      BY <1>1 DEF Take, TypeOK
    <2>2. Present'
      BY <1>1, <2>1, PlacesTaken DEF Exchange, Present, TypeOK
    <2>3. \A v \in Workers : Calling(v) => v # w
      BY <2>1 DEF Calling
    <2>4. \A v \in Workers : ~ Calling(v) => ~ Calling(v)'
      BY <2>1 DEF Calling
    <2>5. QED
      BY <2>1, <2>2, <2>3, <2>4, ExchangeKept
  <1>2. CASE AnswerNode(w)
    BY <1>2, AnswerNodeExchange
  <1>3. CASE Authenticate(w)
    BY <1>3, BeginCallExchange DEF Authenticate
  <1>4. CASE Register(w)
    BY <1>4, BeginCallExchange DEF Register
  <1>5. CASE FetchKey(w)
    <2>1. /\ phase[w] \in {"auth1", "reg1"} /\ CallAnswered(w)
          /\ <<w, 2>> \notin open /\ ~ AtServer(<<w, 2>>)
          /\ open' = (open \ {<<w, 1>>}) \cup {<<w, 2>>}
          /\ backlog' = Append(backlog, <<w, 2>>)
          /\ talk' = [talk EXCEPT ![<<w, 1>>] = "none", ![<<w, 2>>] = "node"]
          /\ phase' = [phase EXCEPT ![w] = "auth2"]
          /\ UNCHANGED <<offered, connChan, serving>>
      BY <1>5 DEF FetchKey
    <2>2. QED
      BY <2>1, NextCallExchange
  <1>6. CASE StoreKey(w)
    <2>1. /\ phase[w] \in {"auth1", "reg1"} /\ CallAnswered(w)
          /\ <<w, 2>> \notin open /\ ~ AtServer(<<w, 2>>)
          /\ backlog' = Append(backlog, <<w, 2>>)
          /\ talk' = [talk EXCEPT ![<<w, 1>>] = "none", ![<<w, 2>>] = "node"]
          /\ phase' = [phase EXCEPT ![w] = "reg2"]
          /\ UNCHANGED <<offered, connChan, serving>>
      BY <1>6 DEF StoreKey, Dial
    <2>2. PICK closed \in SUBSET {<<w, 1>>} : closed = {}
      OBVIOUS
    <2>3. open' = (open \ closed) \cup {<<w, 2>>}
      BY <1>6, <2>2 DEF StoreKey, Dial
    <2>4. QED
      BY <2>1, <2>3, NextCallExchange
  <1>7. CASE Respond(w)
    BY <1>7, EndCallExchange DEF Respond
  <1>8. CASE Drop(w)
    BY <1>8, EndCallExchange DEF Drop
  <1>9. CASE EndOfFile(w)
    <2>1. /\ phase[w] = "read" /\ serving[w] \notin open /\ talk[serving[w]] = "none"
          /\ UNCHANGED <<open, talk>>
          /\ serving' = [serving EXCEPT ![w] = None] /\ UNCHANGED accepting
          /\ \A v \in Workers : v # w => phase'[v] = phase[v] /\ serving'[v] = serving[v]
          /\ phase'[w] = "idle"
      BY <1>9 DEF EndOfFile, TypeOK
    <2>2. Present'
      BY <2>1, PlacesLeft DEF Exchange, Present, TypeOK
    <2>3. \A v \in Workers : Calling(v) => v # w
      BY <2>1 DEF Calling
    <2>4. \A v \in Workers : ~ Calling(v) => ~ Calling(v)'
      BY <2>1 DEF Calling
    <2>5. QED
      BY <2>1, <2>2, <2>3, <2>4, ExchangeKept
  <1>10. QED
    BY <1>1, <1>2, <1>3, <1>4, <1>5, <1>6, <1>7, <1>8, <1>9 DEF Worker, Handle

(* And what Serve does, and a step of nobody. *)
LEMMA ServeExchange ==
    ASSUME TypeOK, OnePlace, Exchange, Serve \/ ReceiveQuit \/ UNCHANGED vars
    PROVE  Exchange'
  <1>1. UNCHANGED <<open, talk, serving>>
    BY DEF Serve, Accept, Enqueue, QuitWorker, Done, ReceiveQuit, vars, pool
  <1>2. \A d \in Conns : AtServer(d)' <=> AtServer(d)
    <2>1. CASE Accept
      BY <2>1, PlacesAccepted
    <2>2. CASE Enqueue
      BY <2>2, PlacesEnqueued
    <2>3. CASE QuitWorker \/ Done \/ ReceiveQuit \/ UNCHANGED vars
      BY <1>1, <2>3, PlacesKept DEF QuitWorker, Done, ReceiveQuit, vars, accepting
    <2>4. QED
      BY <2>1, <2>2, <2>3 DEF Serve
  <1>3. Present'
    BY <1>1, <1>2 DEF Exchange, Present, TypeOK
  <1>4. ASSUME NEW v \in Workers
        PROVE  /\ Calling(v) => phase'[v] = phase[v]
               /\ ~ Calling(v) => ~ Calling(v)'
    <2>1. CASE QuitWorker
      <3>1. /\ told + 1 \in Workers
            /\ phase[told + 1] = "idle" /\ phase' = [phase EXCEPT ![told + 1] = "ended"]
        BY <2>1, PoolAssumption DEF QuitWorker, TypeOK, Workers
      <3>2. CASE v = told + 1
        BY <3>1, <3>2 DEF TypeOK, Calling
      <3>3. CASE v # told + 1
        BY <3>1, <3>3 DEF TypeOK, Calling
      <3>4. QED
        BY <3>2, <3>3
    <2>2. CASE UNCHANGED phase
      BY <2>2 DEF Calling
    <2>3. QED
      BY <2>1, <2>2 DEF Serve, Accept, Enqueue, Done, ReceiveQuit, vars, pool
  <1>5. QED
    BY <1>1, <1>3, <1>4, ExchangeKept

-----------------------------------------------------------------------------
(* ENOUGH WORKERS *)

ClientConns == Users \X (1 .. MaxHeld)

(* A worker that is not free serves the connection of a client, or the one  *)
(* that another worker, which serves a client, has left open.               *)
LEMMA BusyWorkers ==
    ASSUME TypeOK, Exchange, shutdown = "no", NEW w \in Workers, \A v \in Workers : ~ Free(v)
    PROVE  \/ serving[w] \in ClientConns
           \/ \E v \in Workers :
                /\ serving[w][1] = v /\ serving[w][1] \notin Users
                /\ serving[w] \in {<<v, 1>>, <<v, 2>>} \ {CallOf(v)}
                /\ serving[v] \in ClientConns
  <1>1. phase[w] # "idle" /\ phase[w] # "ended" /\ serving[w] \in Conns
    BY DEF Free, TypeOK, Workers
  <1>2. \A c \in Conns : c[1] \in Users => c \in ClientConns
    BY OwnConns DEF Conns, ClientConns
  <1>3. CASE serving[w][1] \in Users
    BY <1>1, <1>2, <1>3
  <1>4. CASE serving[w][1] \in Workers
    <2> DEFINE v == serving[w][1]
               d == serving[w]
    <2>1. v \in Workers /\ v \notin Users /\ d \in {<<v, 1>>, <<v, 2>>}
      BY <1>1, <1>4, OwnConns
    <2>2. phase[w] = "read"
      <3>1. ~ Calling(w)
        BY <2>1, CallsForUser DEF Exchange
      <3>2. QED
        BY <1>1, <3>1 DEF Calling, TypeOK
    <2>3. d \in open /\ talk[d] # "node"
      BY <1>4, <2>2 DEF Free
    <2>4. talk[d] \in {"none", "answered"} /\ (talk[d] # "none" => Calling(v) /\ CallOf(v) = d)
      BY <2>1, <2>3 DEF Exchange, OwnTalk
    <2>5. talk[d] = "none"
      BY <2>1, <2>4 DEF Free, CallAnswered
    <2>6. Calling(v)
      <3>1. d \in Held(v)
        BY <2>3 DEF Held
      <3>2. QED
        BY <2>1, <3>1, HoldsCall DEF Exchange
    <2>7. CallOf(v) # d
      BY <2>1, <2>5, <2>6, CallsAreOpen DEF Exchange
    <2>8. serving[v] \in ClientConns
      BY <1>2, <2>1, <2>6, CallsForUser DEF Exchange
    <2>9. QED
      BY <2>1, <2>7, <2>8
  <1>5. QED
    BY <1>1, <1>3, <1>4, Dialler

(* So all workers can be busy only if there are few: each connection of a   *)
(* client keeps one that serves it, and one for what that one left open.    *)
LEMMA WorkersSuffice ==
    ASSUME TypeOK, OnePlace, Exchange
    PROVE  WorkerLeft
  <1> DEFINE f == [w \in Workers |->
                     IF serving[w] \in ClientConns THEN <<serving[w], 1>>
                     ELSE <<serving[serving[w][1]], 2>>]
             Claims == ClientConns \X {1, 2}
  <1> SUFFICES ASSUME NumWorkers > 2 * (Cardinality(Users) * MaxHeld), shutdown = "no",
                      \A w \in Workers : ~ Free(w)
               PROVE  FALSE
    BY DEF WorkerLeft
  <1>1. \A c \in ClientConns : c[1] \in Users
    BY DEF ClientConns
  <1>2. f \in [Workers -> Claims]
    <2>1. ASSUME NEW w \in Workers PROVE f[w] \in Claims
      BY BusyWorkers
    <2>2. QED
      BY <2>1
  <1>3. \A v, w \in Workers : serving[v] = serving[w] /\ serving[v] \in ClientConns => v = w
    BY OwnConns DEF OnePlace, TypeOK, ClientConns, Conns
  <1>4. ASSUME NEW x \in Workers, NEW y \in Workers, f[x] = f[y] PROVE x = y
    <2>1. CASE serving[x] \in ClientConns
      <3>1. serving[y] \in ClientConns /\ serving[y] = serving[x]
        BY <1>4, <2>1
      <3>2. QED
        BY <1>3, <3>1
    <2>2. CASE serving[x] \notin ClientConns
      <3>1. /\ serving[y] \notin ClientConns
            /\ serving[serving[x][1]] = serving[serving[y][1]]
        BY <1>4, <2>2
      <3>2. PICK v \in Workers : /\ serving[x][1] = v
                                 /\ serving[x] \in {<<v, 1>>, <<v, 2>>} \ {CallOf(v)}
                                 /\ serving[v] \in ClientConns
        BY <2>2, BusyWorkers
      <3>3. PICK z \in Workers : /\ serving[y][1] = z
                                 /\ serving[y] \in {<<z, 1>>, <<z, 2>>} \ {CallOf(z)}
                                 /\ serving[z] \in ClientConns
        BY <3>1, BusyWorkers
      <3>4. v = z
        BY <1>3, <3>1, <3>2, <3>3
      <3>5. CallOf(v) \in {<<v, 1>>, <<v, 2>>}
        BY CallIsOwn
      <3>6. serving[x] = serving[y] /\ serving[x] \in Conns
        BY <3>2, <3>3, <3>4, <3>5, OwnConns
      <3>7. QED
        BY <3>6, OwnConns DEF OnePlace
    <2>3. QED
      BY <2>1, <2>2
  <1> HIDE DEF f, Claims
  <1>5. IsFiniteSet(Workers) /\ Cardinality(Workers) = NumWorkers
    <2>1. NumWorkers \in Int /\ NumWorkers >= 1
      BY PoolAssumption
    <2>2. IsFiniteSet(1 .. NumWorkers)
          /\ Cardinality(1 .. NumWorkers) = IF 1 > NumWorkers THEN 0 ELSE NumWorkers - 1 + 1
      BY <2>1, FS_Interval
    <2>3. QED
      BY <2>1, <2>2 DEF Workers
  <1>6. IsFiniteSet(1 .. MaxHeld) /\ Cardinality(1 .. MaxHeld) = MaxHeld
    <2>1. MaxHeld \in Int /\ MaxHeld >= 1
      BY PoolAssumption
    <2>2. IsFiniteSet(1 .. MaxHeld)
          /\ Cardinality(1 .. MaxHeld) = IF 1 > MaxHeld THEN 0 ELSE MaxHeld - 1 + 1
      BY <2>1, FS_Interval
    <2>3. QED
      BY <2>1, <2>2
  <1>7. IsFiniteSet(ClientConns) /\ Cardinality(ClientConns) = Cardinality(Users) * MaxHeld
    BY <1>6, FS_Product, PoolAssumption DEF ClientConns
  <1>8. IsFiniteSet({1, 2}) /\ Cardinality({1, 2}) = 2
    <2>1. {1, 2} = 1 .. 2
      OBVIOUS
    <2>2. 1 \in Int /\ 2 \in Int
      OBVIOUS
    <2>3. IsFiniteSet(1 .. 2) /\ Cardinality(1 .. 2) = IF 1 > 2 THEN 0 ELSE 2 - 1 + 1
      BY <2>2, FS_Interval
    <2>4. QED
      BY <2>1, <2>3
  <1>9. IsFiniteSet(Claims) /\ Cardinality(Claims) = (Cardinality(Users) * MaxHeld) * 2
    BY <1>7, <1>8, FS_Product DEF Claims
  <1>10. Cardinality(Claims) < Cardinality(Workers)
    <2>1. PICK n \in Nat : n = Cardinality(ClientConns)
      BY <1>7, FS_CardinalityType
    <2>2. PICK k \in Nat : k = NumWorkers
      BY PoolAssumption
    <2>3. n = Cardinality(Users) * MaxHeld /\ k > 2 * n
      BY <1>7, <2>1, <2>2
    <2>4. Cardinality(Claims) = n * 2 /\ Cardinality(Workers) = k
      BY <1>5, <1>9, <2>2, <2>3
    <2>5. QED
      BY <2>3, <2>4
  <1>11. QED
    BY <1>2, <1>4, <1>5, <1>9, <1>10, FS_PigeonHole

-----------------------------------------------------------------------------
(* THEOREMS *)

(* OnePlace keeps itself; what the parties know of the exchange needs it,   *)
(* and the types of what is registered need the exchange.                   *)
PoolInvariant == TypeOK /\ OnePlace /\ Exchange

(* No step of the clients, the workers or Serve breaks it. *)
LEMMA PoolInductive ==
    ASSUME PoolInvariant, [Next]_vars
    PROVE  PoolInvariant'
  <1>1. TypeOK /\ OnePlace /\ Exchange
    BY DEF PoolInvariant
  <1>2. CallsForUsers
    BY <1>1, CallsForUser DEF CallsForUsers, Exchange
  <1>3. TypeOK'
    BY <1>1, <1>2, PoolTypeStep
  <1>4. OnePlace'
    BY <1>1, PlacesStep
  <1>5. Exchange'
    BY <1>1, UserExchange, WorkerExchange, ServeExchange DEF Next
  <1>6. QED
    BY <1>3, <1>4, <1>5 DEF PoolInvariant

(* It holds at the start. *)
LEMMA PoolInitial == Init => PoolInvariant
  <1>1. Init => OnePlace
    BY PoolAssumption DEF Init, OnePlace, Once, InQueue
  <1>2. QED
    BY <1>1, PoolTypeInit, ExchangeInit DEF PoolInvariant

(* The invariant of the server's connection handling (server.go:125-315).   *)
THEOREM PoolInvariantHolds == Spec => []PoolInvariant
  BY PoolInitial, PoolInductive, PTL DEF Spec

(* Nothing leaves its type; the channel of Serve never holds more than its  *)
(* buffer (server.go:71), and workers are told to quit in order (:166).     *)
THEOREM PoolTypeCorrect == Spec => []TypeOK
  <1>1. PoolInvariant => TypeOK
    BY DEF PoolInvariant
  <1>2. QED
    BY <1>1, PoolInvariantHolds, PTL

(* No connection is in two places, so none is served by two workers         *)
(* (server.go:179-190).                                                     *)
THEOREM ConnectionsOnce == Spec => []OnePlace
  <1>1. PoolInvariant => OnePlace
    BY DEF PoolInvariant
  <1>2. QED
    BY <1>1, PoolInvariantHolds, PTL

(* What clients, workers and connections agree on at any time, while        *)
(* clients hang up or are killed in the middle of a request.                *)
THEOREM ExchangeHolds == Spec => []Exchange
  <1>1. PoolInvariant => Exchange
    BY DEF PoolInvariant
  <1>2. QED
    BY <1>1, PoolInvariantHolds, PTL

(* A connection with a request on it is somewhere in the server until that  *)
(* is answered, even if the client was killed: accepting, buffering and     *)
(* serving lose none (server.go:179-190).                                   *)
THEOREM ConnectionsKept == Spec => []NoneLost
  <1>1. PoolInvariant => NoneLost
    BY DEF PoolInvariant, Exchange, Present, NoneLost
  <1>2. QED
    BY <1>1, PoolInvariantHolds, PTL

(* The calls a worker makes for a request nest in it, whether the client    *)
(* that sent it is still there or not, and all their connections are closed *)
(* when the request is over (server.go:255-315, handlers.go).               *)
THEOREM CallsAlwaysNest == Spec => []CallsNest
  <1>1. PoolInvariant => CallsNest
    BY DEF PoolInvariant, Exchange
  <1>2. QED
    BY <1>1, PoolInvariantHolds, PTL

(* With more workers than twice the connections of clients, one is always   *)
(* left that can take, or go on with, the server's calls to itself, for any *)
(* number of clients and whatever they do (protocol/server.go:181,          *)
(* protocol/handler.go:155-193).                                            *)
THEOREM AlwaysAWorkerLeft == Spec => []WorkerLeft
  <1>1. PoolInvariant => WorkerLeft
    BY WorkersSuffice DEF PoolInvariant
  <1>2. QED
    BY <1>1, PoolInvariantHolds, PTL
=============================================================================
