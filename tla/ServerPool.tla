----------------------------- MODULE ServerPool -----------------------------
(***************************************************************************)
(* The connection handling of one server (protocol/server.go): the accept  *)
(* loop of Serve, the buffered channel connChan, the fixed pool of workers *)
(* that each serve one connection for as long as it lives, and the calls   *)
(* the server makes to itself in the middle of a request - to find and     *)
(* fetch the public key that authenticates a user's request, or to store   *)
(* the key of a user who registers.  The ring has this one node, so every  *)
(* such call comes back through the same pool.                             *)
(*                                                                         *)
(* The clients are the commands of cmd/peerstore/client: they dial, send   *)
(* one request at a time and wait for its answer without a timeout, may    *)
(* hold a second connection meanwhile, and end, or are killed, at any      *)
(* time, also while they wait.                                             *)
(***************************************************************************)
EXTENDS Integers, Sequences, FiniteSets

CONSTANTS
    Users,          \* client processes, one per user
    NumWorkers,     \* requestNumWorkers
    BufferSize,     \* requestQueueBuffer
    MaxHeld,        \* connections a client holds at a time
    Requests,       \* what clients send: "user" and "register" requests
    Interrupts,     \* whether the process may be told to shut down
    None            \* no connection

Workers == 1 .. NumWorkers

(* A connection is named for the process that dials it.  A name is used     *)
(* again when both ends of the connection are closed, so a client has at    *)
(* most MaxHeld connections, the unnoticed ones included, and a worker one  *)
(* for each of its two calls.                                               *)
Conns == (Users \X (1 .. MaxHeld)) \cup (Workers \X {1, 2})

ASSUME PoolAssumption ==
    /\ NumWorkers \in Nat \ {0}
    /\ BufferSize \in Nat \ {0}
    /\ MaxHeld \in Nat \ {0}
    /\ Requests \subseteq {"user", "register"}
    /\ Interrupts \in BOOLEAN
    /\ None \notin Conns
    /\ IsFiniteSet(Users) /\ Users \cap Workers = {}

VARIABLES
    open,           \* the connections whose calling end is open
    talk,           \* their exchange: "none", the request sent, "handled", "answered", "dropped"
    backlog,        \* dialled and not accepted: the listener's queue
    offered,        \* accepted by Serve, about to go into connChan
    connChan,       \* accepted, waiting for a worker
    phase,          \* what a worker is doing
    serving,        \* the connection a worker serves
    registered,     \* the users whose public key is stored
    shutdown,       \* "no", "quitting", "done"
    told            \* how many workers Serve has told to quit

vars == <<open, talk, backlog, offered, connChan, phase, serving, registered, shutdown, told>>
accepting == <<backlog, offered, connChan>>
pool == <<phase, serving>>
ending == <<shutdown, told>>

(* The connections whose calling end p holds, and whether p waits for one.  *)
Held(p) == {c \in open : c[1] = p}
Waiting(p) == \E c \in Held(p) : talk[c] # "none"

InQueue(c, queue) == \E i \in 1 .. Len(queue) : queue[i] = c

(* The server has the connection at its end, somewhere. *)
AtServer(c) ==
    InQueue(c, backlog) \/ c = offered \/ InQueue(c, connChan)
    \/ \E w \in Workers : serving[w] = c

Init ==
    /\ open = {}
    /\ talk = [c \in Conns |-> "none"]
    /\ backlog = <<>>
    /\ offered = None
    /\ connChan = <<>>
    /\ phase = [w \in Workers |-> "idle"]
    /\ serving = [w \in Workers |-> None]
    /\ registered \in SUBSET Users
    /\ shutdown = "no"
    /\ told = 0

-----------------------------------------------------------------------------
(* CLIENTS *)

(* NewTransport.  The listener's queue takes a connection whether Serve     *)
(* accepts or not, until the process has ended.                             *)
Dial(c) ==
    /\ c \notin open /\ ~ AtServer(c)
    /\ shutdown # "done"
    /\ open' = open \cup {c}
    /\ backlog' = Append(backlog, c)

UserDial(u, c) ==
    /\ c[1] = u /\ ~ Waiting(u)
    /\ Dial(c)
    /\ UNCHANGED <<talk, offered, connChan, pool, registered, ending>>

UserSend(u, c, request) ==
    /\ c \in Held(u) /\ ~ Waiting(u)
    /\ talk' = [talk EXCEPT ![c] = request]
    /\ UNCHANGED <<open, accepting, pool, registered, ending>>

UserReceive(u, c) ==
    /\ c \in Held(u)
    /\ talk[c] = "answered"
    /\ talk' = [talk EXCEPT ![c] = "none"]
    /\ UNCHANGED <<open, accepting, pool, registered, ending>>

(* The command ends, or is killed while it waits, and its connections with  *)
(* it.  Nobody reads what was answered; a request that was sent is still    *)
(* there for the worker (one cut off in the middle counts as not sent); and *)
(* a worker that is handling one knows nothing of it.                       *)
UserClose(u) ==
    /\ Held(u) # {}
    /\ open' = open \ Held(u)
    /\ talk' = [c \in Conns |->
          IF c \in Held(u) /\ talk[c] \in {"answered", "dropped"} THEN "none" ELSE talk[c]]
    /\ UNCHANGED <<accepting, pool, registered, ending>>

(* The server's garbage collector has closed its end of a connection that   *)
(* no worker serves any more; the client reads an end of file and closes    *)
(* its own.  Most commands exit then, backup goes on with its other one.    *)
UserLost(u, c) ==
    /\ c \in Held(u)
    /\ talk[c] = "dropped"
    /\ open' = open \ {c}
    /\ talk' = [talk EXCEPT ![c] = "none"]
    /\ UNCHANGED <<accepting, pool, registered, ending>>

-----------------------------------------------------------------------------
(* SERVE *)

Accept ==
    /\ shutdown = "no"
    /\ offered = None
    /\ backlog # <<>>
    /\ offered' = Head(backlog)
    /\ backlog' = Tail(backlog)
    /\ UNCHANGED <<open, talk, connChan, pool, registered, ending>>

(* Mutant: the connection is put into the channel again and again. *)
EnqueueTwice ==
    /\ offered # None
    /\ Len(connChan) < BufferSize
    /\ connChan' = Append(connChan, offered)
    /\ UNCHANGED <<offered, open, talk, backlog, pool, registered, ending>>

(* Mutant: a connection that finds the buffer full is let go.               *)
EnqueueOrDiscard ==
    /\ offered # None
    /\ connChan' = IF Len(connChan) < BufferSize THEN Append(connChan, offered) ELSE connChan
    /\ offered' = None
    /\ UNCHANGED <<open, talk, backlog, pool, registered, ending>>

(* s.connChan <- conn blocks while the buffer is full. *)
Enqueue ==
    /\ offered # None
    /\ Len(connChan) < BufferSize
    /\ connChan' = Append(connChan, offered)
    /\ offered' = None
    /\ UNCHANGED <<open, talk, backlog, pool, registered, ending>>

(* The quit signal is looked at between two accepts. *)
ReceiveQuit ==
    /\ Interrupts
    /\ shutdown = "no"
    /\ offered = None
    /\ shutdown' = "quitting"
    /\ UNCHANGED <<open, talk, accepting, pool, registered, told>>

(* qChan <- true, worker by worker, each when it is back in its select. *)
QuitWorker ==
    /\ shutdown = "quitting"
    /\ told < NumWorkers
    /\ phase[told + 1] = "idle"
    /\ phase' = [phase EXCEPT ![told + 1] = "ended"]
    /\ told' = told + 1
    /\ UNCHANGED <<open, talk, accepting, serving, registered, shutdown>>

(* All workers have said done; so does Serve, and the process exits. *)
Done ==
    /\ shutdown = "quitting"
    /\ told = NumWorkers
    /\ shutdown' = "done"
    /\ UNCHANGED <<open, talk, accepting, pool, registered, told>>

-----------------------------------------------------------------------------
(* WORKERS *)

(* The first call of a request goes over one connection, the second over    *)
(* another. *)
Calling(w) == phase[w] \in {"auth1", "auth2", "reg1", "reg2"}
CallOf(w) == <<w, IF phase[w] \in {"auth1", "reg1"} THEN 1 ELSE 2>>
CallAnswered(w) == Calling(w) /\ talk[CallOf(w)] = "answered"

Take(w) ==
    /\ phase[w] = "idle"
    /\ connChan # <<>>
    /\ phase' = [phase EXCEPT ![w] = "read"]
    /\ serving' = [serving EXCEPT ![w] = Head(connChan)]
    /\ connChan' = Tail(connChan)
    /\ UNCHANGED <<open, talk, backlog, offered, registered, ending>>

(* Another node's request - here always this node's own - is trusted and    *)
(* handled on the spot.                                                     *)
AnswerNode(w) ==
    /\ phase[w] = "read"
    /\ talk[serving[w]] = "node"
    /\ talk' = [talk EXCEPT ![serving[w]] = "answered"]
    /\ UNCHANGED <<open, accepting, pool, registered, ending>>

(* What the answer leaves on a connection: nothing if the caller is gone.   *)
Answer(c, answer) == IF c \in open THEN answer ELSE "none"

(* A user's request has to be authenticated: first the successor of the     *)
(* request's key is asked for... *)
Authenticate(w) ==
    /\ phase[w] = "read"
    /\ talk[serving[w]] = "user"
    /\ Dial(<<w, 1>>)
    /\ talk' = [talk EXCEPT ![serving[w]] = "handled", ![<<w, 1>>] = "node"]
    /\ phase' = [phase EXCEPT ![w] = "auth1"]
    /\ UNCHANGED <<offered, connChan, serving, registered, ending>>

(* ...and that connection closed, then the public key is fetched over       *)
(* another. *)
FetchKey(w) ==
    /\ phase[w] = "auth1" /\ CallAnswered(w)
    /\ <<w, 2>> \notin open /\ ~ AtServer(<<w, 2>>)
    /\ open' = (open \ {<<w, 1>>}) \cup {<<w, 2>>}
    /\ backlog' = Append(backlog, <<w, 2>>)
    /\ talk' = [talk EXCEPT ![<<w, 1>>] = "none", ![<<w, 2>>] = "node"]
    /\ phase' = [phase EXCEPT ![w] = "auth2"]
    /\ UNCHANGED <<offered, connChan, serving, registered, ending>>

(* UserRegistrationHandler asks in the same way... *)
Register(w) ==
    /\ phase[w] = "read"
    /\ talk[serving[w]] = "register"
    /\ Dial(<<w, 1>>)
    /\ talk' = [talk EXCEPT ![serving[w]] = "handled", ![<<w, 1>>] = "node"]
    /\ phase' = [phase EXCEPT ![w] = "reg1"]
    /\ UNCHANGED <<offered, connChan, serving, registered, ending>>

(* ...but keeps the first connection open until it returns. *)
StoreKey(w) ==
    /\ phase[w] = "reg1" /\ CallAnswered(w)
    /\ Dial(<<w, 2>>)
    /\ talk' = [talk EXCEPT ![<<w, 1>>] = "none", ![<<w, 2>>] = "node"]
    /\ phase' = [phase EXCEPT ![w] = "reg2"]
    /\ UNCHANGED <<offered, connChan, serving, registered, ending>>

(* Mutant: the handler returns without closing the connections it dialled,  *)
(* as it would without its deferred calls.                                  *)
RespondLeaking(w) ==
    /\ phase[w] \in {"auth2", "reg2"} /\ CallAnswered(w)
    /\ phase[w] = "auth2" => serving[w][1] \in registered
    /\ talk' = [talk EXCEPT ![CallOf(w)] = "none", ![serving[w]] = Answer(serving[w], "answered")]
    /\ phase' = [phase EXCEPT ![w] = "read"]
    /\ registered' = IF phase[w] = "reg2" THEN registered \cup {serving[w][1]} ELSE registered
    /\ UNCHANGED <<open, accepting, serving, ending>>

(* The second call is answered: its connections are closed, the request is  *)
(* handled and answered, and the worker reads on.                           *)
Respond(w) ==
    /\ phase[w] \in {"auth2", "reg2"} /\ CallAnswered(w)
    /\ phase[w] = "auth2" => serving[w][1] \in registered
    /\ open' = open \ Held(w)
    /\ talk' = [talk EXCEPT ![CallOf(w)] = "none", ![serving[w]] = Answer(serving[w], "answered")]
    /\ phase' = [phase EXCEPT ![w] = "read"]
    /\ registered' = IF phase[w] = "reg2" THEN registered \cup {serving[w][1]} ELSE registered
    /\ UNCHANGED <<accepting, serving, ending>>

(* There is no public key to verify the request with: the worker returns to *)
(* its select, and the connection is neither answered nor closed.           *)
Drop(w) ==
    /\ phase[w] = "auth2" /\ CallAnswered(w)
    /\ serving[w][1] \notin registered
    /\ open' = open \ Held(w)
    /\ talk' = [talk EXCEPT ![CallOf(w)] = "none", ![serving[w]] = Answer(serving[w], "dropped")]
    /\ phase' = [phase EXCEPT ![w] = "idle"]
    /\ serving' = [serving EXCEPT ![w] = None]
    /\ UNCHANGED <<accepting, registered, ending>>

(* Mutant: the worker ends with the connection, as it would if the loop     *)
(* around its select were lost.                                             *)
EndOfFileEndsWorker(w) ==
    /\ phase[w] = "read"
    /\ serving[w] \notin open
    /\ talk[serving[w]] = "none"
    /\ phase' = [phase EXCEPT ![w] = "ended"]
    /\ serving' = [serving EXCEPT ![w] = None]
    /\ UNCHANGED <<open, talk, accepting, registered, ending>>

(* Mutant: the worker waits for another request on a connection that is     *)
(* closed, as it would if it took the end of file for a bad message.        *)
EndOfFileReadsOn(w) ==
    /\ phase[w] = "read"
    /\ serving[w] \notin open
    /\ UNCHANGED vars

(* The caller has hung up and left no request: decoding fails and the       *)
(* worker goes back to its select.                                          *)
EndOfFile(w) ==
    /\ phase[w] = "read"
    /\ serving[w] \notin open
    /\ talk[serving[w]] = "none"
    /\ phase' = [phase EXCEPT ![w] = "idle"]
    /\ serving' = [serving EXCEPT ![w] = None]
    /\ UNCHANGED <<open, talk, accepting, registered, ending>>

-----------------------------------------------------------------------------
User(u) ==
    \/ \E c \in Conns : UserDial(u, c)
    \/ \E c \in Conns, r \in Requests : UserSend(u, c, r)
    \/ \E c \in Conns : UserReceive(u, c) \/ UserLost(u, c)
    \/ UserClose(u)

Handle(w) ==
    \/ AnswerNode(w)
    \/ Authenticate(w) \/ FetchKey(w)
    \/ Register(w) \/ StoreKey(w)
    \/ Respond(w) \/ Drop(w) \/ EndOfFile(w)

Worker(w) == Take(w) \/ Handle(w)

Serve == Accept \/ Enqueue \/ QuitWorker \/ Done

Next ==
    \/ \E u \in Users : User(u)
    \/ \E w \in Workers : Worker(w)
    \/ Serve \/ ReceiveQuit

Spec == Init /\ [][Next]_vars

(* Goroutines run when they can: each worker with a connection, and Serve;  *)
(* and a connection in the channel is taken by some worker if there is one  *)
(* in its select.  A client reads the answer that has arrived, or the end   *)
(* of file once the collector, which the runtime runs every two minutes at  *)
(* least, has closed the other end.  Whether it dials, sends or ends is its *)
(* business, and nothing promises that it ever closes a connection.         *)
Fairness ==
    /\ \A w \in Workers : WF_vars(Handle(w))
    /\ WF_vars(\E w \in Workers : Take(w))
    /\ WF_vars(Serve)
    /\ \A u \in Users : WF_vars(\E c \in Conns : UserReceive(u, c) \/ UserLost(u, c))

FairSpec == Spec /\ Fairness

-----------------------------------------------------------------------------
(* PROPERTIES *)

(* The types of the variables; the channel never holds more than its        *)
(* buffer, and Serve tells workers to quit in order.                        *)
TypeOK ==
    /\ open \in SUBSET Conns
    /\ talk \in [Conns -> {"none", "node", "user", "register", "handled", "answered", "dropped"}]
    /\ backlog \in Seq(Conns)
    /\ offered \in Conns \cup {None}
    /\ connChan \in Seq(Conns)
    /\ Len(connChan) <= BufferSize
    /\ phase \in [Workers -> {"idle", "read", "auth1", "auth2", "reg1", "reg2", "ended"}]
    /\ serving \in [Workers -> Conns \cup {None}]
    /\ \A w \in Workers : serving[w] = None <=> phase[w] \in {"idle", "ended"}
    /\ registered \in SUBSET Users
    /\ shutdown \in {"no", "quitting", "done"}
    /\ told \in 0 .. NumWorkers
    /\ \A w \in Workers : phase[w] = "ended" <=> w <= told
    /\ told > 0 => shutdown # "no"

(* Nobody else has a connection that is in one of these places. *)
Once(queue) == \A i, j \in 1 .. Len(queue) : queue[i] = queue[j] => i = j

(* On its way from the listener through Serve and connChan to a worker a    *)
(* connection is in one place only: none is served twice (server.go:190).   *)
OnePlace ==
    /\ Once(backlog) /\ Once(connChan)
    /\ \A c \in Conns : ~ (InQueue(c, backlog) /\ InQueue(c, connChan))
    /\ offered # None => ~ InQueue(offered, backlog) /\ ~ InQueue(offered, connChan)
    /\ \A w \in Workers : serving[w] # None =>
          /\ serving[w] # offered
          /\ ~ InQueue(serving[w], backlog) /\ ~ InQueue(serving[w], connChan)
          /\ \A v \in Workers : serving[v] = serving[w] => v = w

(* No connection is lost on its way: one that a request was sent on is with *)
(* the server until the answer, or the refusal, is out, whether the caller  *)
(* still waits for it or was killed.                                        *)
NoneLost ==
    \A c \in Conns : talk[c] \in {"node", "user", "register", "handled"} => AtServer(c)

(* The calls of a worker nest in the request it serves: while it calls, the *)
(* request is being handled, and its own call is under way or answered; it  *)
(* holds on to them though the client is gone; and when it does not call,   *)
(* it holds no connection of its own.                                       *)
CallsNest ==
    \A w \in Workers :
        IF Calling(w)
        THEN /\ talk[serving[w]] = "handled"
             /\ CallOf(w) \in open /\ talk[CallOf(w)] \in {"node", "answered"}
             /\ serving[w] # CallOf(w)
        ELSE Held(w) = {}

(* What the parties know of the exchange on a connection.  One that is open *)
(* and was not given up is with the server, whether anything was sent or    *)
(* not, and so is the request of a client that was killed; nothing else is  *)
(* left on a connection that is closed, and only a worker calls as a node;  *)
(* a request is being handled by a worker that calls for it; a client waits *)
(* for one answer at a time; and a worker for that of its present call, if  *)
(* any.                                                                     *)
Present == \A c \in Conns : (c \in open \/ talk[c] # "none") /\ talk[c] # "dropped" => AtServer(c)

Quiet ==
    /\ \A c \in Conns \ open : talk[c] \notin {"node", "answered", "dropped"}
    /\ \A c \in Conns : c[1] \in Users => talk[c] # "node"

Handling == \A c \in Conns : talk[c] = "handled" => \E w \in Workers : Calling(w) /\ serving[w] = c

OneWait ==
    \A c, d \in open :
        c[1] = d[1] /\ c[1] \in Users /\ talk[c] # "none" /\ talk[d] # "none" => c = d

OwnTalk ==
    \A w \in Workers, i \in {1, 2} :
        /\ talk[<<w, i>>] \in {"none", "node", "answered"}
        /\ talk[<<w, i>>] # "none" => Calling(w) /\ CallOf(w) = <<w, i>>

(* Together they keep connections from being lost and calls nested, while   *)
(* clients hang up, or are killed in the middle of a request, and workers   *)
(* take and leave connections at any time.                                  *)
Exchange == Present /\ Quiet /\ Handling /\ OneWait /\ OwnTalk /\ CallsNest

(* The worker can go on: it is in its select, its call has been answered,   *)
(* or it has a call of this node to answer or to find closed.               *)
Free(w) ==
    \/ phase[w] = "idle"
    \/ CallAnswered(w)
    \/ /\ phase[w] = "read" /\ serving[w][1] \in Workers
       /\ talk[serving[w]] = "node" \/ serving[w] \notin open

(* The server's calls to itself never find the pool exhausted, whoever      *)
(* dials, registers, sends and is killed, if there are more workers than    *)
(* twice the connections of clients, those of killed clients included that  *)
(* the server has not noticed: each takes one worker, and a second one is   *)
(* taken by the first connection of a registration, which is kept open      *)
(* during the second call (protocol/server.go:118-135,                      *)
(* protocol/handler.go:155-193).                                            *)
WorkerLeft ==
    NumWorkers > 2 * (Cardinality(Users) * MaxHeld) /\ shutdown = "no" => \E w \in Workers : Free(w)

(* No client waits for ever: "for each request that we accept as a          *)
(* connection, we will fork the handling of that connection"                *)
(* (protocol/server.go:154).                                                *)
RequestsAnswered == \A u \in Users : Waiting(u) ~> ~ Waiting(u)

(* A worker's own call is in a queue, where nobody takes it. *)
Unheard(w) ==
    Calling(w) /\ (InQueue(CallOf(w), backlog) \/ InQueue(CallOf(w), connChan))

(* Told to quit, Serve lets every worker end and returns, once the clients  *)
(* have gone for good: what they left in the queues and in the workers'     *)
(* hands does not hold it up (protocol/server.go:166) - but for the request *)
(* of a client that was killed: the call its worker makes to its own server *)
(* may stay in a queue that nobody reads any more, and as calls have no     *)
(* timeout, the worker and Serve then wait for ever.                        *)
ShutdownEnds ==
    shutdown = "quitting" /\ [](\A u \in Users : Held(u) = {})
        ~> shutdown = "done" \/ [](\E w \in Workers : Unheard(w))
=============================================================================
