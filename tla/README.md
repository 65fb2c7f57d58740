# A verification of peerstore

peerstore is a distributed file store: servers that form a Chord-like ring, and
clients that keep encrypted files on it and share them by key. This directory
holds TLA+ modules that model it, the TLC configurations that check them, and
proofs about every one of them that TLAPS checks.
Sources are quoted relative to `src/`.

Running it, from this directory:

    tlc -workers 2 -config ChordCrash.cfg MCChord     # any .cfg with its MC module
    tlapm ChordProofs.tla      # also RouteProofs, UserProofs, StoreProofs, PoolProofs, SyncProofs

## 1. The system

| component | state | operations |
|---|---|---|
| **Ring maintenance** `chord/` | per node: finger table (160 entries, only entry 1 is ever set), predecessor | `NewLocalNode`/`Initialize` on start, `Stabilize` every ten seconds, `Successor`, `ClosestPrecedingNode`, `Get/SetPredecessor`; each has a remote half (`remote.go`) and a handler (`handlers.go`) |
| **Identifiers** `models/models.go` | - | `KeyToID`: 20 bytes, reduced modulo 160 to a position; interval tests in `local.go` |
| **Server** `protocol/server.go` | listener, `connChan` of `requestQueueBuffer` connections, `requestNumWorkers` workers, quit channels | `Serve`, `startWorkers`, `handleConnection` |
| **Users** `protocol/handler.go` | public keys, stored through the ring | `UserRegistrationHandler`, authentication inside `handleConnection` |
| **Node trust** `protocol/handler.go` | `trustedNodes` | `NodeRegistrationHandler`, `NodeTrustHandler` |
| **File storage** `file/` | data directory, `fileMu` | `GetFileHandler`, `PostFileHandler`, `DeleteFileHandler`, `GetPublicKeyHandler`, `PostPublicKeyHandler` over `Get`, `Post`, `Delete` |
| **Client** `cmd/peerstore/client` | local directory, Lamport clock, transaction log (kept on the ring) | `register`, `backup`, `share`, `getfile`, `sync` |
| **Encryption** `crypto/`, request and response codecs | - | stateless |

How they interact. A server process starts listening, registers with its peer, joins
the ring through it, starts the stabilizer goroutine and then serves. Remote calls between
nodes are requests over a fresh TCP connection, answered by a worker of the
callee; the caller blocks, without a timeout. A user's request is authenticated
by the worker that reads it: the worker asks **its own server**, over TCP, who
the successor of the request's key is, then fetches the user's public key from
that node. The file handlers are serialized by one mutex, but a client's
command is two or more requests, with anything in between. Several sync clients
of one user know of each other only through the user's transaction log, a
file on the ring like the files it lists: each fetches it, adds an entry and
stores it, and compares timestamps of Lamport clocks that travel in some of the
messages.

What is hard here:

* nested `Successor` calls while every node on the way changes its finger;
* announcements and reports of predecessors that are stale when they are used;
* a dropped error that turns a failed hop into an answer (the zero `Node`);
* node crashes, and restarts without memory under the old address;
* nodes that listen before they serve, so that calls to them wait;
* workers that wait for workers of the same pool, a shutdown that waits for
  workers, and clients that are killed while a worker is at their request;
* a crash between the three steps of a file write;
* a header that is read back only by position, with a count of one byte;
* client commands that decide on one request's answer what the next one posts;
* a log that several clients read, change and write back, without any lock;
* clocks that some answers carry and others do not, and that a restart resets;
* polling, file events and posts of one client that change what it compares next;
* a user's key that is looked for in a ring other than the one it was stored in.

`PROJECT.json` lists each of these under "hazards", with its line.

What makes each component correct:

* **Ring**: call chains end; links are to other nodes; predecessors improve;
  lookups and joins come back; nodes agree, in the end, on the node of a key.
* **Users**: who is told to be registered is registered; only the registered are
  accepted; a call ends whatever happens to the ring under it.
* **Sync**: the log names only what is stored, and orders it; a client that lags
  catches up with the log; no file is left out of the log for ever.
* **Server**: no connection is served twice or lost; a worker's calls nest in
  the request it serves, whoever hangs up; with enough workers one can always go on
  and every client is answered; a shutdown ends, with one exception.
* **File storage**: a file is what its last post made it, whole, for everyone in
  its header; no post takes a user out; the secret a user gets decrypts the text.

## 2. The modules

| module | what it is |
|---|---|
| `ChordID` | the circle of 160 positions and the interval tests |
| `Chord` | ring maintenance of any number of nodes, with crashes and client lookups |
| `ChordProofs` | theorems about `Chord`, proved |
| `RouteProofs` | the walk of a lookup through a ring that stands still, proved to settle |
| `ServerPool` | one server: accept loop, channel, workers, self-calls, shutdown, and its clients |
| `PoolProofs` | theorems about `ServerPool`, proved |
| `FileStore` | one node's data directory, its handlers, and the clients' commands |
| `OwnedStore` | the abstract store that `FileStore` implements |
| `StoreProofs` | theorems about `FileStore`, the refinement of `OwnedStore` among them, proved |
| `UserKeys` | `Chord` with trust among nodes, registration and authentication of users |
| `UserProofs` | theorems about `UserKeys`, proved |
| `SyncClient` | several sync clients of one user, the transaction log and the clocks |
| `SyncProofs` | theorems about `SyncClient`, proved |
| `MCChord`, `MCServerPool`, `MCFileStore`, `MCUserKeys`, `MCSyncClient` | the instances for TLC |

### Chord

`status`, `finger`, `predecessor` are a node's state; `pc`, `path`, `target`,
`seen` the local variables of its one maintenance thread, which runs
`Initialize` and then one `Stabilize` after another; `query` is a client's
lookup. A remote call to a node that serves is one step at the callee. `Successor`
is different: the call is nested from node to node, and each hop is a step
(`LookupForward`), with `path` the chain of nodes whose workers wait. The
actions follow the code:

* `BootFirst` - the first node has no peer key file, fails to dial the empty address,
  logs it and serves.
* `Join`, `Registered`, `RegistrationFails` - any other node listens from `NewServer` on
  and is "starting" until `Initialize` returns: calls to it do not fail but wait. It
  first registers with its peer, which answers once it serves itself; when nobody
  listens there, or the peer stops, `main` returns and the process ends. `Peers` are
  the pairs of a node and a peer that command lines may name.
* `JoinAnswered`, `Notify` - the rest of `Initialize`.
* `StartStabilize`, then `StabilizeAnswered`, `AskPredecessor` and one of
  `StillPredecessor`, `AdoptSeen`, `KeepSuccessor`, then `Notify` - the branch of
  `Stabilize` with a successor.
* `StabilizeAlone`, `Chase`, `CloseRing`, `Notify` - the branch without one,
  which follows the chain of predecessors to its end.
* `LookupDialFails`, `CallFails` - the error paths. `SuccessorHandler` drops the
  error of `Successor` and answers the zero `Node`, so a joining node takes that
  as its successor.
* `Crash` - a node stops (`Stop`), with all its memory, and cuts the calls nested through
  it: the caller that had dialled it directly sees an error, all others the zero
  `Node`.

The conditions in `Stabilize` are kept as written, opposite comparisons
included: `Adopts` in `ChordID` is the disjunction that lines 179 and 207 test.

### ServerPool

A connection is named for the process that dials it. It passes through
`backlog` (the listener's queue), `offered` (accepted by `Serve`), `connChan`
and `serving[w]`. `talk` is the exchange on it. A client dials, sends and receives, and
ends or is killed at any time (`UserClose`): its ends close at once, a request it sent is
still read, and a worker that is handling it goes on and answers to nobody (`Answer`). A
name is used again when both ends are closed, so the connections of killed clients that
the server has not noticed yet count towards `MaxHeld`. A worker goes through
`Take`, `Authenticate`, `FetchKey` and `Respond` for a user's request, `Register`,
`StoreKey` and `Respond` for a registration; the calls it makes are connections
of its own, answered in `AnswerNode` by another worker. `Drop` is the early return
of line 311: no response, no close; the client sees an end of file when the garbage
collector closes the connection, and closes that one only (`UserLost`). `ReceiveQuit`, `QuitWorker` and `Done` are the
shutdown. The ring has this one node, so the successor of every key is the
server itself; with more nodes the calls go to other pools, which have the same
demand for workers.

### FileStore and OwnedStore

A file keeps its layout - count, then identifier and secret by turns, then the
payload - in blocks: an identifier is one, a secret (256 bytes) is one, a payload
is the sequence of its whole blocks of 256 bytes. It is read back by position
only, so a header that is one block short takes payload for a secret, as the code
does. `Post` is `PostFileHandler` up to the write; `RemoveOld`, `CreateEmpty` and
`WriteFile` are the three system calls of `file/storage.go`, with `pending`
standing for the handler that holds `fileMu`. `BackupGet` and `ShareGet` are the
first requests of the commands; `SecondRequest` is the post they end with.
`DeleteAbsent` is the nil reader of `file/handlers.go:404`: a delete of a key
without a file ends the process.

`OwnedStore` is what this is for: keys, each with owners and data; only an owner
replaces or removes; owners are not lost by a replacement; the server may go
down at any time and then loses at most one resource, never mixing two versions.
The refinement mapping takes a file to the set of its identifiers and its
payload, and takes a write in progress as not yet happened.

### UserKeys

Extends `Chord`: its actions are joined with what they do to trust, and the
ring's lookup by a client is the lookup a server makes for a user. `trusted[n]` is
`trustedNodes`; a node trusts itself (`JoinNode`), and the peer it registered with trusts it
(`RegisteredTrusted`). `StopNode` is a crash, or the end of a node whose
registration failed. The peer's entry in the node's own map is filed under the node's own
identifier (`cmd/peerstore/server/main.go:174`), where it adds nobody. A crash forgets
trust but keeps `keyFiles`. `Register` and `Request` send a user's call; both look up a
node - by the zero key for a registration, by the request's key for all others
(`HolderFound`) - and send it a request in the server's name, which the node
serves if it trusts the server. `PostPublicKey` and `RegistrationAnswered`:
an error of the holder is an answer like any other, and the user is told of a success.
`RequestAccepted`, `RequestRefused`: the key is found and the request goes on, or the
worker returns without a word. One user's call is in progress at a time; calls change
each other's state only through `keyFiles`, which grows.

### SyncClient

Per client: `local` the directory, `events` the watcher's events, `watching` whether
it is watched, `clock`, `old` the log that the last `Synchronize` returned, `todo` what
the running `Synchronize` has still to do, `job` the running `PostFile` or `DeleteFile`.
On the server: `remote` the files with the timestamp that was stored with them,
`tlog`, `serverClock`. Each request is a step:

* `HandleEvent` and `Synchronize` are the loop's two cases; it has one thread, so
  neither begins before the other has ended.
* `PostFile` posts the file and takes the clock from the answer; `AddEntry` fetches the
  log - or an empty one when the request fails - and adds the entry;
  `PutTransactionLog` stores it. `DeleteFile` begins at `AddEntry`: it never deletes
  anything on the server.
* `Synchronize` fetches the log and makes the plan that its two loops then carry out:
  `PostUnlogged` for local files that the log does not mention, `CompareEntry` for
  the paths of the log. `EndSynchronize` returns the fetched log and watches again.
* A sync client posts without a secret, so a file's first version is one secret
  short: its first block is read as the secret until it is posted again. The
  same happens to the log, whose first version does not decode.
* To authenticate a request the server asks itself for the user's key, which advances
  its clock (`file/handlers.go:28`, `:203`). `AuthenticatedFile` and
  `AuthenticatedLog` count that for a post and for the requests that belong to it;
  `Meanwhile` is how many other requests (polls, registrations) may be counted with it.
* `Write` and `Remove` are the user, `StopClient` the end of a client (also by the
  panic of `filepath.Walk` on a file that vanishes), `RestartServer` resets the
  server's clock. `unposted` is a history variable: changes not yet posted or overwritten.

`LastEntries` keeps of a log all that `Synchronize` looks at, the newest entry of each
path. All resources are on one node; that `GetTransactionLog` asks its peer for the log
where it should ask the node it found (`cmd/peerstore/client/main.go:977`) then shows
only as a fetch that fails.

A client takes an entry for one that it has seen when their timestamps are equal
(`Seen`, `cmd/peerstore/client/main.go:676`). Two updates never bear the same timestamp, but
a deletion is stamped with its client's clock, which may be the timestamp of an update
made elsewhere. `Mistakes` says when that has happened to a client.

## 3. The runs

| run | module, cfg | expectation | shows |
|---|---|---|---|
| chord_crash | MCChord, ChordCrash | pass | three nodes, two of them on one position of the circle, that join in any order, one crash and restart, client lookups: `LookupDescends`, `RoutesSettle`, `NoSelfPredecessor` with its `NoSelfInvariant`, `PredecessorOnlyCloser`; every round of a maintenance thread ends, but for two reasons why it may not (`RoundsEnd`) |
| user_keys | MCUserKeys, UserKeys | pass | two nodes, one of them on the empty node's position, and a user's calls, one crash: without a crash the ring of two is reached and kept (`PairConverges`); only registered users are accepted (`AcceptedRegistered`, from `KeysVouched`), a single node refuses none of them (`AloneAuthenticates`, from `AloneInvariant`), every call ends (`CallsEnd`) |
| sync_client | MCSyncClient, SyncClient | pass | two clients, all requests interleaved, failing log requests, ends of a client, a server restart: `LogNotAhead`, `UpdatesOrdered` and their `LogInvariant`; in the end `FilesGetLogged`, and `ReadersConverge` for clients that made no mistake |
| file_store | MCFileStore, FileStore | pass | two users, commands interleaved, a crash in any step: `ImplementsStore`, `SecretsMatch`, and the `HeadersSound` and `WritesOwned` they rest on |
| file_store_mixed | MCFileStore, FileStoreMixed | pass | sync clients as well, and a count byte that wraps: `OwnersKept` |
| pool_safety | MCServerPool, PoolSafety | pass | `OnePlace`, `NoneLost`, `CallsNest` and their `Exchange` with registration, refusal, clients that are killed at any time and shutdown; the shutdown ends once the clients have gone, or a killed client's request keeps a worker waiting for a call that nobody hears (`ShutdownEnds`) |
| pool_answers | MCServerPool, PoolAnswers | pass | a client that registers and sends, and may be killed and come again, is always answered by three workers (`RequestsAnswered`), because one of them can always go on (`WorkerLeft`) |
| chord_join_deadlock | MCChord, ChordDeadlock | violation | with one restarted node `JoinsFinish` fails |
| chord_consistency | MCChord, ChordConsistency | violation | `EventualLocationConsistency` fails without any crash |
| file_store_peer | MCFileStore, FileStorePeer | violation | backup through a node that does not hold the file breaks `OwnersDecrypt` |
| user_keys_auth | MCUserKeys, UserKeysAuth | violation | a registered user is refused (`RegisteredAuthenticate`) when another node is responsible for the request's key |
| sync_log | MCSyncClient, SyncLog | violation | two clients fetch a log that decodes before either stores it, and an entry disappears (`LogKeepsEntries`) |

`PROJECT.json` gives for each property a mutant of a modelled definition that the
run refutes, and for each violation the line of the documentation it contradicts.

### What the violations say

* **Join deadlock.** a serves, b and c join. b crashes, and is started again with c
  as its peer while c is still starting. c's lookup, asked of a, is forwarded
  through a's finger from before the crash to b, which listens but does not serve; and b
  waits for c to take its registration. Nothing times out. One crash is enough for
  it. Without a crash, or when every node is started with a peer that was there before,
  it does not happen in this run's ring; nodes that name each other need no crash at all (variations).
* **Location consistency.** The two branches of `Stabilize` decide with opposite
  comparisons, and an announcement that is refused is repeated to the same node
  for ever. Three nodes can settle in a state in which two serving nodes route a
  key to different nodes. The design document suspects as much
  ("Confessions", `docs/design-document/README.md:265`); the run is a trace of it.
* **Backup through a peer.** The client asks its configured peer for the existing
  secret, not the node found to hold the key. It gets none, encrypts with a new
  session key, and the post keeps the old secrets.
* **Authentication.** A registration stores the public key at the node for the zero
  key (`protocol/handler.go:165`); a request looks for it at the node for the
  request's own key (`protocol/server.go:260`). In a ring of two these differ, and
  the user gets no answer. `AloneAuthenticates` is what is left of the promise.
* **Transaction log.** The log decodes, and two clients fetch it before either has stored
  it: the second store removes the first one's entry. A client whose fetch failed, and
  so stores its own entry alone, is another case, which the property leaves out, as it
  does the first version of the log, which does not decode. `FilesGetLogged` is what is
  left: a file in some directory gets back into the log, under a later timestamp.

### Variations

Small changes to a cfg, or to the property it names, that show further behaviour:

| change | result |
|---|---|
| FileStore: `Clients <- AllClients` | `SecretsMatch` fails: a sync client's first post has no secret, so the header is read back with a block of the payload as the secret |
| FileStoreMixed, with `OwnersKept` stated without its bound on the count | fails when a share brings the count byte to zero (256 pairs in the code; every share adds a pair, even for a user who has one) |
| FileStorePeer: `PeerHolds = TRUE` | `OwnersDecrypt` holds for one user; with `Users <- TwoUsers` it fails: a backup that asked before the file existed and posts after it was shared |
| PoolAnswers: `NumWorkers = 2` | TLC reports a deadlock: a registration needs three workers, since its first connection stays open during its second call (`protocol/handler.go:156`) |
| PoolAnswers: `Users <- TwoUsers` | deadlock: two registrations exhaust three workers |
| PoolAnswers: `Users <- TwoUsers`, `NumWorkers = 2`, `Requests` = {"user"} | deadlock: each worker holds a client and waits for the other; registrations are not needed for it |
| PoolAnswers: `MaxHeld = 2`, `NumWorkers = 4` | deadlock: the formula of `WorkerLeft` is the boundary for a client with two connections (backup, share, getfile) as well |
| PoolSafety, `ShutdownEnds` without its second disjunct | fails: a client is killed while its request is authenticated, and the worker's call to its own server is accepted by nobody any more |
| ChordDeadlock: `Peers <- PeersBefore` | `JoinsFinish` holds with one crash |
| ChordDeadlock: `MaxCrashes = 0` | `JoinsFinish` holds |
| ChordDeadlock: `Peers <- PeersEachOther`, `MaxCrashes = 0` | `JoinsFinish` fails: both listen, and each waits for the other to serve |
| ChordCrash: `MaxCrashes = 0`, `RoundsEnd` without `OnCircle` | fails: the predecessors of a ring form a circle, and a node that adopted an empty predecessor, and so lost its finger, follows it for ever (`chord/local.go:99`) |
| ChordCrash: `Peers <- PeersThroughLast`, `IDOf <- TripleAscending`, `RoundsEnd` without its hypothesis | fails: who calls one of the two nodes of the join deadlock waits as well |
| SyncClient: `MaxHappens = 3`, `UpdatesOrdered` for deletions as well | fails: a deletion bears the client's own clock, which a poll does not bring up to date, and gets the timestamp of an update; a client that has seen that update does nothing |
| SyncClient, with "no client ever `Mistakes`" | fails after one removal, from the second of the run's start states |
| SyncClient, `LogNotAhead` without its condition on restarts | fails: after a restart of the server an older timestamp lies over a newer one |
| SyncClient: `MaxHappens = 3`, `UpdatesOrdered` without its condition on restarts | fails likewise |
| SyncClient, `ReadersConverge` without `unposted` | fails: a removal during a `Synchronize`, when nothing is watched, is never seen, and the directory stays without the file |
| SyncClient: `Clients = {c1}`, with "a client alone never changes its own directory" | fails: after a removal is handled as the update that came before it, an empty file is stored and fetched again |

## 4. Bounds, fairness

Bounds. Rings have two or three nodes. Three is the least at which a lookup has
a middle (`Successor` dials, and the node dialled dials on), at which a node's
predecessor and successor differ, and at which an announcement can be overtaken by
one of another node. The positions are chosen so that the first node comes first
(in a variation it lies between the others), so that two coincide (`chord_crash`), and
so that one coincides with the empty node, position 0 (`user_keys`). Keys lie inside
an interval and on a node's own position. No safety property of `Chord` or `UserKeys`
that holds rests on these bounds: they are proved for every ring. `MaxCrashes`
is 0 where a violation needs none, and 1 where a restarted node meets fingers and call
chains from before; that is what `RoundsEnd` and `CallsEnd`, which are not proved, are
checked with.

`UserKeys` has two nodes, the least at which the key's node and the request's can
differ, with a key for either; a third node would add routes, which `Chord` covers.

`SyncClient` has two clients and one path: what is stored about one path never
depends on another, except that a whole log is stored at once, which a log with
one path loses as well. The text has one block, so that the file's first version is
empty when it is read. `MaxHappens` is 2 changes, failures or restarts, in any
combination, from two states: the start, and `Level`, which `Next` reaches with four
happenings, where both clients have the file, two updates of it are logged, and
one removal is enough for a deletion that bears the timestamp of an update. The safety
properties are proved, for any number of happenings. For `ReadersConverge` and
`FilesGetLogged` the bound is what is checked: two happenings from the start give one
change with one failure or end on top, or two changes that race; two more on `Level`
give the same among clients that have polled, seen entries and moved their clocks.
`Meanwhile` is {0} in the runs; other values only move timestamps apart or together, and the
safety properties are proved for all of them.

`FileStore` has two users and one key: handlers touch one key each, and `fileMu`
orders them. Texts have no, one or two whole blocks, so that a short header takes a
payload whole, a part of it, or hits its end. `MaxKeys` bounds the session keys,
`MaxPairs` the header; `CountMod` is the modulus of the count byte, 256 in the
code, 4 in `file_store_mixed` to reach the wrap (the headers there run from one
pair to the wrap; `MaxPairs` is above it). The refinement holds only below that
limit, which is why `FileStore.cfg` keeps 256 and three pairs.

`ServerPool` is checked on both sides of its capacity. A connection that a client holds,
or that a killed client left behind, takes a worker; a registration on it takes a second
one, with the connection it keeps open; and one more has to be left for the server's
calls to itself. `pool_answers` has the least pool that is enough by that count, three
workers for one connection, and the deadlocks one worker below it are among
the variations; `AlwaysAWorkerLeft` proves the count for every size. The code has two
workers per processor by default (`cmd/peerstore/server/main.go:58`) and any number of clients, so
`pool_safety`, whose properties do not depend on it, has two clients for three
workers, which can be exhausted.

Fairness. `Chord`: weak fairness of each maintenance thread - the stabilizer is
an endless loop in its own goroutine, a node that serves answers, and a failed dial
returns. Nothing makes a node boot, join or crash. `chord_join_deadlock` adds strong fairness of
calls that fail (`FairStartSpec`), so that a node which starts and ends again and again is
no reason for others to wait: what remains is the circular wait. `UserKeys` adds
weak fairness of the steps of the call and its nested lookup, which are those of a
worker, and nothing of the user. `SyncClient`: weak fairness of each client's
steps, since its loop runs as long as the process and a user starts it again
after an end (a `Synchronize` is possible whenever nothing runs); strong fairness
of `HandleEvent`, because an event waits in the channel when the select is
entered while the poll's timer begins only then, so polls do not pass it over for
ever. Nothing makes a user change a file. `ServerPool`: weak
fairness of each worker that has a connection, of `Serve`, and of some worker taking a
connection from the channel (goroutines run when they can; which of the workers in
their select gets it is open), and of a
client's read of what has arrived. A dropped connection is closed by the finalizer
of the garbage collector, which the runtime runs at least every two minutes, so
`UserLost` is fair as well. Nothing makes a client send or hang up. No run of
`FileStore` uses fairness.

Deadlock is not checked in `pool_safety`, because the process ends after an interrupt,
nor in `chord_join_deadlock`, which shows nodes stuck.

## 5. The proofs

Every safety property that a passing run checks is the conclusion of a theorem. Some
have hypotheses, which are named below, with the reason.

### ChordProofs

`ChordProofs` proves, from `NodesAssumption` alone (the empty node is not a node,
the first node is one, positions lie on the circle), for any set of nodes,
any positions and keys, and any bound on crashes:

| theorem | establishes |
|---|---|
| `TypeCorrect` | `Spec => []TypeOK` |
| `LookupsDescend` | `Spec => []LookupDescends` |
| `ThreadKnowledge` | `Spec => []NoSelfInvariant` |
| `NeverOwnPredecessor` | `Spec => []NoSelfPredecessor` |
| `PredecessorsImprove` | `Spec => PredecessorOnlyCloser` |

*Types.* `TypeOK` is inductive as it stands because it ties the program counter to
the local state: a thread has a path exactly while it looks up, a target only
after that, and a node that is down has nothing.

*Call chains.* Every hop goes to a finger strictly between the caller and the
position looked for, and `BetweenIsCloser` shows that such a finger has a smaller
gap to it. Fingers may change afterwards: `Descends` speaks of the path alone, so a hop
that was taken stays descending. Since gaps are natural numbers, no chain visits a
node twice, and none is longer than 160.

*No self-links.* `NoSelfPredecessor` is not inductive: the announcement at the end
of a round goes to a node determined several steps before.
`NoSelfInvariant` says what the thread knows in between: the successor it asks is
another node; a thread that follows predecessors has one itself - it
would come back to itself only as a node with a predecessor, hence not as the end of the
chain; a joining node is on no path of its own lookup, since a hop never goes to the very
position looked for (`BetweenExcludesEnd`). It implies
`NoSelfPredecessor`.

*Improvement.* `SetPredecessor` takes a new predecessor only between the present
one and the node, `BetweenIsCloser` again; a predecessor is cleared by a crash
only.

### RouteProofs

From `NodesAssumption` and `NodesFinite` (the nodes are finitely many), for any positions,
fingers and keys:

| theorem | establishes |
|---|---|
| `LookupsSettle` | `Spec => []RoutesSettle` |

`Owner`, the node at which the walk of `Successor` stops, is a recursive function over the
number of hops, so what it computes is reached through the smallest number of hops for
which a claim would fail (`SmallestNumber`, `UpTo`), and not by induction over data. As
long as a node on the walk finds a closer one the gap to the key falls, hence no two
nodes on the walk are equal (`BetweenIsCloser` from `ChordProofs`); a walk that still went
on after as many hops as there are nodes would have visited one node too many
(`FS_PigeonHole`). Types are all it needs of the state.
The conclusion is about a ring that stands still; for the nested calls in a ring that
changes meanwhile there is `LookupsDescend`.

### UserProofs

From the assumptions on `Chord` and `UserAssumption` (the zero key is a position, request
keys are positions, and no call is the mark for none), for any nodes, users, request
keys and number of crashes:

| theorem | establishes |
|---|---|
| `UsersKeepRing`, `UserRoutesSettle` | `UserSpec` keeps what is proved of the ring |
| `UserTypeCorrect` | `UserSpec => []UserTypeOK` |
| `KeysAlwaysVouched` | `UserSpec => [](KeysVouched /\ AcceptedRegistered)` |
| `OnlyRegisteredAccepted` | `UserSpec => []AcceptedRegistered` |
| `AloneKnowsAll` | `UserSpec => []AloneInvariant` |
| `AloneAuthenticatesAll` | `UserSpec => []AloneAuthenticates` |

A user's lookup starts at any position - the zero key, a request's key - that need not be
one of `Keys`. `ChordProofs` therefore proves its invariants for `AnyNext`, the ring's next-state
relation with a lookup for any position at all; `Next` is a case of it, and so is every
action of `UserKeys` (`UserStepIsRingStep`). The types of `UserKeys` need the ring's:
a call is at its lookup exactly while the ring has that lookup under way, and its
server goes on serving under every step but its own crash (`ThreadServes`).

`AcceptedRegistered` follows from what is on the disks: a key file is that of a user who
was told so, or whose registration is at its last step (`KeysVouched`).
`AloneAuthenticates` is far from inductive. `AloneInvariant` is: alone, the first node has a
finger to itself or none, no predecessor, no announcement under way, and every path
stays with it, so the holder of every key, the zero key or a request's, is the node itself
(`AloneHop`: a finger on the node's own position is strictly between nothing). It is
conditional on `Alone`, which only a crash could bring back, and that counts.

### StoreProofs

From `StoreAssumption` and `BlankAssumption` (the count byte can count to two; a text is a
sequence of blocks, an identifier is no secret and no text, and the marks for no file and for an
empty one are neither files, commands, writes nor resources), for any users, keys, texts,
modulus of the count and bounds:

| theorem | establishes | under |
|---|---|---|
| `StoreTypeCorrect` | `Spec => []TypeOK` | |
| `OwnersAlwaysKept` | `Spec => OwnersKept` | |
| `HeadersAlwaysSound` | `Spec => []HeadersSound` | no sync clients |
| `SecretsAlwaysMatch` | `Spec => []SecretsMatch` | no sync clients |
| `WritesAlwaysOwned` | `Spec /\ []BelowLimit => []WritesOwned` | no sync clients |
| `HandlersImplementStore` | `Spec /\ []BelowLimit => ImplementsStore` | no sync clients |

The hypotheses are limits of the code, each with a counterexample behind it: a sync
client's post leaves a header one secret short, and a count at its limit wraps to zero
(both in section 3, variations). `BelowLimit` says that no file that can be read names
`CountMod - 1` users or more. The code has nothing that would enforce it: every
share adds a pair, even for a user who has one, so neither few users nor a short list of
friends keeps a header below 255 pairs. (`MaxPairs` bounds the headers in the runs and is
no limit of the code.) The two theorems therefore say what holds up to the
moment at which a count reaches its limit.

*The layout.* A header is a sequence of pairs, flattened; `LaidOutRead` says that reading
by position gives the pairs and the payload back, provided the count is that of the pairs.
`RewrittenRead` and `NewFileRead` apply it to what a post writes. The types know
more than shapes: what follows the header is payload (`Files`), or an answer could give
a share a block of the header to post as its text; the exception is a count that
has wrapped to zero, where the whole file is read as payload but no user can read it.

*Soundness.* `SecretsMatch` speaks of the files as other handlers find them; `HeadersSound`
extends it to the write in progress, the file it will write and the one it removes.
A header whose count has wrapped stays sound, since it is read as one with no pairs.

*The refinement.* Requests, and all steps of a write but the last, leave the abstract store
alone (`SettledKept`), as a write in progress is taken as not yet happened. The
last step (`WriteImplements`) has to be a `Create` or a `Replace` of *some* user, but the
user is no longer there to see: the request was checked two steps and possibly many
other commands earlier. `WritesOwned` keeps the fact: whoever began the write was in the
header that is being replaced, and the new header names all of the old one's users. A
process that ends in the middle loses that one resource at most (`SettledCrash`).

### PoolProofs

From `PoolAssumption` alone (there are workers, the buffer and a client hold at least
one connection, the users are finitely many and none is a worker), for any number of clients, connections and
workers and any buffer:

| theorem | establishes |
|---|---|
| `PoolTypeCorrect` | `Spec => []TypeOK` |
| `ConnectionsOnce` | `Spec => []OnePlace` |
| `ExchangeHolds` | `Spec => []Exchange` |
| `ConnectionsKept` | `Spec => []NoneLost` |
| `CallsAlwaysNest` | `Spec => []CallsNest` |
| `AlwaysAWorkerLeft` | `Spec => []WorkerLeft` |

`OnePlace` needs the types only: each way from one place to the next is a lemma
(`PlacesDialled`, `PlacesAccepted`, ...) that also says which connections the server
has afterwards. `NoneLost` is not inductive, because it says nothing of a connection
on which nothing was sent yet; and `CallsNest` is not, because a client that hangs
up or is killed, or a refusal, must not touch a worker's call. `Exchange` adds what is
missing: an open connection, and one with a request of a killed client, is with the server
unless it was given up (`Present`); nothing else is under way on a closed one (`Quiet`);
whoever's request is being handled, a worker calls for it (`Handling`); a client waits for
one answer at a time (`OneWait`), and a worker for that of its present call (`OwnTalk`) -
from which it follows that whoever a worker calls for is a user, which even the types
need: `registered` would otherwise not stay a set of users. The lemmas
`BeginCallExchange`, `NextCallExchange` and `EndCallExchange` are the three steps of a
call, shared by authentication and registration.

`WorkerLeft` is a pigeonhole argument on top of the invariant. If no worker can go on, each
is either with a client's connection, or with a node connection that is open
and idle; the latter is the first connection of a registration at its second call, whose
worker in turn serves a client's connection (`BusyWorkers`). So every worker has a claim, a
pair of a client's connection and 1 or 2, no two workers have the same one, and there are
only twice as many claims as connections.

### SyncProofs

From `SyncAssumption` alone (a text is a sequence of blocks; the null value is no
content, file, entry, log, plan or job), for any number of clients and paths, any
texts and any number of happenings:

| theorem | establishes |
|---|---|
| `SyncTypeCorrect` | `Spec => []TypeOK` |
| `LogInvariantHolds` | `Spec => []LogInvariant` |
| `LogNeverAhead` | `Spec => []LogNotAhead` |
| `UpdatesAlwaysOrdered` | `Spec => []UpdatesOrdered` |

`LogNotAhead` and `UpdatesOrdered` speak of the stored log, which a client replaces
by a copy made some steps earlier, with a timestamp taken earlier still.
`LogInvariant` follows the timestamp on its way: a post's timestamp is greater than
all that were stored for the file before (`PostIsLatest`, because the answer
brings the client past the server's clock, which authentication only advances
(`Authenticated`) and which is at most one behind every timestamp it was sent:
`ServerKnows`); until it is logged it is in no log, in no
client's copy of one, and is no other client's (`Unlogged`); and copies satisfy what
the stored log does. The proof has one lemma per action. `LogKept` is the
common case: where the files stay, a log stays not ahead of them. After a restart of
the server, or when the file is such that posts are refused, `Comparable` is false,
and only "what is logged was stored" remains.

That the newest entry exists (`Newest`) needs the greatest of finitely many numbers;
it comes from the well-ordering of the naturals (`Smallest`), so no induction over data
is needed.

### Only model-checked

All liveness (`RoundsEnd`, `PairConverges`, `CallsEnd`, `ReadersConverge`,
`FilesGetLogged`, `RequestsAnswered`, `ShutdownEnds`), which is beyond the prover. The
violations are traces of TLC's; there is nothing to prove about them.

## 6. What is not modelled

* **NodeTrust**: `NodeTrustHandler` is registered, but nobody sends the message; it
  goes on only when the signer is *not* a trusted node, with an empty public key.
* **Where files are stored in a ring of several nodes**: `SyncClient` and `FileStore`
  have one node for all resources. `UserKeys` has the placement of public keys.
* **A failing post of a sync client**: `PostFile` uses the answer unchecked and the
  client ends by a nil pointer, which is `StopClient`; a failing store of the log is
  an end of the client as well.
* `file/transactionlog.go`, which no other file uses.
* That `filepath.Walk` reads the directory while it goes: `Synchronize` lists it once.
* The operating system: a write is taken as one step, so a file is empty or whole.
* A failing `Accept`, which panics; messages that cannot be decoded.
* The data race on `s.ctx` between workers: no handler reads the values raced on.
* Encryption, signatures, codecs: bytes in, bytes out, without state.

## 7. Plan

1. The join deadlock from the other side: an invariant that says who waits for whom while
   nodes start, and that excludes circles when every peer was serving before.
2. What is left of the refinement when sync clients are about: that a post is still all or
   nothing, and that nobody is let in who is not in the header.
3. An abstract registration that `UserKeys` implements while the first node is alone.
4. Placement of files: `FileStore` on a ring, as `UserKeys` does for public keys.

The number of runs stays small: new ones take the place of violation runs whose
point a one-line variation in section 3 makes as well.
