----------------------------- MODULE SyncClient -----------------------------
(***************************************************************************)
(* The client's sync operation (cmd/peerstore/client/main.go): several     *)
(* client processes of one user keep their directories alike through the   *)
(* user's transaction log, a resource of the DHT like the files it is      *)
(* about.                                                                  *)
(*                                                                         *)
(* A client polls (Synchronize) or handles the next event of its file      *)
(* watcher (PostFile, DeleteFile); either is a sequence of requests, and   *)
(* between two of them the other clients may act.  The log is changed by   *)
(* fetching it, adding an entry and storing it, in two requests.           *)
(*                                                                         *)
(* The server is modelled by what its file handlers answer to a client     *)
(* that posts without a secret: a file that did not exist gets a header    *)
(* that is one secret short, so the first block of its content is taken    *)
(* for the secret until the file is posted again (module FileStore has the *)
(* layout).  One request is one step: the handlers hold fileMu.  All       *)
(* resources are on the node the clients are configured with.              *)
(***************************************************************************)
EXTENDS Integers, Sequences, FiniteSets, FiniteSetsExt

CONSTANTS
    Clients,     \* the client processes
    Paths,       \* the paths of the files
    Texts,       \* the contents that users write: sequences of blocks
    MaxHappens,  \* bound on what happens to the clients: changes by users,
                 \* failing log requests, ends of a client, restarts of the server
    Meanwhile,   \* how many requests that change no file the server may handle between
                 \* two posts
    Nothing      \* no file; no Synchronize, no PostFile or DeleteFile running

(* A file in the DHT: whether its header is complete, its blocks after the  *)
(* header, and the timestamp that was stored with it.                       *)
Ops == {"update", "delete"}
Entries == [op : Ops, ts : Nat]
Logs == [Paths -> Seq(Entries)]
LastSeen == [Paths -> Entries \cup {Nothing}]
Contents == Seq(UNION {{text[i] : i \in DOMAIN text} : text \in Texts})
Files == [whole : BOOLEAN, body : Contents, stamp : Nat]
Plans == [last : LastSeen, post : SUBSET Paths, look : SUBSET Paths]
Jobs == [op : Ops, path : Paths, log : Logs \cup {Nothing}]

ASSUME SyncAssumption ==
    /\ MaxHappens \in Nat
    /\ Meanwhile \subseteq Nat
    /\ Texts \subseteq Contents
    /\ Nothing \notin Contents \cup Files \cup Entries \cup Logs \cup Plans \cup Jobs

VARIABLES
    remote,      \* path -> the file in the DHT
    tlog,        \* the transaction log in the DHT
    serverClock, \* the server's Lamport clock
    local,       \* per client: path -> content of the file
    events,      \* per client: the watcher's events not yet handled
    watching,    \* per client: the directory is watched
    clock,       \* per client: its Lamport clock
    old,         \* per client: the last entries of the log the last Synchronize saw
    todo,        \* per client: what the running Synchronize has still to do
    job,         \* per client: the running PostFile or DeleteFile
    unposted,    \* history, per client: paths with a user's change that was neither
                 \* posted nor overwritten
    happened     \* number of happenings so far, and the restarts among them

vars == <<remote, tlog, serverClock, local, events, watching, clock, old, todo, job,
          unposted, happened>>
server == <<remote, tlog, serverClock>>
client == <<events, watching, old, todo, job>>

-----------------------------------------------------------------------------
(* Logs: per path the entries in the order in which they were added.  A     *)
(* path is in the log when it has an entry.                                 *)
EmptyLog == [p \in Paths |-> <<>>]

(* The entry with the greatest timestamp, the last one of several. *)
LastEntry(entries) ==
    IF entries = <<>> THEN Nothing
    ELSE entries[Max({i \in DOMAIN entries :
                        \A j \in DOMAIN entries : entries[j].ts <= entries[i].ts})]

(* All that Synchronize looks at in a log. *)
LastEntries(log) == [p \in Paths |-> LastEntry(log[p])]

(* GetTransactionLog: no log, and a log that does not decode, are an empty  *)
(* one to every caller.                                                     *)
GetTransactionLog == IF tlog.state = "whole" THEN tlog.log ELSE EmptyLog

(* Files: what GetFileHandler returns. *)
Readable(f) == f # Nothing /\ (f.whole \/ f.body # <<>>)
Payload(f) == IF f.whole THEN f.body ELSE Tail(f.body)

(* Mutant: the clock in the message is not looked at. *)
IncrementAlone(own, base) == own + 1

(* IncrementClock(base) of a process with clock own. *)
IncrementClock(own, base) == IF own < base THEN base + 1 ELSE own + 1

(* To authenticate a request the server fetches the user's key from itself, *)
(* and that increments its clock.  A post comes after the request for the   *)
(* node of its key, that of a log after the two that fetched it as well;    *)
(* what else was asked since the last post is counted when the next is      *)
(* made: polls, the files they get, registrations of clients that start.    *)
AuthenticatedFile(n) == serverClock + 2 + n
AuthenticatedLog(n) == serverClock + 4 + n

Happens(restart) ==
    /\ happened.all < MaxHappens
    /\ happened' = [all |-> happened.all + 1, restarts |-> happened.restarts + restart]

Init ==
    /\ remote = [p \in Paths |-> Nothing]
    /\ tlog = [state |-> "absent", log |-> EmptyLog]
    /\ serverClock = 1
    /\ local = [c \in Clients |-> [p \in Paths |-> Nothing]]
    /\ events = [c \in Clients |-> <<>>]
    /\ watching = [c \in Clients |-> FALSE]
    /\ clock = [c \in Clients |-> 1]
    /\ old = [c \in Clients |-> LastEntries(EmptyLog)]
    /\ todo = [c \in Clients |-> Nothing]
    /\ job = [c \in Clients |-> Nothing]
    /\ unposted = [c \in Clients |-> {}]
    /\ happened = [all |-> 0, restarts |-> 0]

-----------------------------------------------------------------------------
(* The user changes a file in the directory of c.  The watcher reports it   *)
(* unless a Synchronize has removed the watches or the client is not there. *)
Edit(c, p, op, content) ==
    /\ Happens(0)
    /\ local' = [local EXCEPT ![c][p] = content]
    /\ events' = IF watching[c]
                 THEN [events EXCEPT ![c] = Append(@, [op |-> op, path |-> p])]
                 ELSE events
    /\ unposted' = [unposted EXCEPT ![c] = @ \cup {p}]
    /\ UNCHANGED <<server, watching, clock, old, todo, job>>

Write(c, p, text) ==
    /\ text # local[c][p]
    /\ Edit(c, p, "update", text)

Remove(c, p) ==
    /\ local[c][p] # Nothing
    /\ Edit(c, p, "delete", Nothing)

-----------------------------------------------------------------------------
(* PostFile, first part: the local file - nothing, if it is gone - and the  *)
(* client's clock go to PostFileHandler, whose clock comes back.  A refusal *)
(* carries no clock, and is not noticed.                                    *)
PostAt(c, p, n) ==
    LET accepted == remote[p] = Nothing \/ Readable(remote[p])
        answer == IncrementClock(AuthenticatedFile(n), clock[c])
        stamp == IncrementClock(clock[c], IF accepted THEN answer ELSE 0)
        data == IF local[c][p] = Nothing THEN <<>> ELSE local[c][p]
    IN  /\ serverClock' = answer
        /\ clock' = [clock EXCEPT ![c] = stamp]
        /\ remote' = IF accepted
                     THEN [remote EXCEPT ![p] =
                             [whole |-> @ # Nothing, body |-> data, stamp |-> stamp]]
                     ELSE remote
        /\ job' = [job EXCEPT ![c] = [op |-> "update", path |-> p, log |-> Nothing]]
        /\ unposted' = [unposted EXCEPT ![c] = @ \ {p}]
        /\ UNCHANGED <<tlog, local>>

PostFile(c, p) == \E n \in Meanwhile : PostAt(c, p, n)

(* DeleteFile starts with the log. *)
DeleteFile(c, p) ==
    /\ job' = [job EXCEPT ![c] = [op |-> "delete", path |-> p, log |-> Nothing]]
    /\ UNCHANGED <<server, local, clock, unposted>>

(* Log, and an entry stamped with the client's clock. *)
WithEntry(log, c) ==
    [log EXCEPT ![job[c].path] = Append(@, [op |-> job[c].op, ts |-> clock[c]])]

JobWith(log, c) == [op |-> job[c].op, path |-> job[c].path, log |-> WithEntry(log, c)]

(* PostFile and DeleteFile: the entry goes to the log as it is now, or to   *)
(* an empty one.                                                            *)
AddEntry(c) ==
    /\ job[c] # Nothing /\ job[c].log = Nothing
    /\ \/ /\ job' = [job EXCEPT ![c] = JobWith(GetTransactionLog, c)]
          /\ UNCHANGED happened
       \/ /\ Happens(0)
          /\ job' = [job EXCEPT ![c] = JobWith(EmptyLog, c)]
    /\ UNCHANGED <<server, local, events, watching, clock, old, todo, unposted>>

(* PutTransactionLog: a post like that of a file, but its request carries   *)
(* no clock.  The log does not fit into the one block that the first post   *)
(* loses, so it does not decode until it is posted again.                   *)
PutTransactionLog(c) ==
    /\ job[c] # Nothing /\ job[c].log # Nothing
    /\ tlog' = [state |-> IF tlog.state = "absent" THEN "short" ELSE "whole",
                log   |-> job[c].log]
    /\ \E n \in Meanwhile : serverClock' = IncrementClock(AuthenticatedLog(n), 0)
    /\ clock' = [clock EXCEPT ![c] = IncrementClock(@, serverClock')]
    /\ job' = [job EXCEPT ![c] = Nothing]
    /\ UNCHANGED <<remote, local, events, watching, old, todo, unposted, happened>>

(* The loop of the sync operation takes the watcher's next event. *)
HandleEvent(c) ==
    /\ watching[c] /\ job[c] = Nothing /\ events[c] # <<>>
    /\ events' = [events EXCEPT ![c] = Tail(@)]
    /\ LET e == Head(events[c])
       IN  \/ e.op = "update" /\ PostFile(c, e.path)
           \/ e.op = "delete" /\ DeleteFile(c, e.path)
    /\ UNCHANGED <<watching, old, todo, happened>>

-----------------------------------------------------------------------------
(* GetFile: overwrites the local file unless the request is refused.  The   *)
(* answer of GetFileHandler carries no clock.                               *)
GetFile(c, p) ==
    /\ IF Readable(remote[p])
       THEN /\ local' = [local EXCEPT ![c][p] = Payload(remote[p])]
            /\ clock' = [clock EXCEPT ![c] = IncrementClock(@, 0)]
            /\ unposted' = [unposted EXCEPT ![c] = @ \ {p}]
       ELSE UNCHANGED <<local, clock, unposted>>
    /\ UNCHANGED <<server, job>>

(* os.Remove of the local file. *)
RemoveLocal(c, p) ==
    /\ local' = [local EXCEPT ![c][p] = Nothing]
    /\ unposted' = [unposted EXCEPT ![c] = @ \ {p}]
    /\ UNCHANGED <<server, clock, job>>

(* "do nothing!" *)
Seen(c, p, log) == old[c][p] # Nothing /\ old[c][p].ts = LastEntry(log[p]).ts

(* Mutant: the watches stay while the files are fetched. *)
SynchronizeWatched(c) ==
    /\ todo[c] = Nothing /\ job[c] = Nothing
    /\ LET log == GetTransactionLog
       IN  todo' = [todo EXCEPT ![c] =
             [last |-> LastEntries(log),
              post |-> {p \in Paths : local[c][p] # Nothing /\ log[p] = <<>>},
              look |-> {p \in Paths : log[p] # <<>> /\ ~ Seen(c, p, log)}]]
    /\ UNCHANGED <<server, local, events, watching, clock, old, job, unposted, happened>>

(* The client starts, or its poll timer fires: Synchronize fetches the log  *)
(* - when that fails it goes on with an empty one - and lists the files     *)
(* that are not in it, to post them, and the paths whose last entry is not  *)
(* as old as the one seen by the Synchronize before.                        *)
Synchronize(c) ==
    /\ todo[c] = Nothing /\ job[c] = Nothing
    /\ watching' = [watching EXCEPT ![c] = FALSE]
    /\ LET Plan(log) ==
             [last |-> LastEntries(log),
              post |-> {p \in Paths : local[c][p] # Nothing /\ log[p] = <<>>},
              look |-> {p \in Paths : log[p] # <<>> /\ ~ Seen(c, p, log)}]
       IN  \/ /\ todo' = [todo EXCEPT ![c] = Plan(GetTransactionLog)]
              /\ UNCHANGED happened
           \/ /\ Happens(0)
              /\ todo' = [todo EXCEPT ![c] = Plan(EmptyLog)]
    /\ UNCHANGED <<server, local, events, clock, old, job, unposted>>

Synchronizing(c) == todo[c] # Nothing /\ job[c] = Nothing

(* Mutant: the walk only looks. *)
PostUnloggedSkips(c, p) ==
    /\ Synchronizing(c) /\ p \in todo[c].post
    /\ todo' = [todo EXCEPT ![c].post = @ \ {p}]
    /\ UNCHANGED <<server, local, clock, job, unposted, events, watching, old, happened>>

(* "remote has never seen this one, post it" *)
PostUnlogged(c, p) ==
    /\ Synchronizing(c) /\ p \in todo[c].post
    /\ PostFile(c, p)
    /\ todo' = [todo EXCEPT ![c].post = @ \ {p}]
    /\ UNCHANGED <<events, watching, old, happened>>

(* A path of the log, by what the last Synchronize saw of it. *)
CompareEntry(c, p) ==
    /\ Synchronizing(c) /\ todo[c].post = {} /\ p \in todo[c].look
    /\ todo' = [todo EXCEPT ![c].look = @ \ {p}]
    /\ LET last == todo[c].last[p]
           before == old[c][p]
       IN  \/ before = Nothing /\ GetFile(c, p)
           \/ /\ before # Nothing
              /\ \/ before.ts < last.ts /\ last.op = "delete" /\ RemoveLocal(c, p)
                 \/ before.ts < last.ts /\ last.op = "update" /\ GetFile(c, p)
                 \/ before.ts > last.ts /\ before.op = "delete" /\ DeleteFile(c, p)
                 \/ before.ts > last.ts /\ before.op = "update" /\ PostFile(c, p)
    /\ UNCHANGED <<events, watching, old, happened>>

(* Mutant: the log as it is at the end. *)
EndSynchronizeRereads(c) ==
    /\ Synchronizing(c) /\ todo[c].post = {} /\ todo[c].look = {}
    /\ old' = [old EXCEPT ![c] = LastEntries(GetTransactionLog)]
    /\ todo' = [todo EXCEPT ![c] = Nothing]
    /\ watching' = [watching EXCEPT ![c] = TRUE]
    /\ UNCHANGED <<server, local, events, clock, job, unposted, happened>>

(* Synchronize returns the log it fetched at its beginning, and the loop    *)
(* adds the watches again.                                                  *)
EndSynchronize(c) ==
    /\ Synchronizing(c) /\ todo[c].post = {} /\ todo[c].look = {}
    /\ old' = [old EXCEPT ![c] = todo[c].last]
    /\ todo' = [todo EXCEPT ![c] = Nothing]
    /\ watching' = [watching EXCEPT ![c] = TRUE]
    /\ UNCHANGED <<server, local, events, clock, job, unposted, happened>>

-----------------------------------------------------------------------------
(* The client process ends; its directory stays.  Synchronize starts the    *)
(* next one.                                                                *)
StopClient(c) ==
    /\ Happens(0)
    /\ watching' = [watching EXCEPT ![c] = FALSE]
    /\ events' = [events EXCEPT ![c] = <<>>]
    /\ clock' = [clock EXCEPT ![c] = 1]
    /\ old' = [old EXCEPT ![c] = LastEntries(EmptyLog)]
    /\ todo' = [todo EXCEPT ![c] = Nothing]
    /\ job' = [job EXCEPT ![c] = Nothing]
    /\ UNCHANGED <<server, local, unposted>>

(* The server's clock is not stored. *)
RestartServer ==
    /\ Happens(1)
    /\ serverClock' = 1
    /\ UNCHANGED <<remote, tlog, local, client, clock, unposted>>

(* One step of client process c. *)
Step(c) ==
    \/ Synchronize(c) \/ EndSynchronize(c) \/ HandleEvent(c)
    \/ AddEntry(c) \/ PutTransactionLog(c)
    \/ \E p \in Paths : PostUnlogged(c, p) \/ CompareEntry(c, p)

Next ==
    \/ \E c \in Clients : Step(c) \/ StopClient(c)
    \/ \E c \in Clients, p \in Paths, text \in Texts : Write(c, p, text)
    \/ \E c \in Clients, p \in Paths : Remove(c, p)
    \/ RestartServer

Spec == Init /\ [][Next]_vars

(* The client's loop runs for ever, and a client that ended is started      *)
(* again.  An event that waits is there when the loop's select is entered,  *)
(* while its poll timer begins only then: it is not passed over for ever.   *)
ClientFairness == \A c \in Clients : WF_vars(Step(c)) /\ SF_vars(HandleEvent(c))

FairSpec == Spec /\ ClientFairness

-----------------------------------------------------------------------------
(* PROPERTIES *)

(* Besides the types: while Synchronize runs nobody watches, and what it    *)
(* has to look at has entries.                                              *)
TypeOK ==
    /\ remote \in [Paths -> Files \cup {Nothing}]
    /\ tlog \in [state : {"absent", "short", "whole"}, log : Logs]
    /\ serverClock \in Nat
    /\ local \in [Clients -> [Paths -> Contents \cup {Nothing}]]
    /\ events \in [Clients -> Seq([op : Ops, path : Paths])]
    /\ watching \in [Clients -> BOOLEAN]
    /\ clock \in [Clients -> Nat]
    /\ old \in [Clients -> LastSeen]
    /\ todo \in [Clients -> Plans \cup {Nothing}]
    /\ job \in [Clients -> Jobs \cup {Nothing}]
    /\ unposted \in [Clients -> SUBSET Paths]
    /\ happened \in [all : 0 .. MaxHappens, restarts : 0 .. MaxHappens]
    /\ happened.restarts <= happened.all
    /\ \A c \in Clients : todo[c] # Nothing =>
          /\ ~ watching[c]
          /\ \A p \in todo[c].look : todo[c].last[p] # Nothing
          /\ todo[c].look \cap todo[c].post = {}

(* The timestamps of p's posts can be compared: none was refused, and the   *)
(* server's clock was not set back.                                         *)
Comparable(p) ==
    happened.restarts = 0 /\ remote[p] # Nothing /\ Readable(remote[p])

UpdatesOf(entries) == {i \in DOMAIN entries : entries[i].op = "update"}

(* The updates in a log have been stored, and nothing older has been stored *)
(* over them since.                                                         *)
NotAhead(log) ==
    \A p \in Paths : \A i \in UpdatesOf(log[p]) :
        /\ remote[p] # Nothing
        /\ Comparable(p) => log[p][i].ts <= remote[p].stamp

(* No two updates of a file bear the same timestamp. *)
Distinct(log) ==
    \A p \in Paths : Comparable(p) =>
        \A i, j \in UpdatesOf(log[p]) : i # j => log[p][i].ts # log[p][j].ts

(* The log in the DHT is not ahead of the files: what it says was posted    *)
(* has been stored.                                                         *)
LogNotAhead == NotAhead(tlog.log)

(* Two updates in it never bear the same timestamp, whoever made them and   *)
(* however their requests interleaved: the clients can tell which is newer. *)
UpdatesOrdered == Distinct(tlog.log)

(* A client between the post of a file and the fetch of the log, and one    *)
(* that is about to store its copy of the log.                              *)
Posted(c) == job[c] # Nothing /\ job[c].log = Nothing /\ job[c].op = "update"
Logging(c) == job[c] # Nothing /\ job[c].log # Nothing

(* The timestamp that c is going to log is not in the log yet. *)
FreshIn(c, log) ==
    \A i \in UpdatesOf(log[job[c].path]) : log[job[c].path][i].ts # clock[c]

(* The file that c has posted is there, and c's timestamp for it is not in  *)
(* the log, on its way to the log, or another client's.                     *)
Unlogged(c) ==
    /\ remote[job[c].path] # Nothing
    /\ Comparable(job[c].path) =>
          /\ clock[c] <= remote[job[c].path].stamp
          /\ FreshIn(c, tlog.log)
          /\ \A d \in Clients : Logging(d) => FreshIn(c, job[d].log)
          /\ \A d \in Clients \ {c} :
                Posted(d) /\ job[d].path = job[c].path => clock[c] # clock[d]

(* The server's clock is at most one behind a timestamp it was sent. *)
ServerKnows ==
    \A p \in Paths :
        happened.restarts = 0 /\ remote[p] # Nothing => remote[p].stamp <= serverClock + 1

(* What keeps the log so, whatever order the posts, fetches and stores of   *)
(* several clients come in.                                                 *)
LogInvariant ==
    /\ NotAhead(tlog.log) /\ Distinct(tlog.log)
    /\ \A c \in Clients : Logging(c) => NotAhead(job[c].log) /\ Distinct(job[c].log)
    /\ \A c \in Clients : Posted(c) => Unlogged(c)
    /\ ServerKnows

(* The log's last word on p is the post that is stored. *)
Current(p) ==
    /\ tlog.state = "whole"
    /\ remote[p] # Nothing /\ Readable(remote[p])
    /\ \E i \in DOMAIN tlog.log[p] :
          /\ tlog.log[p][i].op = "update" /\ tlog.log[p][i].ts = remote[p].stamp
          /\ \A j \in DOMAIN tlog.log[p] \ {i} : tlog.log[p][j].ts < remote[p].stamp

(* A Synchronize of c takes the newest entry for one that it has seen: it   *)
(* bears the timestamp of the last entry seen, and is another.  Updates     *)
(* never do, but a deletion is logged at its client's clock, which may be   *)
(* the timestamp of an update made elsewhere.                               *)
Mistakes(c, p) ==
    /\ todo[c] # Nothing /\ old[c][p] # Nothing /\ todo[c].last[p] # Nothing
    /\ old[c][p].ts = todo[c].last[p].ts /\ old[c][p] # todo[c].last[p]

(* In the end, when the changes have ceased, a client whose user has no      *)
(* change of a file pending has the stored content of that file, provided   *)
(* that the log's last word on the file is the stored post, and that the    *)
(* client never mistakes a new entry for one it has seen: otherwise the     *)
(* polls of Synchronize miss no entry, whatever was fetched, posted and     *)
(* logged between two of their requests.                                    *)
ReadersConverge ==
    \A c \in Clients, p \in Paths :
        []~ Mistakes(c, p) =>
            <>[](Current(p) /\ p \notin unposted[c] => local[c][p] = Payload(remote[p]))

(* In the end every file that is in some client's directory is in the log:  *)
(* an entry that another client overwrote, or that got lost in a first log  *)
(* that does not decode, is made up for by the next Synchronize.            *)
FilesGetLogged ==
    <>[](\A c \in Clients, p \in Paths : local[c][p] # Nothing => GetTransactionLog[p] # <<>>)

(* "The remote transaction log will be the source of truth for all changes  *)
(* to the resources which are stored in the DHT"                            *)
(* (docs/design-document/README.md:652): a client that adds an entry to a   *)
(* log that it has fetched, and stores it over one that decodes, takes no   *)
(* entry out.                                                               *)
LogKeepsEntries ==
    [][\A c \in Clients :
          Logging(c) /\ job'[c] = Nothing /\ job[c].log # WithEntry(EmptyLog, c)
                     /\ tlog.state = "whole" =>
             \A p \in Paths : \A i \in DOMAIN tlog.log[p] :
                \E j \in DOMAIN tlog'.log[p] : tlog'.log[p][j] = tlog.log[p][i]]_vars
=============================================================================
