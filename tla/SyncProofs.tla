----------------------------- MODULE SyncProofs -----------------------------
(***************************************************************************)
(* What holds of the sync clients and their transaction log for any number *)
(* of clients and paths, any texts and any number of changes, failures and *)
(* restarts.                                                               *)
(***************************************************************************)
EXTENDS SyncClient, TLAPS, WellFoundedInduction, SequenceTheorems

-----------------------------------------------------------------------------
(* LOGS *)

(* A set of numbers has a smallest one. *)
LEMMA Smallest ==
    ASSUME NEW T \in SUBSET Nat, T # {}
    PROVE  \E x \in T : \A y \in T : x <= y
  <1>1. \E x \in T : \A y \in T : ~ (<<y, x>> \in OpToRel(<, Nat))
    BY WFMin, NatLessThanWellFounded, Zenon
  <1>2. \E x \in T : \A y \in T : ~ (y < x)
    BY <1>1, Zenon DEF OpToRel
  <1>3. QED
    BY <1>2

(* A set of indices has a greatest one. *)
LEMMA Greatest ==
    ASSUME NEW n \in Nat, NEW T \in SUBSET (1 .. n), T # {}
    PROVE  Max(T) \in T
  <1> DEFINE U == {y \in 0 .. n : n - y \in T}
  <1>1. U \in SUBSET Nat /\ U # {}
    <2>1. PICK x \in T : x \in 1 .. n
      OBVIOUS
    <2>2. n - x \in 0 .. n /\ n - (n - x) = x
      BY <2>1
    <2>3. n - x \in U
      BY <2>1, <2>2
    <2>4. U \in SUBSET Nat
      OBVIOUS
    <2>5. QED
      BY <2>3, <2>4
  <1>2. PICK u \in U : \A y \in U : u <= y
    BY <1>1, Smallest
  <1>3. PICK x \in T : u = n - x
    BY <1>2
  <1>4. \A y \in T : x >= y
    <2>1. TAKE y \in T
    <2>2. n - y \in U
      <3>1. n - y \in 0 .. n /\ n - (n - y) = y
        BY <2>1
      <3>2. QED
        BY <2>1, <3>1
    <2>3. u <= n - y
      BY <2>2, <1>2
    <2>4. QED
      BY <2>3, <1>3
  <1>5. QED
    BY <1>3, <1>4 DEF Max

(* Of several numbers one is the greatest. *)
LEMMA GreatestValue ==
    ASSUME NEW n \in Nat \ {0}, NEW f \in [1 .. n -> Nat]
    PROVE  \E i \in 1 .. n : \A j \in 1 .. n : f[j] <= f[i]
  <1> DEFINE Bad == {k \in 1 .. n : ~ \E i \in 1 .. k : \A j \in 1 .. k : f[j] <= f[i]}
  <1>1. Bad = {}
    <2>1. SUFFICES ASSUME Bad # {} PROVE FALSE
      OBVIOUS
    <2>2. Bad \in SUBSET Nat
      OBVIOUS
    <2>3. PICK k \in Bad : \A y \in Bad : k <= y
      BY <2>1, <2>2, Smallest
    <2>4. k \in 1 .. n /\ k - 1 \notin Bad
      <3>1. k \in 1 .. n
        OBVIOUS
      <3>2. ~ (k <= k - 1)
        BY <3>1
      <3>3. QED
        <4> HIDE DEF Bad
        <4>1. QED
          BY <2>3, <3>1, <3>2
    <2>5. k # 1
      BY <2>3
    <2>6. k - 1 \in 1 .. n
      BY <2>4, <2>5
    <2>7. PICK i \in 1 .. k - 1 : \A j \in 1 .. k - 1 : f[j] <= f[i]
      BY <2>4, <2>6
    <2>8. f[k] \in Nat /\ f[i] \in Nat /\ i \in 1 .. k /\ k \in 1 .. k
      BY <2>4, <2>7
    <2>9. \A j \in 1 .. k : j = k \/ j \in 1 .. k - 1
      BY <2>4
    <2>10. CASE f[k] <= f[i]
      BY <2>3, <2>7, <2>8, <2>9, <2>10
    <2>11. CASE ~ (f[k] <= f[i])
      <3>1. ASSUME NEW j \in 1 .. k PROVE f[j] <= f[k]
        <4>1. f[j] \in Nat
          BY <2>4
        <4>2. j = k \/ f[j] <= f[i]
          BY <2>7, <2>9
        <4>3. QED
          BY <4>1, <4>2, <2>8, <2>11
      <3>2. QED
        BY <2>3, <2>8, <3>1
    <2>12. QED
      BY <2>10, <2>11
  <1>2. n \in 1 .. n /\ n \notin Bad
    <2>1. n \in 1 .. n
      OBVIOUS
    <2> HIDE DEF Bad
    <2>2. QED
      BY <1>1, <2>1
  <1>3. QED
    BY <1>2

(* Of several entries one has the greatest timestamp. *)
LEMMA Newest ==
    ASSUME NEW entries \in Seq(Entries), entries # <<>>
    PROVE  \E i \in DOMAIN entries : \A j \in DOMAIN entries : entries[j].ts <= entries[i].ts
  <1> DEFINE f == [i \in 1 .. Len(entries) |-> entries[i].ts]
  <1>1. Len(entries) \in Nat \ {0} /\ DOMAIN entries = 1 .. Len(entries)
    OBVIOUS
  <1>2. f \in [1 .. Len(entries) -> Nat]
    <2>1. ASSUME NEW i \in 1 .. Len(entries) PROVE entries[i].ts \in Nat
      <3>1. entries[i] \in Entries
        BY <1>1
      <3>2. QED
        BY <3>1 DEF Entries
    <2>2. QED
      BY <2>1
  <1>3. PICK i \in 1 .. Len(entries) : \A j \in 1 .. Len(entries) : f[j] <= f[i]
    <2> HIDE DEF f
    <2>1. QED
      BY <1>1, <1>2, GreatestValue
  <1>4. QED
    BY <1>1, <1>3

(* So the last entry of a log that is not empty is one of its entries. *)
LEMMA LastEntryType ==
    ASSUME NEW entries \in Seq(Entries)
    PROVE  /\ LastEntry(entries) \in Entries \cup {Nothing}
           /\ entries # <<>> => LastEntry(entries) \in Entries
  <1>1. CASE entries = <<>>
    BY <1>1 DEF LastEntry
  <1>2. CASE entries # <<>>
    <2> DEFINE New == {i \in DOMAIN entries : \A j \in DOMAIN entries : entries[j].ts <= entries[i].ts}
    <2>1. New # {}
      BY <1>2, Newest
    <2>2. Len(entries) \in Nat /\ New \in SUBSET (1 .. Len(entries))
      OBVIOUS
    <2>3. Max(New) \in New
      BY <2>1, <2>2, Greatest
    <2>4. entries[Max(New)] \in Entries
      BY <2>2, <2>3
    <2>5. LastEntry(entries) = entries[Max(New)]
      BY <1>2 DEF LastEntry
    <2>6. QED
      BY <2>4, <2>5
  <1>3. QED
    BY <1>1, <1>2

(* What Synchronize sees of a log. *)
LEMMA LastEntriesType ==
    ASSUME NEW log \in Logs
    PROVE  LastEntries(log) \in LastSeen
  <1>1. \A p \in Paths : LastEntry(log[p]) \in Entries \cup {Nothing}
    BY LastEntryType DEF Logs
  <1>2. QED
    BY <1>1 DEF LastEntries, LastSeen

-----------------------------------------------------------------------------
(* TYPES *)

(* A clock that is incremented gets past both values. *)
LEMMA ClockAdvances ==
    ASSUME NEW own \in Nat, NEW base \in Nat
    PROVE  /\ IncrementClock(own, base) \in Nat
           /\ own < IncrementClock(own, base)
           /\ base < IncrementClock(own, base)
           /\ IncrementClock(own, base) = own + 1 \/ IncrementClock(own, base) = base + 1
  BY DEF IncrementClock

(* The server's clock has advanced when a post has been authenticated.      *)
LEMMA Authenticated ==
    ASSUME serverClock \in Nat, NEW n \in Meanwhile
    PROVE  /\ AuthenticatedFile(n) \in Nat /\ serverClock < AuthenticatedFile(n)
           /\ AuthenticatedLog(n) \in Nat /\ serverClock < AuthenticatedLog(n)
  <1>1. n \in Nat
    BY SyncAssumption
  <1>2. QED
    BY <1>1 DEF AuthenticatedFile, AuthenticatedLog

(* The part of the types that posts, fetches and log requests change, and   *)
(* the part that the client's loop changes.                                 *)
RequestTypes ==
    /\ remote \in [Paths -> Files \cup {Nothing}]
    /\ tlog \in [state : {"absent", "short", "whole"}, log : Logs]
    /\ serverClock \in Nat
    /\ local \in [Clients -> [Paths -> Contents \cup {Nothing}]]
    /\ clock \in [Clients -> Nat]
    /\ job \in [Clients -> Jobs \cup {Nothing}]
    /\ unposted \in [Clients -> SUBSET Paths]

LoopTypes ==
    /\ events \in [Clients -> Seq([op : Ops, path : Paths])]
    /\ watching \in [Clients -> BOOLEAN]
    /\ old \in [Clients -> LastSeen]
    /\ todo \in [Clients -> Plans \cup {Nothing}]
    /\ \A c \in Clients : todo[c] # Nothing =>
          /\ ~ watching[c]
          /\ \A p \in todo[c].look : todo[c].last[p] # Nothing
          /\ todo[c].look \cap todo[c].post = {}

HappenedTypes ==
    /\ happened \in [all : 0 .. MaxHappens, restarts : 0 .. MaxHappens]
    /\ happened.restarts <= happened.all

(* TypeOK is the conjunction of its parts. *)
LEMMA TypeParts ==
    /\ TypeOK <=> RequestTypes /\ LoopTypes /\ HappenedTypes
    /\ TypeOK' <=> RequestTypes' /\ LoopTypes' /\ HappenedTypes'
  BY DEF TypeOK, RequestTypes, LoopTypes, HappenedTypes

(* The empty log is a log. *)
LEMMA EmptyLogType == EmptyLog \in Logs
  BY EmptySeq DEF EmptyLog, Logs

(* What GetTransactionLog returns is one, whatever is stored. *)
LEMMA GetTransactionLogType ==
    ASSUME RequestTypes
    PROVE  GetTransactionLog \in Logs
  <1>1. tlog.log \in Logs
    BY DEF RequestTypes
  <1>2. QED
    BY <1>1, EmptyLogType DEF GetTransactionLog

(* The content of a file that is readable. *)
LEMMA PayloadType ==
    ASSUME NEW f \in Files \cup {Nothing}, Readable(f)
    PROVE  Payload(f) \in Contents
  <1>1. f.body \in Contents /\ (f.whole \/ f.body # <<>>)
    BY DEF Readable, Files
  <1>2. QED
    BY <1>1, HeadTailProperties DEF Payload, Contents

(* A plan for a log. *)
LEMMA PlanType ==
    ASSUME NEW log \in Logs, NEW post \in SUBSET Paths, NEW look \in SUBSET Paths
    PROVE  /\ [last |-> LastEntries(log), post |-> post, look |-> look] \in Plans
           /\ \A p \in Paths : log[p] # <<>> => LastEntries(log)[p] # Nothing
  <1>1. LastEntries(log) \in LastSeen
    BY LastEntriesType
  <1>2. ASSUME NEW p \in Paths, log[p] # <<>> PROVE LastEntries(log)[p] # Nothing
    <2>1. log[p] \in Seq(Entries)
      BY DEF Logs
    <2>2. LastEntry(log[p]) \in Entries
      BY <2>1, <1>2, LastEntryType
    <2>3. QED
      BY <2>2, SyncAssumption DEF LastEntries
  <1>3. QED
    BY <1>1, <1>2 DEF Plans

(* What a client posts: the file, or nothing when it is gone. *)
LEMMA DataType ==
    ASSUME RequestTypes, NEW c \in Clients, NEW p \in Paths
    PROVE  (IF local[c][p] = Nothing THEN <<>> ELSE local[c][p]) \in Contents
  <1>1. local[c][p] \in Contents \cup {Nothing}
    BY DEF RequestTypes
  <1>2. QED
    BY <1>1, EmptySeq DEF Contents

(* PostFile: what the request and its answer leave behind. *)
LEMMA PostFileType ==
    ASSUME RequestTypes, NEW c \in Clients, NEW p \in Paths, PostFile(c, p)
    PROVE  RequestTypes'
  <1>0. PICK n \in Meanwhile : PostAt(c, p, n)
    BY DEF PostFile
  <1> DEFINE accepted == remote[p] = Nothing \/ Readable(remote[p])
             answer == IncrementClock(AuthenticatedFile(n), clock[c])
             stamp == IncrementClock(clock[c], IF accepted THEN answer ELSE 0)
             data == IF local[c][p] = Nothing THEN <<>> ELSE local[c][p]
  <1>1. answer \in Nat
    BY Authenticated, ClockAdvances DEF RequestTypes
  <1>2. stamp \in Nat
    <2> HIDE DEF answer, accepted
    <2>1. QED
      BY <1>1, ClockAdvances DEF RequestTypes
  <1>3. data \in Contents
    BY DataType
  <1>4. [whole |-> remote[p] # Nothing, body |-> data, stamp |-> stamp] \in Files
    <2> HIDE DEF data, stamp
    <2>1. QED
      BY <1>2, <1>3 DEF Files
  <1>5. /\ serverClock' = answer
        /\ clock' = [clock EXCEPT ![c] = stamp]
        /\ remote' = IF accepted
                     THEN [remote EXCEPT ![p] = [whole |-> @ # Nothing, body |-> data, stamp |-> stamp]]
                     ELSE remote
        /\ job' = [job EXCEPT ![c] = [op |-> "update", path |-> p, log |-> Nothing]]
        /\ unposted' = [unposted EXCEPT ![c] = @ \ {p}]
        /\ tlog' = tlog /\ local' = local
    BY <1>0 DEF PostAt
  <1> HIDE DEF accepted, answer, stamp, data
  <1>6. remote' \in [Paths -> Files \cup {Nothing}]
    BY <1>4, <1>5 DEF RequestTypes
  <1>7. job' \in [Clients -> Jobs \cup {Nothing}]
    BY <1>5 DEF RequestTypes, Jobs, Ops
  <1>8. clock' \in [Clients -> Nat] /\ unposted' \in [Clients -> SUBSET Paths]
    BY <1>2, <1>5 DEF RequestTypes
  <1>9. QED
    BY <1>1, <1>5, <1>6, <1>7, <1>8 DEF RequestTypes

(* DeleteFile: only the job changes. *)
LEMMA DeleteFileType ==
    ASSUME RequestTypes, NEW c \in Clients, NEW p \in Paths, DeleteFile(c, p)
    PROVE  RequestTypes'
  <1>1. job' \in [Clients -> Jobs \cup {Nothing}]
    BY DEF RequestTypes, DeleteFile, Jobs, Ops
  <1>2. QED
    BY <1>1 DEF RequestTypes, DeleteFile, server

(* GetFile: a local file that was fetched is a content. *)
LEMMA GetFileType ==
    ASSUME RequestTypes, NEW c \in Clients, NEW p \in Paths, GetFile(c, p)
    PROVE  RequestTypes'
  <1>1. CASE Readable(remote[p])
    <2>1. Payload(remote[p]) \in Contents
      BY <1>1, PayloadType DEF RequestTypes
    <2>2. IncrementClock(clock[c], 0) \in Nat
      BY ClockAdvances DEF RequestTypes
    <2>3. /\ local' = [local EXCEPT ![c][p] = Payload(remote[p])]
          /\ clock' = [clock EXCEPT ![c] = IncrementClock(@, 0)]
          /\ unposted' = [unposted EXCEPT ![c] = @ \ {p}]
          /\ UNCHANGED <<remote, tlog, serverClock, job>>
      BY <1>1 DEF GetFile, server
    <2>4. local' \in [Clients -> [Paths -> Contents \cup {Nothing}]]
      BY <2>1, <2>3 DEF RequestTypes
    <2>5. clock' \in [Clients -> Nat] /\ unposted' \in [Clients -> SUBSET Paths]
      BY <2>2, <2>3 DEF RequestTypes
    <2>6. QED
      BY <2>3, <2>4, <2>5 DEF RequestTypes
  <1>2. CASE ~ Readable(remote[p])
    BY <1>2 DEF RequestTypes, GetFile, server
  <1>3. QED
    BY <1>1, <1>2

(* The removal of a local file. *)
LEMMA RemoveLocalType ==
    ASSUME RequestTypes, NEW c \in Clients, NEW p \in Paths, RemoveLocal(c, p)
    PROVE  RequestTypes'
  <1>1. local' \in [Clients -> [Paths -> Contents \cup {Nothing}]]
    BY DEF RequestTypes, RemoveLocal
  <1>2. unposted' \in [Clients -> SUBSET Paths]
    BY DEF RequestTypes, RemoveLocal
  <1>3. QED
    BY <1>1, <1>2 DEF RequestTypes, RemoveLocal, server

(* A happening is counted. *)
LEMMA HappensType ==
    ASSUME HappenedTypes, NEW r \in {0, 1}, Happens(r)
    PROVE  HappenedTypes'
  BY SyncAssumption DEF HappenedTypes, Happens

(* The types hold at the start. *)
LEMMA TypeInit == Init => TypeOK
  <1> SUFFICES ASSUME Init PROVE TypeOK
    OBVIOUS
  <1>1. LastEntries(EmptyLog) \in LastSeen
    BY EmptyLogType, LastEntriesType
  <1>2. <<>> \in Seq([op : Ops, path : Paths])
    BY EmptySeq
  <1>3. RequestTypes
    BY EmptyLogType DEF Init, RequestTypes
  <1>4. LoopTypes
    <2> HIDE DEF Init
    <2>1. /\ events = [c \in Clients |-> <<>>]
          /\ watching = [c \in Clients |-> FALSE]
          /\ old = [c \in Clients |-> LastEntries(EmptyLog)]
          /\ todo = [c \in Clients |-> Nothing]
      BY DEF Init
    <2>2. QED
      BY <1>1, <1>2, <2>1 DEF LoopTypes
  <1>5. HappenedTypes
    BY SyncAssumption DEF Init, HappenedTypes
  <1>6. QED
    BY <1>3, <1>4, <1>5, TypeParts

(* A user's change. *)
LEMMA EditType ==
    ASSUME TypeOK, NEW c \in Clients, NEW p \in Paths, NEW op \in Ops,
           NEW content \in Contents \cup {Nothing}, Edit(c, p, op, content)
    PROVE  TypeOK'
  <1>1. RequestTypes /\ LoopTypes /\ HappenedTypes
    BY TypeParts
  <1>2. HappenedTypes'
    BY <1>1, HappensType DEF Edit
  <1>3. RequestTypes'
    <2>1. local' \in [Clients -> [Paths -> Contents \cup {Nothing}]]
      BY <1>1 DEF RequestTypes, Edit
    <2>2. unposted' \in [Clients -> SUBSET Paths]
      BY <1>1 DEF RequestTypes, Edit
    <2>3. QED
      BY <1>1, <2>1, <2>2 DEF RequestTypes, Edit, server
  <1>4. LoopTypes'
    <2>1. [op |-> op, path |-> p] \in [op : Ops, path : Paths]
      OBVIOUS
    <2>2. Append(events[c], [op |-> op, path |-> p]) \in Seq([op : Ops, path : Paths])
      BY <1>1, <2>1, AppendProperties DEF LoopTypes
    <2>3. events' \in [Clients -> Seq([op : Ops, path : Paths])]
      BY <1>1, <2>2 DEF LoopTypes, Edit
    <2>4. QED
      BY <1>1, <2>3 DEF LoopTypes, Edit
  <1>5. QED
    BY <1>2, <1>3, <1>4, TypeParts

(* A log with an entry more. *)
LEMMA AddedType ==
    ASSUME NEW log \in Logs, NEW p \in Paths, NEW e \in Entries
    PROVE  [log EXCEPT ![p] = Append(@, e)] \in Logs
  <1>1. log[p] \in Seq(Entries)
    BY DEF Logs
  <1>2. Append(log[p], e) \in Seq(Entries)
    BY <1>1, AppendProperties
  <1>3. QED
    BY <1>2 DEF Logs

(* AddEntry: an entry at the end of the log that was fetched. *)
LEMMA AddEntryFacts ==
    ASSUME RequestTypes, HappenedTypes, NEW c \in Clients, AddEntry(c)
    PROVE  /\ job[c] \in Jobs /\ job[c].log = Nothing
           /\ [op |-> job[c].op, ts |-> clock[c]] \in Entries
           /\ HappenedTypes' /\ happened'.restarts = happened.restarts
           /\ \E log \in Logs :
                 /\ log \in {GetTransactionLog, EmptyLog}
                 /\ job' = [job EXCEPT ![c] = JobWith(log, c)]
  <1>1. job[c] \in Jobs /\ job[c].log = Nothing
    BY DEF AddEntry, RequestTypes
  <1>2. [op |-> job[c].op, ts |-> clock[c]] \in Entries
    BY <1>1 DEF RequestTypes, Jobs, Entries
  <1>3. HappenedTypes' /\ happened'.restarts = happened.restarts
    <2>1. UNCHANGED happened \/ Happens(0)
      BY DEF AddEntry
    <2>2. CASE UNCHANGED happened
      BY <2>2 DEF HappenedTypes
    <2>3. CASE Happens(0)
      <3>1. HappenedTypes'
        BY <2>3, HappensType
      <3>2. QED
        BY <2>3, <3>1 DEF HappenedTypes, Happens
    <2>4. QED
      BY <2>1, <2>2, <2>3
  <1>4. GetTransactionLog \in Logs /\ EmptyLog \in Logs
    BY GetTransactionLogType, EmptyLogType
  <1>5. \/ job' = [job EXCEPT ![c] = JobWith(GetTransactionLog, c)]
        \/ job' = [job EXCEPT ![c] = JobWith(EmptyLog, c)]
    BY DEF AddEntry
  <1>6. QED
    BY <1>1, <1>2, <1>3, <1>4, <1>5

(* AddEntry: the job gets a log. *)
LEMMA AddEntryType ==
    ASSUME TypeOK, NEW c \in Clients, AddEntry(c)
    PROVE  TypeOK'
  <1>1. RequestTypes /\ LoopTypes /\ HappenedTypes
    BY TypeParts
  <1>2. /\ job[c] \in Jobs /\ HappenedTypes'
        /\ [op |-> job[c].op, ts |-> clock[c]] \in Entries
    BY <1>1, AddEntryFacts
  <1>3. PICK log \in Logs : job' = [job EXCEPT ![c] = JobWith(log, c)]
    BY <1>1, AddEntryFacts
  <1>4. WithEntry(log, c) \in Logs
    <2>1. job[c].path \in Paths
      BY <1>2 DEF Jobs
    <2>2. QED
      BY <1>2, <2>1, AddedType DEF WithEntry
  <1>5. JobWith(log, c) \in Jobs
    BY <1>2, <1>4 DEF JobWith, Jobs
  <1>6. job' \in [Clients -> Jobs \cup {Nothing}]
    BY <1>1, <1>3, <1>5 DEF RequestTypes
  <1>7. UNCHANGED <<server, local, events, watching, clock, old, todo, unposted>>
    BY DEF AddEntry
  <1>8. RequestTypes' /\ LoopTypes'
    BY <1>1, <1>6, <1>7 DEF RequestTypes, LoopTypes, server
  <1>9. QED
    BY <1>2, <1>8, TypeParts

(* PutTransactionLog: the job's log becomes the stored one. *)
LEMMA PutTransactionLogType ==
    ASSUME TypeOK, NEW c \in Clients, PutTransactionLog(c)
    PROVE  TypeOK'
  <1>1. RequestTypes /\ LoopTypes /\ HappenedTypes
    BY TypeParts
  <1>2. job[c] \in Jobs /\ job[c].log \in Logs
    BY <1>1 DEF PutTransactionLog, RequestTypes, Jobs
  <1>3. tlog' \in [state : {"absent", "short", "whole"}, log : Logs]
    BY <1>2 DEF PutTransactionLog
  <1>4. serverClock' \in Nat
    <2>1. PICK n \in Meanwhile : serverClock' = IncrementClock(AuthenticatedLog(n), 0)
      BY DEF PutTransactionLog
    <2>2. QED
      BY <1>1, <2>1, Authenticated, ClockAdvances DEF RequestTypes
  <1>5. clock' \in [Clients -> Nat]
    <2>1. IncrementClock(clock[c], serverClock') \in Nat
      BY <1>1, <1>4, ClockAdvances DEF RequestTypes
    <2>2. QED
      BY <1>1, <2>1 DEF PutTransactionLog, RequestTypes
  <1>6. job' \in [Clients -> Jobs \cup {Nothing}]
    BY <1>1 DEF PutTransactionLog, RequestTypes
  <1>7. RequestTypes'
    BY <1>1, <1>3, <1>4, <1>5, <1>6 DEF PutTransactionLog, RequestTypes
  <1>8. LoopTypes' /\ HappenedTypes'
    BY <1>1 DEF PutTransactionLog, LoopTypes, HappenedTypes
  <1>9. QED
    BY <1>7, <1>8, TypeParts

(* Of the steps that deal with one file, all but their request. *)
LEMMA HandleEventType ==
    ASSUME TypeOK, NEW c \in Clients, HandleEvent(c)
    PROVE  TypeOK'
  <1>1. RequestTypes /\ LoopTypes /\ HappenedTypes
    BY TypeParts
  <1>2. /\ Head(events[c]) \in [op : Ops, path : Paths]
        /\ Tail(events[c]) \in Seq([op : Ops, path : Paths])
    BY <1>1, HeadTailProperties DEF HandleEvent, LoopTypes
  <1>3. RequestTypes'
    <2> DEFINE p == Head(events[c]).path
    <2>1. p \in Paths
      BY <1>2
    <2>2. PostFile(c, p) \/ DeleteFile(c, p)
      BY DEF HandleEvent
    <2> HIDE DEF p
    <2>3. QED
      BY <1>1, <2>1, <2>2, PostFileType, DeleteFileType
  <1>4. events' \in [Clients -> Seq([op : Ops, path : Paths])]
    BY <1>1, <1>2 DEF HandleEvent, LoopTypes
  <1>5. UNCHANGED <<watching, old, todo, happened>>
    BY DEF HandleEvent
  <1>6. LoopTypes' /\ HappenedTypes'
    BY <1>1, <1>4, <1>5 DEF LoopTypes, HappenedTypes
  <1>7. QED
    BY <1>3, <1>6, TypeParts

(* Synchronize: the plan is made while nothing is watched. *)
LEMMA SynchronizeType ==
    ASSUME TypeOK, NEW c \in Clients, Synchronize(c)
    PROVE  TypeOK'
  <1>1. RequestTypes /\ LoopTypes /\ HappenedTypes
    BY TypeParts
  <1> DEFINE Post(log) == {p \in Paths : local[c][p] # Nothing /\ log[p] = <<>>}
             Look(log) == {p \in Paths : log[p] # <<>> /\ ~ Seen(c, p, log)}
             Plan(log) == [last |-> LastEntries(log), post |-> Post(log), look |-> Look(log)]
  <1>2. HappenedTypes' /\ \E log \in Logs : todo' = [todo EXCEPT ![c] = Plan(log)]
    <2>1. GetTransactionLog \in Logs /\ EmptyLog \in Logs
      BY <1>1, GetTransactionLogType, EmptyLogType
    <2>2. \/ todo' = [todo EXCEPT ![c] = Plan(GetTransactionLog)] /\ UNCHANGED happened
          \/ todo' = [todo EXCEPT ![c] = Plan(EmptyLog)] /\ Happens(0)
      BY DEF Synchronize
    <2> HIDE DEF Plan
    <2>3. UNCHANGED happened => HappenedTypes'
      BY <1>1 DEF HappenedTypes
    <2>4. QED
      BY <1>1, <2>1, <2>2, <2>3, HappensType
  <1>3. PICK log \in Logs : todo' = [todo EXCEPT ![c] = Plan(log)]
    BY <1>2
  <1>4. Plan(log) \in Plans /\ \A p \in Look(log) : Plan(log).last[p] # Nothing
    <2>1. Post(log) \in SUBSET Paths /\ Look(log) \in SUBSET Paths
      OBVIOUS
    <2>2. \A p \in Look(log) : log[p] # <<>>
      OBVIOUS
    <2> HIDE DEF Post, Look
    <2>3. QED
      BY <2>1, <2>2, PlanType
  <1>5. /\ Plan(log).look = Look(log) /\ Look(log) \cap Post(log) = {}
        /\ Plan(log).post = Post(log)
    OBVIOUS
  <1>6. watching' = [watching EXCEPT ![c] = FALSE] /\ UNCHANGED <<server, local, events, clock, old, job, unposted>>
    BY DEF Synchronize
  <1> HIDE DEF Plan, Look, Post
  <1>7. RequestTypes'
    BY <1>1, <1>6 DEF RequestTypes, server
  <1>8. LoopTypes'
    <2>1. todo' \in [Clients -> Plans \cup {Nothing}] /\ watching' \in [Clients -> BOOLEAN]
      BY <1>1, <1>3, <1>4, <1>6 DEF LoopTypes
    <2>2. ASSUME NEW d \in Clients, todo'[d] # Nothing
          PROVE  /\ ~ watching'[d]
                 /\ \A p \in todo'[d].look : todo'[d].last[p] # Nothing
                 /\ todo'[d].look \cap todo'[d].post = {}
      <3>1. CASE d = c
        <4>1. todo'[d] = Plan(log) /\ ~ watching'[d]
          BY <1>1, <1>3, <1>6, <3>1 DEF LoopTypes
        <4>2. QED
          BY <4>1, <1>4, <1>5
      <3>2. CASE d # c
        <4>1. todo'[d] = todo[d] /\ watching'[d] = watching[d]
          BY <1>1, <1>3, <1>6, <3>2 DEF LoopTypes
        <4>2. QED
          BY <4>1, <1>1, <2>2 DEF LoopTypes
      <3>3. QED
        BY <3>1, <3>2
    <2>3. QED
      BY <1>1, <1>6, <2>1, <2>2 DEF LoopTypes
  <1>9. QED
    BY <1>2, <1>7, <1>8, TypeParts

(* A Synchronize that goes on: less to do than before. *)
LEMMA LessToDo ==
    ASSUME LoopTypes, NEW c \in Clients, todo[c] # Nothing,
           NEW plan \in Plans, plan.last = todo[c].last,
           plan.post \subseteq todo[c].post, plan.look \subseteq todo[c].look,
           todo' = [todo EXCEPT ![c] = plan], UNCHANGED <<events, watching, old>>
    PROVE  LoopTypes'
  <1>1. todo' \in [Clients -> Plans \cup {Nothing}]
    BY DEF LoopTypes
  <1>2. ASSUME NEW d \in Clients, todo'[d] # Nothing
        PROVE  /\ ~ watching'[d]
               /\ \A p \in todo'[d].look : todo'[d].last[p] # Nothing
               /\ todo'[d].look \cap todo'[d].post = {}
    <2>1. CASE d = c
      <3>1. todo'[d] = plan
        BY <2>1 DEF LoopTypes
      <3>2. /\ ~ watching[c]
            /\ \A p \in todo[c].look : todo[c].last[p] # Nothing
            /\ todo[c].look \cap todo[c].post = {}
        BY DEF LoopTypes
      <3>3. QED
        BY <2>1, <3>1, <3>2
    <2>2. CASE d # c
      <3>1. todo'[d] = todo[d]
        BY <2>2 DEF LoopTypes
      <3>2. QED
        BY <3>1, <1>2 DEF LoopTypes
    <2>3. QED
      BY <2>1, <2>2
  <1>3. QED
    BY <1>1, <1>2 DEF LoopTypes

(* A path is posted once and taken off the plan. *)
LEMMA PostUnloggedType ==
    ASSUME TypeOK, NEW c \in Clients, NEW p \in Paths, PostUnlogged(c, p)
    PROVE  TypeOK'
  <1>1. RequestTypes /\ LoopTypes /\ HappenedTypes
    BY TypeParts
  <1>2. RequestTypes'
    BY <1>1, PostFileType DEF PostUnlogged
  <1>3. LoopTypes'
    <2>1. todo[c] # Nothing /\ todo[c] \in Plans
      BY <1>1 DEF PostUnlogged, Synchronizing, LoopTypes
    <2> DEFINE plan == [last |-> todo[c].last, post |-> todo[c].post \ {p}, look |-> todo[c].look]
    <2>2. plan \in Plans /\ [todo[c] EXCEPT !.post = @ \ {p}] = plan
      BY <2>1 DEF Plans
    <2>3. todo' = [todo EXCEPT ![c] = plan]
      BY <2>2 DEF PostUnlogged
    <2>4. UNCHANGED <<events, watching, old>>
      BY DEF PostUnlogged
    <2>5. plan.last = todo[c].last /\ plan.post \subseteq todo[c].post /\ plan.look \subseteq todo[c].look
      OBVIOUS
    <2> HIDE DEF plan
    <2>6. QED
      BY <1>1, <2>1, <2>2, <2>3, <2>4, <2>5, LessToDo
  <1>4. HappenedTypes'
    BY <1>1 DEF PostUnlogged, HappenedTypes
  <1>5. QED
    BY <1>2, <1>3, <1>4, TypeParts

(* A path is compared once and taken off the plan. *)
LEMMA CompareEntryType ==
    ASSUME TypeOK, NEW c \in Clients, NEW p \in Paths, CompareEntry(c, p)
    PROVE  TypeOK'
  <1>1. RequestTypes /\ LoopTypes /\ HappenedTypes
    BY TypeParts
  <1>2. RequestTypes'
    <2>1. GetFile(c, p) \/ RemoveLocal(c, p) \/ DeleteFile(c, p) \/ PostFile(c, p)
      BY DEF CompareEntry
    <2>2. QED
      BY <1>1, <2>1, GetFileType, RemoveLocalType, DeleteFileType, PostFileType
  <1>3. LoopTypes'
    <2>1. todo[c] # Nothing /\ todo[c] \in Plans
      BY <1>1 DEF CompareEntry, Synchronizing, LoopTypes
    <2> DEFINE plan == [last |-> todo[c].last, post |-> todo[c].post, look |-> todo[c].look \ {p}]
    <2>2. plan \in Plans /\ [todo[c] EXCEPT !.look = @ \ {p}] = plan
      BY <2>1 DEF Plans
    <2>3. todo' = [todo EXCEPT ![c] = plan]
      BY <2>2 DEF CompareEntry
    <2>4. UNCHANGED <<events, watching, old>>
      BY DEF CompareEntry
    <2>5. plan.last = todo[c].last /\ plan.post \subseteq todo[c].post /\ plan.look \subseteq todo[c].look
      OBVIOUS
    <2> HIDE DEF plan
    <2>6. QED
      BY <1>1, <2>1, <2>2, <2>3, <2>4, <2>5, LessToDo
  <1>4. HappenedTypes'
    BY <1>1 DEF CompareEntry, HappenedTypes
  <1>5. QED
    BY <1>2, <1>3, <1>4, TypeParts

(* The end of a Synchronize: what it saw becomes the old log. *)
LEMMA EndSynchronizeType ==
    ASSUME TypeOK, NEW c \in Clients, EndSynchronize(c)
    PROVE  TypeOK'
  <1>1. RequestTypes /\ LoopTypes /\ HappenedTypes
    BY TypeParts
  <1>2. RequestTypes' /\ HappenedTypes'
    BY <1>1 DEF EndSynchronize, RequestTypes, HappenedTypes, server
  <1>3. todo[c].last \in LastSeen
    BY <1>1 DEF EndSynchronize, Synchronizing, LoopTypes, Plans
  <1>4. LoopTypes'
    BY <1>1, <1>3 DEF EndSynchronize, LoopTypes
  <1>5. QED
    BY <1>2, <1>4, TypeParts

(* A client that ends keeps its directory only. *)
LEMMA StopClientType ==
    ASSUME TypeOK, NEW c \in Clients, StopClient(c)
    PROVE  TypeOK'
  <1>1. RequestTypes /\ LoopTypes /\ HappenedTypes
    BY TypeParts
  <1>2. HappenedTypes'
    BY <1>1, HappensType DEF StopClient
  <1>3. RequestTypes'
    BY <1>1 DEF StopClient, RequestTypes, server
  <1>4. <<>> \in Seq([op : Ops, path : Paths]) /\ LastEntries(EmptyLog) \in LastSeen
    BY EmptySeq, EmptyLogType, LastEntriesType
  <1>5. LoopTypes'
    BY <1>1, <1>4 DEF StopClient, LoopTypes
  <1>6. QED
    BY <1>2, <1>3, <1>5, TypeParts

(* A restart of the server is counted among the happenings. *)
LEMMA RestartServerType ==
    ASSUME TypeOK, RestartServer
    PROVE  TypeOK'
  <1>1. RequestTypes /\ LoopTypes /\ HappenedTypes
    BY TypeParts
  <1>2. HappenedTypes'
    BY <1>1, HappensType DEF RestartServer
  <1>3. RequestTypes' /\ LoopTypes'
    BY <1>1 DEF RestartServer, RequestTypes, LoopTypes, client
  <1>4. QED
    BY <1>2, <1>3, TypeParts

(* No step leaves the types. *)
LEMMA TypeStep ==
    ASSUME TypeOK, [Next]_vars
    PROVE  TypeOK'
  <1>1. ASSUME NEW c \in Clients, Step(c) PROVE TypeOK'
    <2>1. CASE Synchronize(c)
      BY <2>1, SynchronizeType
    <2>2. CASE EndSynchronize(c)
      BY <2>2, EndSynchronizeType
    <2>3. CASE HandleEvent(c)
      BY <2>3, HandleEventType
    <2>4. CASE AddEntry(c)
      BY <2>4, AddEntryType
    <2>5. CASE PutTransactionLog(c)
      BY <2>5, PutTransactionLogType
    <2>6. ASSUME NEW p \in Paths, PostUnlogged(c, p) PROVE TypeOK'
      BY <2>6, PostUnloggedType
    <2>7. ASSUME NEW p \in Paths, CompareEntry(c, p) PROVE TypeOK'
      BY <2>7, CompareEntryType
    <2>8. QED
      BY <1>1, <2>1, <2>2, <2>3, <2>4, <2>5, <2>6, <2>7 DEF Step
  <1>2. ASSUME NEW c \in Clients, StopClient(c) PROVE TypeOK'
    BY <1>2, StopClientType
  <1>3. ASSUME NEW c \in Clients, NEW p \in Paths, NEW text \in Texts, Write(c, p, text)
        PROVE  TypeOK'
    <2>1. text \in Contents /\ "update" \in Ops
      BY SyncAssumption DEF Ops
    <2>2. QED
      BY <1>3, <2>1, EditType DEF Write
  <1>4. ASSUME NEW c \in Clients, NEW p \in Paths, Remove(c, p) PROVE TypeOK'
    <2>1. "delete" \in Ops
      BY DEF Ops
    <2>2. QED
      BY <1>4, <2>1, EditType DEF Remove
  <1>5. CASE RestartServer
    BY <1>5, RestartServerType
  <1>6. CASE UNCHANGED vars
    <2>1. UNCHANGED <<remote, tlog, serverClock, local, events, watching, clock, old, todo, job, unposted, happened>>
      BY <1>6 DEF vars
    <2>2. QED
      BY <2>1 DEF TypeOK
  <1>7. QED
    BY <1>1, <1>2, <1>3, <1>4, <1>5, <1>6 DEF Next

(* Type correctness: whatever the clients do and whatever fails, logs,      *)
(* clocks and files keep their form, a client watches its directory only    *)
(* between two Synchronize, and a Synchronize never compares a path that    *)
(* has no entry (cmd/peerstore/client/main.go:606).                         *)
THEOREM SyncTypeCorrect == Spec => []TypeOK
  <1>1. Init => TypeOK
    BY TypeInit
  <1>2. TypeOK /\ [Next]_vars => TypeOK'
    BY TypeStep
  <1>3. QED
    BY <1>1, <1>2, PTL DEF Spec

-----------------------------------------------------------------------------
(* THE LOG AND THE CLOCKS *)

(* Where the files stay, a log that was not ahead of them is not ahead of   *)
(* them after the step.                                                     *)
LEMMA LogKept ==
    ASSUME NEW log, NotAhead(log), Distinct(log), UNCHANGED remote,
           happened'.restarts = 0 => happened.restarts = 0
    PROVE  NotAhead(log)' /\ Distinct(log)'
  <1>1. \A p \in Paths : Comparable(p)' => Comparable(p)
    BY DEF Comparable, Readable
  <1>2. NotAhead(log)'
    BY <1>1 DEF NotAhead, UpdatesOf
  <1>3. Distinct(log)'
    BY <1>1 DEF Distinct, UpdatesOf
  <1>4. QED
    BY <1>2, <1>3

(* Steps that neither post nor log: they may forget a client's post or copy *)
(* of the log.                                                              *)
LEMMA NothingPosted ==
    ASSUME TypeOK, LogInvariant, UNCHANGED <<remote, tlog>>,
           happened'.restarts = 0 => happened.restarts = 0 /\ serverClock <= serverClock',
           serverClock' \in Nat,
           \A d \in Clients : Posted(d)' => Posted(d) /\ job'[d] = job[d] /\ clock'[d] = clock[d],
           \A d \in Clients : Logging(d)' => Logging(d) /\ job'[d] = job[d]
    PROVE  LogInvariant'
  <1>1. NotAhead(tlog.log)' /\ Distinct(tlog.log)'
    <2>1. NotAhead(tlog.log) /\ Distinct(tlog.log)
      BY DEF LogInvariant
    <2>2. ASSUME NEW log, log = tlog.log PROVE NotAhead(log)' /\ Distinct(log)'
      BY <2>1, <2>2, LogKept
    <2>3. QED
      BY <2>2 DEF NotAhead, Distinct
  <1>2. ASSUME NEW d \in Clients, Logging(d)'
        PROVE  NotAhead(job[d].log)' /\ Distinct(job[d].log)'
    <2>1. job'[d] = job[d] /\ NotAhead(job[d].log) /\ Distinct(job[d].log)
      BY <1>2 DEF LogInvariant
    <2>2. ASSUME NEW log, log = job[d].log PROVE NotAhead(log)' /\ Distinct(log)'
      BY <2>1, <2>2, LogKept
    <2>3. QED
      BY <2>1, <2>2 DEF NotAhead, Distinct
  <1>3. ASSUME NEW d \in Clients, Posted(d)'
        PROVE  Unlogged(d)'
    <2>1. job'[d] = job[d] /\ clock'[d] = clock[d] /\ Unlogged(d)
      BY <1>3 DEF LogInvariant
    <2>2. remote'[job'[d].path] # Nothing
      BY <2>1 DEF Unlogged
    <2>3. ASSUME Comparable(job[d].path)'
          PROVE  /\ clock'[d] <= remote'[job'[d].path].stamp
                 /\ FreshIn(d, tlog.log)'
                 /\ \A e \in Clients : Logging(e)' => FreshIn(d, job[e].log)'
                 /\ \A e \in Clients \ {d} :
                       Posted(e)' /\ job'[e].path = job'[d].path => clock'[d] # clock'[e]
      <3>1. Comparable(job[d].path)
        BY <2>1, <2>3 DEF Comparable, Readable
      <3>2. /\ clock[d] <= remote[job[d].path].stamp
            /\ FreshIn(d, tlog.log)
            /\ \A e \in Clients : Logging(e) => FreshIn(d, job[e].log)
            /\ \A e \in Clients \ {d} :
                  Posted(e) /\ job[e].path = job[d].path => clock[d] # clock[e]
        BY <2>1, <3>1 DEF Unlogged
      <3>3. FreshIn(d, tlog.log)'
        BY <2>1, <3>2 DEF FreshIn
      <3>4. ASSUME NEW e \in Clients, Logging(e)' PROVE FreshIn(d, job[e].log)'
        <4>1. Logging(e) /\ job'[e] = job[e]
          BY <3>4
        <4>2. FreshIn(d, job[e].log)
          BY <4>1, <3>2
        <4>3. QED
          BY <2>1, <4>1, <4>2 DEF FreshIn
      <3>5. QED
        BY <2>1, <3>2, <3>3, <3>4
    <2>4. QED
      BY <2>2, <2>3 DEF Unlogged
  <1>4. ServerKnows'
    <2>1. ASSUME NEW p \in Paths, happened'.restarts = 0, remote[p] # Nothing
          PROVE  remote[p].stamp <= serverClock' + 1
      <3>1. remote[p].stamp <= serverClock + 1
        BY <2>1 DEF LogInvariant, ServerKnows
      <3>2. remote[p].stamp \in Nat /\ serverClock \in Nat
        BY <2>1 DEF TypeOK, Files
      <3>3. QED
        BY <2>1, <3>1, <3>2
    <2>2. QED
      BY <2>1 DEF ServerKnows
  <1>5. QED
    BY <1>1, <1>2, <1>3, <1>4 DEF LogInvariant

(* A post that is accepted bears a later timestamp than all before it; one  *)
(* that is refused leaves a file that nobody can compare.                   *)
LEMMA PostIsLatest ==
    ASSUME TypeOK, LogInvariant, NEW c \in Clients, NEW p \in Paths, PostFile(c, p),
           UNCHANGED happened
    PROVE  /\ serverClock' \in Nat /\ serverClock < serverClock'
           /\ remote' \in [Paths -> Files \cup {Nothing}]
           /\ remote'[p] # Nothing
           /\ \A q \in Paths \ {p} : remote'[q] = remote[q]
           /\ remote'[p] = remote[p] \/ remote'[p].stamp = serverClock' + 1
           /\ Comparable(p)' =>
                 /\ clock'[c] = remote'[p].stamp /\ remote'[p].stamp = serverClock' + 1
                 /\ remote[p] = Nothing \/ (Comparable(p) /\ remote[p].stamp < remote'[p].stamp)
           /\ \A d \in Clients \ {c} : clock'[d] = clock[d] /\ job'[d] = job[d]
           /\ job'[c] = [op |-> "update", path |-> p, log |-> Nothing]
           /\ tlog' = tlog
  <1>0. PICK n \in Meanwhile : PostAt(c, p, n)
    BY DEF PostFile
  <1> DEFINE accepted == remote[p] = Nothing \/ Readable(remote[p])
             answer == IncrementClock(AuthenticatedFile(n), clock[c])
             stamp == IncrementClock(clock[c], IF accepted THEN answer ELSE 0)
             data == IF local[c][p] = Nothing THEN <<>> ELSE local[c][p]
             file == [whole |-> remote[p] # Nothing, body |-> data, stamp |-> stamp]
  <1>1. /\ serverClock' = answer
        /\ clock' = [clock EXCEPT ![c] = stamp]
        /\ remote' = IF accepted THEN [remote EXCEPT ![p] = file] ELSE remote
        /\ job' = [job EXCEPT ![c] = [op |-> "update", path |-> p, log |-> Nothing]]
        /\ tlog' = tlog
    BY <1>0 DEF PostAt
  <1>2. /\ serverClock \in Nat /\ clock \in [Clients -> Nat]
        /\ remote \in [Paths -> Files \cup {Nothing}]
        /\ job \in [Clients -> Jobs \cup {Nothing}]
    BY DEF TypeOK
  <1>3. answer \in Nat /\ serverClock < answer /\ clock[c] < answer
    <2>1. PICK base \in Nat : base = AuthenticatedFile(n) /\ serverClock < base
      BY <1>2, Authenticated
    <2>2. IncrementClock(base, clock[c]) \in Nat /\ base < IncrementClock(base, clock[c])
          /\ clock[c] < IncrementClock(base, clock[c])
      BY <1>2, ClockAdvances
    <2>3. QED
      BY <1>2, <2>1, <2>2
  <1>4. accepted => stamp = answer + 1
    <2> HIDE DEF answer, accepted
    <2>1. QED
      BY <1>2, <1>3 DEF IncrementClock
  <1>5. remote' \in [Paths -> Files \cup {Nothing}]
    BY PostFileType, TypeParts DEF RequestTypes
  <1>6. data \in Contents
    BY DataType, TypeParts
  <1> HIDE DEF answer, stamp, data
  <1>7. accepted => file \in Files /\ file.stamp = stamp
    <2> HIDE DEF accepted
    <2>1. QED
      BY <1>3, <1>4, <1>6 DEF Files
  <1>8. accepted => remote'[p] = file /\ file # Nothing
    <2> HIDE DEF file, accepted
    <2>1. QED
      BY <1>1, <1>2, <1>7, SyncAssumption
  <1>9. remote'[p] # Nothing /\ (remote'[p] = remote[p] \/ remote'[p].stamp = serverClock' + 1)
    <2>1. CASE accepted
      <3> HIDE DEF file
      <3>1. QED
        BY <2>1, <1>1, <1>4, <1>7, <1>8
    <2>2. CASE ~ accepted
      BY <2>2, <1>1
    <2>3. QED
      BY <2>1, <2>2
  <1>10. ASSUME Comparable(p)'
         PROVE  /\ clock'[c] = remote'[p].stamp /\ remote'[p].stamp = serverClock' + 1
                /\ remote[p] = Nothing \/ (Comparable(p) /\ remote[p].stamp < remote'[p].stamp)
    <2>1. accepted
      BY <1>1, <1>10 DEF Comparable, Readable
    <2>2. clock'[c] = stamp /\ remote'[p].stamp = stamp /\ stamp = serverClock' + 1
      <3> HIDE DEF file, accepted
      <3>1. QED
        BY <2>1, <1>1, <1>2, <1>4, <1>7, <1>8
    <2>3. CASE remote[p] # Nothing
      <3>1. Comparable(p)
        BY <2>1, <2>3, <1>10 DEF Comparable
      <3>2. remote[p].stamp <= serverClock + 1
        BY <3>1 DEF LogInvariant, ServerKnows, Comparable
      <3>3. remote[p].stamp \in Nat
        BY <2>3, <1>2 DEF Files
      <3>4. QED
        BY <2>2, <3>1, <3>2, <3>3, <1>1, <1>2, <1>3
    <2>4. QED
      BY <2>2, <2>3
  <1>11. \A q \in Paths \ {p} : remote'[q] = remote[q]
    <2> HIDE DEF file, accepted
    <2>1. QED
      BY <1>1, <1>2
  <1>12. /\ \A d \in Clients \ {c} : clock'[d] = clock[d] /\ job'[d] = job[d]
         /\ job'[c] = [op |-> "update", path |-> p, log |-> Nothing]
    BY <1>1, <1>2
  <1>13. QED
    <2> HIDE DEF file, accepted
    <2>1. QED
      BY <1>1, <1>2, <1>3, <1>5, <1>9, <1>10, <1>11, <1>12

(* A post leaves a log that is not ahead so, and its timestamp is in none.  *)
LEMMA LogUnderPost ==
    ASSUME TypeOK, LogInvariant, NEW c \in Clients, NEW p \in Paths, PostFile(c, p),
           UNCHANGED happened,
           NEW log \in Logs, NotAhead(log), Distinct(log)
    PROVE  /\ NotAhead(log)' /\ Distinct(log)'
           /\ Comparable(p)' => \A i \in UpdatesOf(log[p]) : log[p][i].ts < clock'[c]
  <1>1. /\ remote'[p] # Nothing
        /\ \A q \in Paths \ {p} : remote'[q] = remote[q]
        /\ remote' \in [Paths -> Files \cup {Nothing}]
    BY PostIsLatest
  <1>2. \A q \in Paths \ {p} : Comparable(q)' => Comparable(q)
    BY <1>1 DEF Comparable, Readable
  <1>3. ASSUME Comparable(p)', NEW i \in UpdatesOf(log[p])
        PROVE  Comparable(p) /\ log[p][i].ts < clock'[c] /\ clock'[c] = remote'[p].stamp
    <2>1. remote[p] # Nothing
      BY <1>3 DEF NotAhead
    <2>2. Comparable(p) /\ remote[p].stamp < remote'[p].stamp /\ clock'[c] = remote'[p].stamp
      BY <1>3, <2>1, PostIsLatest
    <2>3. log[p][i].ts <= remote[p].stamp
      BY <1>3, <2>2 DEF NotAhead
    <2>4. log[p][i].ts \in Nat
      <3>1. log[p] \in Seq(Entries) /\ i \in DOMAIN log[p]
        BY <1>3 DEF Logs, UpdatesOf
      <3>2. log[p][i] \in Entries
        BY <3>1
      <3>3. QED
        BY <3>2 DEF Entries
    <2>5. remote[p].stamp \in Nat /\ remote'[p].stamp \in Nat
      <3>1. remote[p] \in Files /\ remote'[p] \in Files
        BY <2>1, <1>1 DEF TypeOK
      <3>2. QED
        BY <3>1 DEF Files
    <2>6. QED
      BY <2>2, <2>3, <2>4, <2>5
  <1>4. NotAhead(log)'
    <2>1. ASSUME NEW q \in Paths, NEW i \in UpdatesOf(log[q])
          PROVE  /\ remote'[q] # Nothing
                 /\ Comparable(q)' => log[q][i].ts <= remote'[q].stamp
      <3>1. CASE q = p
        <4>1. ASSUME Comparable(p)' PROVE log[p][i].ts <= remote'[p].stamp
          <5>1. log[p][i].ts < clock'[c] /\ clock'[c] = remote'[p].stamp
            BY <2>1, <3>1, <4>1, <1>3
          <5>2. log[p] \in Seq(Entries) /\ i \in DOMAIN log[p]
            BY <2>1, <3>1 DEF Logs, UpdatesOf
          <5>3. log[p][i] \in Entries
            BY <5>2
          <5>4. log[p][i].ts \in Nat /\ remote'[p].stamp \in Nat
            BY <5>3, <1>1 DEF Entries, Files
          <5>5. QED
            BY <5>1, <5>4
        <4>2. QED
          BY <3>1, <4>1, <1>1
      <3>2. CASE q # p
        BY <2>1, <3>2, <1>1, <1>2 DEF NotAhead
      <3>3. QED
        BY <3>1, <3>2
    <2>2. QED
      BY <2>1 DEF NotAhead, UpdatesOf
  <1>5. Distinct(log)'
    <2>1. ASSUME NEW q \in Paths, Comparable(q)', NEW i \in UpdatesOf(log[q]),
                 NEW j \in UpdatesOf(log[q]), i # j
          PROVE  log[q][i].ts # log[q][j].ts
      <3>1. Comparable(q)
        BY <2>1, <1>2, <1>3
      <3>2. QED
        BY <2>1, <3>1 DEF Distinct
    <2>2. QED
      BY <2>1 DEF Distinct, UpdatesOf
  <1>6. QED
    BY <1>3, <1>4, <1>5

(* A step of PostFile keeps the invariant: the new timestamp is in no log,  *)
(* and no other client's.                                                   *)
LEMMA PostFileInvariant ==
    ASSUME TypeOK, LogInvariant, NEW c \in Clients, NEW p \in Paths, PostFile(c, p),
           UNCHANGED happened
    PROVE  LogInvariant'
  <1>1. /\ serverClock' \in Nat /\ serverClock \in Nat /\ serverClock < serverClock'
        /\ remote' \in [Paths -> Files \cup {Nothing}]
        /\ remote \in [Paths -> Files \cup {Nothing}]
        /\ remote'[p] # Nothing
        /\ \A q \in Paths \ {p} : remote'[q] = remote[q]
        /\ remote'[p] = remote[p] \/ remote'[p].stamp = serverClock' + 1
        /\ \A d \in Clients \ {c} : clock'[d] = clock[d] /\ job'[d] = job[d]
        /\ job'[c] = [op |-> "update", path |-> p, log |-> Nothing]
        /\ tlog' = tlog
    BY PostIsLatest DEF TypeOK
  <1>2. ~ Logging(c)' /\ job'[c].path = p
    BY <1>1 DEF Logging
  <1>3. \A d \in Clients \ {c} : (Posted(d)' <=> Posted(d)) /\ (Logging(d)' <=> Logging(d))
    BY <1>1 DEF Logging, Posted
  <1>4. tlog.log \in Logs /\ NotAhead(tlog.log) /\ Distinct(tlog.log)
    BY DEF TypeOK, LogInvariant
  <1>5. \A d \in Clients : Logging(d) =>
           job[d].log \in Logs /\ NotAhead(job[d].log) /\ Distinct(job[d].log)
    BY DEF TypeOK, LogInvariant, Logging, Jobs
  <1>6. ASSUME NEW log \in Logs, NotAhead(log), Distinct(log)
        PROVE  /\ NotAhead(log)' /\ Distinct(log)'
               /\ Comparable(p)' => \A i \in UpdatesOf(log[p]) : log[p][i].ts # clock'[c]
    <2>1. /\ NotAhead(log)' /\ Distinct(log)'
          /\ Comparable(p)' => \A i \in UpdatesOf(log[p]) : log[p][i].ts < clock'[c]
      BY <1>6, LogUnderPost
    <2>2. ASSUME Comparable(p)', NEW i \in UpdatesOf(log[p]) PROVE log[p][i].ts # clock'[c]
      <3>1. log[p] \in Seq(Entries) /\ i \in DOMAIN log[p]
        BY <1>6, <2>2 DEF Logs, UpdatesOf
      <3>2. log[p][i] \in Entries
        BY <3>1
      <3>3. log[p][i].ts \in Nat /\ log[p][i].ts < clock'[c]
        BY <2>1, <2>2, <3>2 DEF Entries
      <3>4. Comparable(p)' => clock'[c] \in Nat
        BY <1>1, PostIsLatest
      <3>5. QED
        BY <2>2, <3>3, <3>4
    <2>3. QED
      BY <2>1, <2>2
  <1>7. NotAhead(tlog.log)' /\ Distinct(tlog.log)'
    <2>1. ASSUME NEW log, log = tlog.log PROVE NotAhead(log)' /\ Distinct(log)'
      BY <1>4, <1>6, <2>1
    <2>2. QED
      BY <1>1, <2>1 DEF NotAhead, Distinct
  <1>8. ASSUME NEW d \in Clients, Logging(d)'
        PROVE  NotAhead(job[d].log)' /\ Distinct(job[d].log)'
    <2>1. d # c /\ Logging(d) /\ job'[d] = job[d]
      BY <1>1, <1>2, <1>3, <1>8
    <2>2. ASSUME NEW log, log = job[d].log PROVE NotAhead(log)' /\ Distinct(log)'
      BY <1>5, <1>6, <2>1, <2>2
    <2>3. QED
      BY <2>1, <2>2 DEF NotAhead, Distinct
  <1>9. ASSUME NEW d \in Clients \ {c}, Posted(d)', job'[d].path = p, Comparable(p)'
        PROVE  /\ Comparable(p) /\ clock'[d] < remote'[p].stamp
               /\ clock'[d] # clock'[c]
    <2>1. Posted(d) /\ job[d].path = p /\ clock'[d] = clock[d]
      BY <1>1, <1>3, <1>9
    <2>2. remote[p] # Nothing
      BY <2>1 DEF LogInvariant, Unlogged
    <2>3. Comparable(p) /\ remote[p].stamp < remote'[p].stamp /\ clock'[c] = remote'[p].stamp
      BY <1>9, <2>2, PostIsLatest
    <2>4. clock[d] <= remote[p].stamp
      BY <2>1, <2>3 DEF LogInvariant, Unlogged
    <2>5. clock[d] \in Nat /\ remote[p].stamp \in Nat /\ remote'[p].stamp \in Nat
      <3>1. remote[p] \in Files /\ remote'[p] \in Files
        BY <1>1, <2>2
      <3>2. QED
        BY <3>1 DEF TypeOK, Files
    <2>6. QED
      BY <2>1, <2>3, <2>4, <2>5
  <1>10. Unlogged(c)'
    <2>1. ASSUME Comparable(p)'
          PROVE  /\ clock'[c] <= remote'[p].stamp
                 /\ FreshIn(c, tlog.log)'
                 /\ \A d \in Clients : Logging(d)' => FreshIn(c, job[d].log)'
                 /\ \A d \in Clients \ {c} :
                       Posted(d)' /\ job'[d].path = p => clock'[c] # clock'[d]
      <3>1. clock'[c] = remote'[p].stamp /\ remote'[p].stamp = serverClock' + 1
        BY <2>1, PostIsLatest
      <3>2. FreshIn(c, tlog.log)'
        BY <1>1, <1>2, <1>4, <1>6, <2>1 DEF FreshIn, UpdatesOf
      <3>3. ASSUME NEW d \in Clients, Logging(d)' PROVE FreshIn(c, job[d].log)'
        <4>1. Logging(d) /\ job'[d] = job[d]
          BY <1>1, <1>2, <1>3, <3>3
        <4>2. QED
          BY <1>2, <1>5, <1>6, <2>1, <4>1 DEF FreshIn, UpdatesOf
      <3>4. \A d \in Clients \ {c} : Posted(d)' /\ job'[d].path = p => clock'[c] # clock'[d]
        BY <1>9, <2>1
      <3>5. clock'[c] <= remote'[p].stamp
        <4>1. remote'[p].stamp \in Nat
          <5>1. remote'[p] \in Files
            BY <1>1
          <5>2. QED
            BY <5>1 DEF Files
        <4>2. \A x \in Nat : x <= x
          OBVIOUS
        <4>3. QED
          BY <3>1, <4>1, <4>2
      <3>6. QED
        BY <3>2, <3>3, <3>4, <3>5
    <2>2. QED
      BY <1>1, <1>2, <2>1 DEF Unlogged
  <1>11. ASSUME NEW d \in Clients \ {c}, Posted(d)'
         PROVE  Unlogged(d)'
    <2>0. PICK q \in Paths : q = job[d].path
      BY <1>3, <1>11 DEF TypeOK, Posted, Jobs
    <2>1. /\ Posted(d) /\ job'[d] = job[d] /\ clock'[d] = clock[d] /\ Unlogged(d)
          /\ q = job[d].path /\ q = job'[d].path
      BY <1>1, <1>3, <1>11, <2>0 DEF LogInvariant
    <2>2. remote'[q] # Nothing
      BY <1>1, <2>1 DEF Unlogged
    <2>3. ASSUME Comparable(q)'
          PROVE  /\ clock'[d] <= remote'[q].stamp
                 /\ FreshIn(d, tlog.log)'
                 /\ \A e \in Clients : Logging(e)' => FreshIn(d, job[e].log)'
                 /\ \A e \in Clients \ {d} :
                       Posted(e)' /\ job'[e].path = q => clock'[d] # clock'[e]
      <3>1. /\ Comparable(q) /\ clock'[d] <= remote'[q].stamp
            /\ q = p => clock'[d] # clock'[c]
        <4>1. CASE q = p
          <5>1. Comparable(p) /\ clock'[d] < remote'[p].stamp /\ clock'[d] # clock'[c]
            BY <1>9, <1>11, <2>1, <2>3, <4>1
          <5>2. clock'[d] \in Nat /\ remote'[p].stamp \in Nat
            <6>1. clock[d] \in Nat /\ remote'[p] \in Files
              BY <1>1 DEF TypeOK
            <6>2. QED
              BY <2>1, <6>1 DEF Files
          <5>3. QED
            BY <4>1, <5>1, <5>2
        <4>2. CASE q # p
          <5>1. remote'[q] = remote[q]
            BY <1>1, <2>1, <4>2
          <5>2. Comparable(q)
            BY <2>3, <5>1 DEF Comparable, Readable
          <5>3. QED
            BY <2>1, <4>2, <5>1, <5>2 DEF Unlogged
        <4>3. QED
          BY <4>1, <4>2
      <3>2. /\ FreshIn(d, tlog.log)
            /\ \A e \in Clients : Logging(e) => FreshIn(d, job[e].log)
            /\ \A e \in Clients \ {d} : Posted(e) /\ job[e].path = q => clock[d] # clock[e]
        BY <2>1, <3>1 DEF Unlogged
      <3>3. FreshIn(d, tlog.log)'
        BY <1>1, <2>1, <3>2 DEF FreshIn
      <3>4. ASSUME NEW e \in Clients, Logging(e)' PROVE FreshIn(d, job[e].log)'
        <4>1. Logging(e) /\ job'[e] = job[e]
          BY <1>1, <1>2, <1>3, <3>4
        <4>2. QED
          BY <2>1, <3>2, <4>1 DEF FreshIn
      <3>5. ASSUME NEW e \in Clients \ {d}, Posted(e)', job'[e].path = q
            PROVE  clock'[d] # clock'[e]
        <4>1. CASE e = c
          BY <1>2, <3>1, <3>5, <4>1
        <4>2. CASE e # c
          BY <1>1, <1>3, <2>1, <3>2, <3>5, <4>2
        <4>3. QED
          BY <4>1, <4>2
      <3>6. QED
        BY <3>1, <3>3, <3>4, <3>5
    <2>4. QED
      BY <2>1, <2>2, <2>3 DEF Unlogged
  <1>12. ServerKnows'
    <2>1. ASSUME NEW q \in Paths, happened.restarts = 0, remote'[q] # Nothing
          PROVE  remote'[q].stamp <= serverClock' + 1
      <3>1. CASE q = p /\ remote'[p].stamp = serverClock' + 1
        BY <1>1, <3>1
      <3>2. CASE remote'[q] = remote[q]
        <4>1. remote[q].stamp <= serverClock + 1
          BY <2>1, <3>2 DEF LogInvariant, ServerKnows
        <4>2. remote[q].stamp \in Nat
          <5>1. remote[q] \in Files
            BY <1>1, <2>1, <3>2
          <5>2. QED
            BY <5>1 DEF Files
        <4>3. QED
          BY <1>1, <3>2, <4>1, <4>2
      <3>3. QED
        BY <1>1, <3>1, <3>2
    <2>2. QED
      BY <2>1 DEF ServerKnows
  <1>13. \A d \in Clients : Posted(d)' => Unlogged(d)'
    BY <1>10, <1>11
  <1>14. QED
    BY <1>7, <1>8, <1>12, <1>13 DEF LogInvariant

(* The updates of a log with an entry more: the old ones, and the new one   *)
(* behind them.                                                             *)
LEMMA UpdatesAdded ==
    ASSUME NEW log \in Logs, NEW c \in Clients, job[c] \in Jobs,
           [op |-> job[c].op, ts |-> clock[c]] \in Entries,
           NEW q \in Paths, NEW i \in UpdatesOf(WithEntry(log, c)[q])
    PROVE  \/ i \in UpdatesOf(log[q]) /\ WithEntry(log, c)[q][i] = log[q][i]
           \/ /\ q = job[c].path /\ job[c].op = "update" /\ i = Len(log[q]) + 1
              /\ WithEntry(log, c)[q][i].ts = clock[c]
  <1> DEFINE e == [op |-> job[c].op, ts |-> clock[c]]
  <1>1. log[q] \in Seq(Entries) /\ e \in Entries /\ job[c].path \in Paths
    BY DEF Logs, Jobs
  <1>2. e.op = job[c].op /\ e.ts = clock[c]
    OBVIOUS
  <1>3. CASE q # job[c].path
    <2>1. WithEntry(log, c)[q] = log[q]
      BY <1>1, <1>3 DEF WithEntry, Logs
    <2>2. QED
      BY <2>1
  <1>4. CASE q = job[c].path
    <2>1. WithEntry(log, c)[q] = Append(log[q], e)
      BY <1>1, <1>4 DEF WithEntry, Logs
    <2> HIDE DEF e
    <2>2. /\ Len(Append(log[q], e)) = Len(log[q]) + 1
          /\ Append(log[q], e)[Len(log[q]) + 1] = e
          /\ \A j \in 1 .. Len(log[q]) : Append(log[q], e)[j] = log[q][j]
          /\ DOMAIN Append(log[q], e) = 1 .. Len(log[q]) + 1
          /\ DOMAIN log[q] = 1 .. Len(log[q])
          /\ Len(log[q]) \in Nat
      BY <1>1
    <2>3. i \in 1 .. Len(log[q]) + 1 /\ Append(log[q], e)[i].op = "update"
      BY <2>1, <2>2 DEF UpdatesOf
    <2>4. CASE i = Len(log[q]) + 1
      BY <1>2, <1>4, <2>1, <2>2, <2>3, <2>4
    <2>5. CASE i # Len(log[q]) + 1
      <3>1. i \in 1 .. Len(log[q])
        BY <2>2, <2>3, <2>5
      <3>2. QED
        BY <2>1, <2>2, <2>3, <3>1 DEF UpdatesOf
    <2>6. QED
      BY <2>4, <2>5
  <1>5. QED
    BY <1>3, <1>4

(* A client adds its entry to a log that it has fetched: its timestamp is   *)
(* not in it, and not older than the file.                                  *)
LEMMA AddEntryInvariant ==
    ASSUME TypeOK, LogInvariant, NEW c \in Clients, AddEntry(c)
    PROVE  LogInvariant'
  <1>1. RequestTypes /\ HappenedTypes
    BY TypeParts
  <1>2. /\ job[c] \in Jobs /\ job[c].log = Nothing /\ job[c] # Nothing
        /\ [op |-> job[c].op, ts |-> clock[c]] \in Entries
        /\ happened'.restarts = happened.restarts
    BY <1>1, AddEntryFacts DEF AddEntry
  <1>3. PICK log \in Logs : /\ log \in {GetTransactionLog, EmptyLog}
                            /\ job' = [job EXCEPT ![c] = JobWith(log, c)]
    BY <1>1, AddEntryFacts
  <1>4. PICK new : new = WithEntry(log, c)
    OBVIOUS
  <1>5. UNCHANGED <<remote, tlog, serverClock, clock>>
    BY DEF AddEntry, server
  <1>6. /\ \A q \in Paths : Comparable(q)' <=> Comparable(q)
        /\ \A d \in Clients \ {c} : job'[d] = job[d]
        /\ job'[c] = JobWith(log, c)
    BY <1>1, <1>2, <1>3, <1>5 DEF Comparable, Readable, RequestTypes
  <1>7. new \in Logs
    <2>1. job[c].path \in Paths
      BY <1>2 DEF Jobs
    <2>2. QED
      BY <1>2, <1>4, <2>1, AddedType DEF WithEntry
  <1>8. ~ Posted(c)' /\ job'[c].log = new
    BY <1>4, <1>6, <1>7, SyncAssumption DEF Posted, JobWith
  <1>9. \A d \in Clients \ {c} : (Posted(d)' <=> Posted(d)) /\ (Logging(d)' <=> Logging(d))
    BY <1>6 DEF Posted, Logging
  <1>10. \A q \in Paths : UpdatesOf(EmptyLog[q]) = {}
    BY DEF EmptyLog, UpdatesOf
  <1>11. log = tlog.log \/ log = EmptyLog
    BY <1>3 DEF GetTransactionLog
  <1>12. NotAhead(log) /\ Distinct(log)
    BY <1>10, <1>11 DEF LogInvariant, NotAhead, Distinct
  <1>13. ASSUME NEW d \in Clients, Posted(d), Comparable(job[d].path)
         PROVE  FreshIn(d, log)
    <2>1. FreshIn(d, tlog.log)
      BY <1>13 DEF LogInvariant, Unlogged
    <2>2. job[d].path \in Paths
      BY <1>13 DEF TypeOK, Posted, Jobs
    <2>3. QED
      BY <1>10, <1>11, <2>1, <2>2 DEF FreshIn
  <1>14. job[c].op = "update" => Posted(c) /\ Unlogged(c)
    BY <1>2 DEF Posted, LogInvariant
  <1>15. ASSUME NEW q \in Paths, NEW i \in UpdatesOf(new[q])
         PROVE  \/ i \in UpdatesOf(log[q]) /\ new[q][i] = log[q][i]
                \/ /\ q = job[c].path /\ job[c].op = "update" /\ i = Len(log[q]) + 1
                   /\ new[q][i].ts = clock[c]
    BY <1>2, <1>4, <1>15, UpdatesAdded
  <1>16. NotAhead(new)'
    <2>1. ASSUME NEW q \in Paths, NEW i \in UpdatesOf(new[q])
          PROVE  remote[q] # Nothing /\ (Comparable(q) => new[q][i].ts <= remote[q].stamp)
      <3>1. CASE i \in UpdatesOf(log[q]) /\ new[q][i] = log[q][i]
        BY <1>12, <3>1 DEF NotAhead
      <3>2. CASE q = job[c].path /\ job[c].op = "update" /\ new[q][i].ts = clock[c]
        BY <1>14, <3>2 DEF Unlogged
      <3>3. QED
        BY <1>15, <2>1, <3>1, <3>2
    <2>2. QED
      BY <1>5, <1>6, <2>1 DEF NotAhead, UpdatesOf
  <1>17. Distinct(new)'
    <2>1. ASSUME NEW q \in Paths, Comparable(q), NEW i \in UpdatesOf(new[q]),
                 NEW j \in UpdatesOf(new[q]), i # j
          PROVE  new[q][i].ts # new[q][j].ts
      <3>1. ASSUME NEW k \in UpdatesOf(log[q]), q = job[c].path, job[c].op = "update"
            PROVE  log[q][k].ts # clock[c]
        <4>1. FreshIn(c, log)
          BY <1>13, <1>14, <2>1, <3>1
        <4>2. QED
          BY <3>1, <4>1 DEF FreshIn
      <3>2. QED
        BY <1>12, <1>15, <2>1, <3>1 DEF Distinct
    <2>2. QED
      BY <1>6, <2>1 DEF Distinct, UpdatesOf
  <1>18. NotAhead(tlog.log)' /\ Distinct(tlog.log)'
    <2>1. ASSUME NEW l, l = tlog.log PROVE NotAhead(l)' /\ Distinct(l)'
      BY <1>2, <1>5, <2>1, LogKept DEF LogInvariant
    <2>2. QED
      BY <1>5, <2>1 DEF NotAhead, Distinct
  <1>19. ASSUME NEW d \in Clients, Logging(d)'
         PROVE  NotAhead(job[d].log)' /\ Distinct(job[d].log)'
    <2>1. CASE d = c
      BY <1>8, <1>16, <1>17, <2>1 DEF NotAhead, Distinct
    <2>2. CASE d # c
      <3>1. Logging(d) /\ job'[d] = job[d]
        BY <1>6, <1>9, <1>19, <2>2
      <3>2. ASSUME NEW l, l = job[d].log PROVE NotAhead(l)' /\ Distinct(l)'
        BY <1>2, <1>5, <3>1, <3>2, LogKept DEF LogInvariant
      <3>3. QED
        BY <3>1, <3>2 DEF NotAhead, Distinct
    <2>3. QED
      BY <2>1, <2>2
  <1>20. ASSUME NEW d \in Clients, Posted(d)'
         PROVE  Unlogged(d)'
    <2>0. d # c /\ Posted(d) /\ job'[d] = job[d] /\ job[d].path \in Paths
      BY <1>6, <1>8, <1>9, <1>20 DEF TypeOK, Posted, Jobs
    <2>1. PICK q \in Paths : q = job[d].path
      BY <2>0
    <2>2. Unlogged(d) /\ remote'[q] # Nothing
      BY <1>5, <2>0, <2>1 DEF LogInvariant, Unlogged
    <2>3. ASSUME Comparable(q)'
          PROVE  /\ clock'[d] <= remote'[q].stamp
                 /\ FreshIn(d, tlog.log)'
                 /\ \A e \in Clients : Logging(e)' => FreshIn(d, job[e].log)'
                 /\ \A e \in Clients \ {d} :
                       Posted(e)' /\ job'[e].path = q => clock'[d] # clock'[e]
      <3>1. /\ Comparable(q) /\ clock[d] <= remote[q].stamp
            /\ FreshIn(d, tlog.log)
            /\ \A e \in Clients : Logging(e) => FreshIn(d, job[e].log)
            /\ \A e \in Clients \ {d} : Posted(e) /\ job[e].path = q => clock[d] # clock[e]
        BY <1>6, <2>1, <2>2, <2>3 DEF Unlogged
      <3>2. FreshIn(d, tlog.log)'
        BY <1>5, <2>0, <3>1 DEF FreshIn
      <3>3. ASSUME NEW i \in UpdatesOf(new[q]) PROVE new[q][i].ts # clock[d]
        <4>1. \A k \in UpdatesOf(log[q]) : log[q][k].ts # clock[d]
          BY <1>13, <2>0, <2>1, <3>1 DEF FreshIn
        <4>2. q = job[c].path /\ job[c].op = "update" => clock[d] # clock[c]
          BY <1>14, <2>0, <3>1
        <4>3. QED
          BY <1>15, <3>3, <4>1, <4>2
      <3>4. ASSUME NEW e \in Clients, Logging(e)' PROVE FreshIn(d, job[e].log)'
        <4>1. CASE e = c
          BY <1>5, <1>8, <2>0, <2>1, <3>3, <4>1 DEF FreshIn, UpdatesOf
        <4>2. CASE e # c
          BY <1>5, <1>6, <1>9, <2>0, <3>1, <3>4, <4>2 DEF FreshIn
        <4>3. QED
          BY <4>1, <4>2
      <3>5. QED
        BY <1>5, <1>6, <1>8, <1>9, <3>1, <3>2, <3>4
    <2>4. QED
      BY <2>0, <2>1, <2>2, <2>3 DEF Unlogged
  <1>21. ServerKnows'
    BY <1>2, <1>5 DEF LogInvariant, ServerKnows
  <1>22. QED
    BY <1>18, <1>19, <1>20, <1>21 DEF LogInvariant

(* A client stores its copy of the log over whatever others have stored.    *)
LEMMA PutTransactionLogInvariant ==
    ASSUME TypeOK, LogInvariant, NEW c \in Clients, PutTransactionLog(c)
    PROVE  LogInvariant'
  <1>1. /\ job \in [Clients -> Jobs \cup {Nothing}]
        /\ clock \in [Clients -> Nat] /\ serverClock \in Nat
    BY DEF TypeOK
  <1>2. PICK new : new = job[c].log
    OBVIOUS
  <1>3. /\ Logging(c) /\ tlog'.log = new
        /\ job' = [job EXCEPT ![c] = Nothing]
        /\ UNCHANGED <<remote, happened>>
    BY <1>2 DEF PutTransactionLog, Logging
  <1>4. \A d \in Clients \ {c} : clock'[d] = clock[d]
    BY <1>1 DEF PutTransactionLog
  <1>5. /\ ~ Logging(c)' /\ ~ Posted(c)'
        /\ \A d \in Clients \ {c} : job'[d] = job[d]
    BY <1>1, <1>3 DEF Logging, Posted
  <1>6. \A d \in Clients \ {c} : (Posted(d)' <=> Posted(d)) /\ (Logging(d)' <=> Logging(d))
    BY <1>5 DEF Posted, Logging
  <1>7. \A q \in Paths : Comparable(q)' <=> Comparable(q)
    BY <1>3 DEF Comparable, Readable
  <1>8. NotAhead(tlog.log)' /\ Distinct(tlog.log)'
    <2>1. NotAhead(new)' /\ Distinct(new)'
      BY <1>2, <1>3, LogKept DEF LogInvariant
    <2>2. QED
      BY <1>3, <2>1 DEF NotAhead, Distinct
  <1>9. ASSUME NEW d \in Clients, Logging(d)'
        PROVE  NotAhead(job[d].log)' /\ Distinct(job[d].log)'
    <2>1. Logging(d) /\ job'[d] = job[d]
      BY <1>5, <1>6, <1>9
    <2>2. ASSUME NEW l, l = job[d].log PROVE NotAhead(l)' /\ Distinct(l)'
      BY <1>3, <2>1, <2>2, LogKept DEF LogInvariant
    <2>3. QED
      BY <2>1, <2>2 DEF NotAhead, Distinct
  <1>10. ASSUME NEW d \in Clients, Posted(d)'
         PROVE  Unlogged(d)'
    <2>0. d # c /\ Posted(d) /\ job'[d] = job[d] /\ clock'[d] = clock[d] /\ job[d].path \in Paths
      BY <1>1, <1>4, <1>5, <1>6, <1>10 DEF Posted, Jobs
    <2>1. PICK q \in Paths : q = job[d].path
      BY <2>0
    <2>2. Unlogged(d) /\ remote'[q] # Nothing
      BY <1>3, <2>0, <2>1 DEF LogInvariant, Unlogged
    <2>3. ASSUME Comparable(q)'
          PROVE  /\ clock'[d] <= remote'[q].stamp
                 /\ FreshIn(d, tlog.log)'
                 /\ \A e \in Clients : Logging(e)' => FreshIn(d, job[e].log)'
                 /\ \A e \in Clients \ {d} :
                       Posted(e)' /\ job'[e].path = q => clock'[d] # clock'[e]
      <3>1. /\ clock[d] <= remote[q].stamp
            /\ \A e \in Clients : Logging(e) => FreshIn(d, job[e].log)
            /\ \A e \in Clients \ {d} : Posted(e) /\ job[e].path = q => clock[d] # clock[e]
        BY <1>7, <2>1, <2>2, <2>3 DEF Unlogged
      <3>2. FreshIn(d, tlog.log)'
        BY <1>2, <1>3, <2>0, <3>1 DEF FreshIn
      <3>3. ASSUME NEW e \in Clients, Logging(e)' PROVE FreshIn(d, job[e].log)'
        BY <1>5, <1>6, <2>0, <3>1, <3>3 DEF FreshIn
      <3>4. QED
        BY <1>3, <1>4, <1>5, <1>6, <2>0, <3>1, <3>2, <3>3
    <2>4. QED
      BY <2>0, <2>1, <2>2, <2>3 DEF Unlogged
  <1>11. ServerKnows'
    <2>1. serverClock' \in Nat /\ serverClock < serverClock'
      <3>1. PICK n \in Meanwhile : serverClock' = IncrementClock(AuthenticatedLog(n), 0)
        BY DEF PutTransactionLog
      <3>2. PICK base \in Nat : base = AuthenticatedLog(n) /\ serverClock < base
        BY <1>1, Authenticated
      <3>3. IncrementClock(base, 0) \in Nat /\ base < IncrementClock(base, 0)
        BY ClockAdvances
      <3>4. QED
        BY <1>1, <3>1, <3>2, <3>3
    <2>2. ASSUME NEW q \in Paths, happened.restarts = 0, remote[q] # Nothing
          PROVE  remote[q].stamp <= serverClock' + 1
      <3>1. remote[q].stamp <= serverClock + 1
        BY <2>2 DEF LogInvariant, ServerKnows
      <3>2. remote[q] \in Files
        BY <2>2 DEF TypeOK
      <3>3. remote[q].stamp \in Nat
        BY <3>2 DEF Files
      <3>4. QED
        BY <1>1, <2>1, <3>1, <3>3
    <2>3. QED
      BY <1>3, <2>2 DEF ServerKnows
  <1>12. QED
    BY <1>8, <1>9, <1>10, <1>11 DEF LogInvariant

(* A deletion logs later what it has not stored anywhere. *)
LEMMA DeleteFileInvariant ==
    ASSUME TypeOK, LogInvariant, NEW c \in Clients, NEW p \in Paths, DeleteFile(c, p),
           UNCHANGED happened
    PROVE  LogInvariant'
  <1>1. /\ UNCHANGED <<remote, tlog, serverClock, clock, happened>>
        /\ job'[c] = [op |-> "delete", path |-> p, log |-> Nothing]
        /\ \A d \in Clients \ {c} : job'[d] = job[d]
        /\ serverClock \in Nat
    BY DEF DeleteFile, server, TypeOK
  <1>2. ~ Posted(c)' /\ ~ Logging(c)'
    BY <1>1 DEF Posted, Logging
  <1>3. \A d \in Clients \ {c} : (Posted(d)' <=> Posted(d)) /\ (Logging(d)' <=> Logging(d))
    BY <1>1 DEF Posted, Logging
  <1>4. QED
    BY <1>1, <1>2, <1>3, NothingPosted

(* Steps that change no job.  The clock of a client without one may change. *)
LEMMA JobsKept ==
    ASSUME TypeOK, LogInvariant, UNCHANGED <<server, job>>,
           happened'.restarts = 0 => happened.restarts = 0,
           \A d \in Clients : job[d] # Nothing => clock'[d] = clock[d]
    PROVE  LogInvariant'
  <1>1. UNCHANGED <<remote, tlog, serverClock>> /\ serverClock \in Nat
    BY DEF server, TypeOK
  <1>2. \A d \in Clients : /\ Posted(d)' <=> Posted(d)
                           /\ Logging(d)' <=> Logging(d)
                           /\ Posted(d) => job[d] # Nothing
    BY DEF Posted, Logging
  <1>3. serverClock <= serverClock'
    BY <1>1
  <1>4. QED
    BY <1>1, <1>2, <1>3, NothingPosted

(* Steps of a client that only read, or change its own directory. *)
LEMMA FetchInvariant ==
    ASSUME TypeOK, LogInvariant, NEW c \in Clients, NEW p \in Paths, job[c] = Nothing,
           GetFile(c, p) \/ RemoveLocal(c, p), UNCHANGED happened
    PROVE  LogInvariant'
  <1>1. UNCHANGED <<server, job>>
    BY DEF GetFile, RemoveLocal
  <1>2. \A d \in Clients \ {c} : clock'[d] = clock[d]
    BY DEF GetFile, RemoveLocal, TypeOK
  <1>3. QED
    BY <1>1, <1>2, JobsKept

(* The invariant holds at the start: nothing is posted or logged. *)
LEMMA InvariantInit == Init => LogInvariant
  <1> SUFFICES ASSUME Init PROVE LogInvariant
    OBVIOUS
  <1>1. /\ remote = [p \in Paths |-> Nothing]
        /\ tlog.log = EmptyLog
        /\ job = [c \in Clients |-> Nothing]
    BY DEF Init
  <1>2. \A p \in Paths : UpdatesOf(EmptyLog[p]) = {}
    BY DEF EmptyLog, UpdatesOf
  <1>3. NotAhead(tlog.log) /\ Distinct(tlog.log)
    BY <1>1, <1>2 DEF NotAhead, Distinct
  <1>4. QED
    BY <1>1, <1>3 DEF LogInvariant, Logging, Posted, ServerKnows

(* A client ends, its post not logged and its copy of the log not stored. *)
LEMMA StopClientInvariant ==
    ASSUME TypeOK, LogInvariant, NEW c \in Clients, StopClient(c)
    PROVE  LogInvariant'
  <1>1. UNCHANGED <<remote, tlog, serverClock>> /\ happened'.restarts = happened.restarts
    BY DEF StopClient, server, Happens, TypeOK
  <1>2. /\ job'[c] = Nothing
        /\ \A d \in Clients \ {c} : job'[d] = job[d] /\ clock'[d] = clock[d]
        /\ serverClock \in Nat
    BY DEF StopClient, TypeOK
  <1>3. ~ Posted(c)' /\ ~ Logging(c)'
    BY <1>2 DEF Posted, Logging
  <1>4. \A d \in Clients \ {c} : (Posted(d)' <=> Posted(d)) /\ (Logging(d)' <=> Logging(d))
    BY <1>2 DEF Posted, Logging
  <1>5. serverClock <= serverClock'
    BY <1>1, <1>2
  <1>6. QED
    BY <1>1, <1>2, <1>3, <1>4, <1>5, NothingPosted

(* The server's clock is set back: from then on nothing is promised. *)
LEMMA RestartServerInvariant ==
    ASSUME TypeOK, LogInvariant, RestartServer
    PROVE  LogInvariant'
  <1>1. happened'.restarts = happened.restarts + 1 /\ happened.restarts \in Nat
    BY SyncAssumption DEF RestartServer, Happens, TypeOK
  <1>2. UNCHANGED <<remote, tlog, job, clock>> /\ serverClock' \in Nat
    BY DEF RestartServer, client
  <1>3. \A d \in Clients : (Posted(d)' <=> Posted(d)) /\ (Logging(d)' <=> Logging(d))
    BY <1>2 DEF Posted, Logging
  <1>4. happened'.restarts # 0
    BY <1>1
  <1>5. QED
    BY <1>2, <1>3, <1>4, NothingPosted

(* No step breaks the invariant. *)
LEMMA InvariantStep ==
    ASSUME TypeOK, LogInvariant, [Next]_vars
    PROVE  LogInvariant'
  <1>1. ASSUME NEW c \in Clients, Step(c) PROVE LogInvariant'
    <2>1. CASE Synchronize(c)
      <3>1. UNCHANGED <<server, job, clock>> /\ (UNCHANGED happened \/ Happens(0))
        BY <2>1 DEF Synchronize
      <3>2. happened'.restarts = happened.restarts
        BY <3>1 DEF Happens, TypeOK
      <3>3. QED
        BY <3>1, <3>2, JobsKept
    <2>2. CASE EndSynchronize(c)
      <3>1. UNCHANGED <<server, job, clock, happened>>
        BY <2>2 DEF EndSynchronize
      <3>2. QED
        BY <3>1, JobsKept
    <2>3. CASE HandleEvent(c)
      <3>1. events[c] # <<>> /\ events[c] \in Seq([op : Ops, path : Paths])
        BY <2>3 DEF HandleEvent, TypeOK
      <3>2. PICK p \in Paths : PostFile(c, p) \/ DeleteFile(c, p)
        <4>1. Head(events[c]) \in [op : Ops, path : Paths]
          BY <3>1, HeadTailProperties
        <4>2. Head(events[c]).path \in Paths
          BY <4>1
        <4>3. PostFile(c, Head(events[c]).path) \/ DeleteFile(c, Head(events[c]).path)
          BY <2>3 DEF HandleEvent
        <4>4. QED
          BY <4>2, <4>3, Zenon
      <3>3. UNCHANGED happened
        BY <2>3 DEF HandleEvent
      <3>4. QED
        BY <3>2, <3>3, PostFileInvariant, DeleteFileInvariant
    <2>4. CASE AddEntry(c)
      BY <2>4, AddEntryInvariant
    <2>5. CASE PutTransactionLog(c)
      BY <2>5, PutTransactionLogInvariant
    <2>6. ASSUME NEW p \in Paths, PostUnlogged(c, p) PROVE LogInvariant'
      BY <2>6, PostFileInvariant DEF PostUnlogged
    <2>7. ASSUME NEW p \in Paths, CompareEntry(c, p) PROVE LogInvariant'
      <3>1. /\ job[c] = Nothing /\ UNCHANGED happened
            /\ GetFile(c, p) \/ RemoveLocal(c, p) \/ DeleteFile(c, p) \/ PostFile(c, p)
        BY <2>7 DEF CompareEntry, Synchronizing
      <3>2. QED
        BY <3>1, FetchInvariant, DeleteFileInvariant, PostFileInvariant
    <2>8. QED
      BY <1>1, <2>1, <2>2, <2>3, <2>4, <2>5, <2>6, <2>7 DEF Step
  <1>2. ASSUME NEW c \in Clients, StopClient(c) PROVE LogInvariant'
    BY <1>2, StopClientInvariant
  <1>3. ASSUME NEW c \in Clients, NEW p \in Paths, NEW op, NEW content, Edit(c, p, op, content)
        PROVE  LogInvariant'
    <2>1. UNCHANGED <<server, job, clock>> /\ happened'.restarts = happened.restarts
      BY <1>3 DEF Edit, Happens, TypeOK
    <2>2. QED
      BY <2>1, JobsKept
  <1>4. CASE RestartServer
    BY <1>4, RestartServerInvariant
  <1>5. CASE UNCHANGED vars
    BY <1>5, JobsKept DEF vars, server
  <1>6. QED
    BY <1>1, <1>2, <1>3, <1>4, <1>5 DEF Next, Write, Remove

(* The invariant of the log and the clocks: logs that are stored or under   *)
(* way are not ahead of the files and have no two updates alike, and the    *)
(* timestamp that a client is still to log is its own                       *)
(* (cmd/peerstore/client/main.go:846, models/models.go:20).                 *)
THEOREM LogInvariantHolds == Spec => []LogInvariant
  <1>1. Init => TypeOK /\ LogInvariant
    BY TypeInit, InvariantInit
  <1>2. TypeOK /\ LogInvariant /\ [Next]_vars => TypeOK' /\ LogInvariant'
    BY TypeStep, InvariantStep
  <1>3. QED
    BY <1>1, <1>2, PTL DEF Spec

(* What the log says was posted has been stored, and nothing older has been *)
(* stored over it: however posts and log requests of several clients        *)
(* interleave, until the server is started anew.                            *)
THEOREM LogNeverAhead == Spec => []LogNotAhead
  <1>1. LogInvariant => LogNotAhead
    BY DEF LogInvariant, LogNotAhead
  <1>2. QED
    BY <1>1, LogInvariantHolds, PTL

(* No two updates of a file in the log bear the same timestamp, under the   *)
(* same condition: of two changes a client can tell which is newer.         *)
THEOREM UpdatesAlwaysOrdered == Spec => []UpdatesOrdered
  <1>1. LogInvariant => UpdatesOrdered
    BY DEF LogInvariant, UpdatesOrdered
  <1>2. QED
    BY <1>1, LogInvariantHolds, PTL
=============================================================================
