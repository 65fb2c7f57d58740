----------------------------- MODULE FileStore -----------------------------
(***************************************************************************)
(* The file storage of one node: the handlers of file/handlers.go over the *)
(* directory operations of file/storage.go, and the clients' backup, share *)
(* and sync operations as far as they decide what a post request carries.  *)
(*                                                                         *)
(* A stored file is the sequence of bytes                                  *)
(*   count(1), { identifier(20), secret(256) } repeated, payload.          *)
(* The model keeps the layout and reads it back as the handlers do, from   *)
(* left to right, but in blocks: an identifier is one block, a secret is   *)
(* one block of 256 bytes, a payload the sequence of its whole blocks of   *)
(* 256 bytes - a rest that is shorter cannot be taken for a secret.        *)
(* Nothing but the count and the positions says what a block means.        *)
(*                                                                         *)
(* All file handlers hold fileMu from beginning to end, so requests are    *)
(* served one at a time.  What can come between the steps of a write is    *)
(* the end of the process, and between the two requests of a client's      *)
(* command anything.                                                       *)
(***************************************************************************)
EXTENDS Integers, Sequences, FiniteSets

CONSTANTS
    Users,       \* the users, by identifier
    Keys,        \* the keys of the resources
    Texts,       \* the contents of the clients' files: sequences of blocks
    Clients,     \* the client operations in use: "backup", "share", "sync", "delete"
    PeerHolds,   \* whether the node a client is configured with is this node
    CountMod,    \* 256 in the code, where the count is one byte
    MaxPairs,    \* bound: no share once a file has this many pairs
    MaxKeys,     \* bound on the number of session keys generated
    MaxCrashes,  \* bound on the number of crashes
    EmptyFile,   \* a file of no bytes: created and not written
    Nothing      \* no file; no write in progress; no command in progress

ASSUME StoreAssumption ==
    /\ CountMod \in Nat /\ CountMod > 2
    /\ MaxPairs \in Nat \ {0}
    /\ MaxKeys \in Nat \ {0}
    /\ PeerHolds \in BOOLEAN
    /\ MaxCrashes \in Nat
    /\ Clients \subseteq {"backup", "share", "sync", "delete"}

VARIABLES
    disk,        \* the data directory: key -> file
    pending,     \* the write whose handler holds fileMu
    running,     \* the server process runs
    session,     \* per user: what a backup or share command is going to post
    made,        \* number of session keys generated so far
    crashes      \* number of crashes so far

vars == <<disk, pending, running, session, made, crashes>>

-----------------------------------------------------------------------------
(* The layout. *)

(* Blocks: session key s encrypted for user u; a block of text encrypted    *)
(* with s, or in the clear with 0.                                          *)
Secret(u, s) == [user |-> u, key |-> s]
Cipher(s, x) == [text |-> x, key |-> s]
Encrypt(s, text) == [i \in 1 .. Len(text) |-> Cipher(s, text[i])]

Pair(u, s) == [id |-> u, secret |-> Secret(u, s)]

(* The blocks of a list of pairs. *)
Flatten(pairs) ==
    [j \in 1 .. 2 * Len(pairs) |->
        IF j % 2 = 1 THEN pairs[(j + 1) \div 2].id ELSE pairs[j \div 2].secret]

(* The count byte. *)
Count(old, more) == (Len(old) + Len(more)) % CountMod

(* Reading a file: the header is unreadable when the file ends within it. *)
Readable(f) == f \notin {Nothing, EmptyFile} /\ 2 * f.count <= Len(f.body)

PairsOf(f) == [i \in 1 .. f.count |-> [id |-> f.body[2 * i - 1], secret |-> f.body[2 * i]]]

OwnersOf(f) == {PairsOf(f)[i].id : i \in 1 .. f.count}

DataOf(f) == SubSeq(f.body, 2 * f.count + 1, Len(f.body))

Owns(u, f) == Readable(f) /\ u \in OwnersOf(f)

(* The session key that GetFileHandler's answer gives u: its secret is the  *)
(* last one that follows u's identifier.                                    *)
Opens(u, f, s) ==
    \E i \in 1 .. f.count :
        /\ PairsOf(f)[i] = Pair(u, s)
        /\ \A j \in i + 1 .. f.count : PairsOf(f)[j].id # u

(* Mutant: the requester's secret is never written. *)
NewFileWithoutSecret(u, s, shared, data) ==
    [count |-> Count(<<u>>, shared), body |-> <<u>> \o Flatten(shared) \o data]

(* PostFileHandler on a key without a file: the requester and those it      *)
(* shares with.  A request without a secret has none written (s = 0).       *)
NewFile(u, s, shared, data) ==
    [count |-> Count(<<u>>, shared),
     body  |-> (IF s = 0 THEN <<u>> ELSE <<u, Secret(u, s)>>) \o Flatten(shared) \o data]

(* Mutant: on a file that exists the old pairs are not written again. *)
RewrittenWithoutPairs(f, shared, data) ==
    [count |-> Count(<<>>, shared), body |-> Flatten(shared) \o data]

(* PostFileHandler on a file that exists: the pairs read back, then those   *)
(* the request adds; the secret in the request is not used.                 *)
Rewritten(f, shared, data) ==
    [count |-> Count(PairsOf(f), shared),
     body  |-> Flatten(PairsOf(f)) \o Flatten(shared) \o data]

-----------------------------------------------------------------------------
(* What can be stored and sent once m session keys have been generated.     *)

Blocks == UNION {{text[i] : i \in 1 .. Len(text)} : text \in Texts}
Secrets(m) == [user : Users, key : 1 .. m]
Ciphers(m) == [text : Blocks, key : 0 .. m]
Pairs(m) == {Pair(u, s) : u \in Users, s \in 1 .. m}

(* Files: what follows the header is payload, unless the count has wrapped  *)
(* to zero and the header is taken for payload, too.                        *)
Files(m) ==
    {f \in [count : 0 .. CountMod - 1, body : Seq(Users \cup Secrets(m) \cup Ciphers(m))] :
       f.count > 0 /\ Readable(f) => DataOf(f) \in Seq(Ciphers(m))}

(* What a command is going to post: at most one user is added.              *)
Commands(m) ==
    {c \in [key : Keys, s : 1 .. m, shared : Seq(Pairs(m)), data : Seq(Ciphers(m))] :
       Len(c.shared) <= 1}

Writes(m) == [key : Keys, phase : {"remove", "create", "write"},
              old : Files(m) \cup {Nothing}, file : Files(m)]

(* The payloads of the clients' files. *)
Payloads == {Encrypt(s, text) : s \in 0 .. MaxKeys, text \in Texts}
Resources == [owners : SUBSET Users, data : Payloads]

(* Texts are sequences; a user's identifier is no secret and no text; and   *)
(* the two marks for what is not there are none of the things it could be.  *)
ASSUME BlankAssumption ==
    /\ \A text \in Texts : text \in Seq(Blocks)
    /\ \A u \in Users : u \notin Secrets(MaxKeys) \cup Ciphers(MaxKeys)
    /\ EmptyFile # Nothing
    /\ \A blank \in {EmptyFile, Nothing} :
         /\ blank \notin Files(MaxKeys) \cup Commands(MaxKeys) \cup Writes(MaxKeys)
         /\ blank \notin Resources

-----------------------------------------------------------------------------
Init ==
    /\ disk = [k \in Keys |-> Nothing]
    /\ pending = Nothing
    /\ running = TRUE
    /\ session = [u \in Users |-> Nothing]
    /\ made = 0
    /\ crashes = 0

(* A handler can start: the process runs and fileMu is free. *)
Idle == running /\ pending = Nothing

(* PostFileHandler up to the call of Post: the file as it is, and the file  *)
(* to be.  A user who is not in the header gets an error.                   *)
Post(u, k, s, shared, data) ==
    /\ Idle
    /\ \/ /\ disk[k] = Nothing
          /\ pending' = [key |-> k, phase |-> "remove", old |-> Nothing,
                         file |-> NewFile(u, s, shared, data)]
       \/ /\ Owns(u, disk[k])
          /\ pending' = [key |-> k, phase |-> "remove", old |-> disk[k],
                         file |-> Rewritten(disk[k], shared, data)]
    /\ UNCHANGED <<disk, running, made, crashes>>

(* sync: posts the plain file and sends no secret. *)
Sync(u, k, text) ==
    /\ "sync" \in Clients
    /\ Post(u, k, 0, <<>>, Encrypt(0, text))
    /\ UNCHANGED session

(* backup, first request: "see if file exists, in order to get secret".  It *)
(* goes to the peer, not to the node that was found to hold the key.  The   *)
(* text is encrypted with the session key of the answer, or with a new one. *)
BackupGet(u, k, text) ==
    /\ "backup" \in Clients /\ session[u] = Nothing
    /\ Idle
    /\ \E s \in 1 .. MaxKeys :
          /\ IF PeerHolds /\ Owns(u, disk[k])
             THEN Opens(u, disk[k], s) /\ made' = made
             ELSE s = made + 1 /\ made' = s
          /\ session' = [session EXCEPT ![u] =
                [key |-> k, s |-> s, shared |-> <<>>, data |-> Encrypt(s, text)]]
    /\ UNCHANGED <<disk, pending, running, crashes>>

(* share, first request: GetFileHandler returns the payload and u's secret; *)
(* v gets the session key too.                                              *)
ShareGet(u, k, v) ==
    /\ "share" \in Clients /\ session[u] = Nothing
    /\ Idle
    /\ Owns(u, disk[k])
    /\ disk[k].count < MaxPairs
    /\ \E s \in 1 .. MaxKeys :
          /\ Opens(u, disk[k], s)
          /\ session' = [session EXCEPT ![u] =
                [key |-> k, s |-> s, shared |-> <<Pair(v, s)>>, data |-> DataOf(disk[k])]]
    /\ UNCHANGED <<disk, pending, running, made, crashes>>

(* The second request of either command: the post. *)
SecondRequest(u) ==
    /\ session[u] # Nothing
    /\ LET r == session[u] IN Post(u, r.key, r.s, r.shared, r.data)
    /\ session' = [session EXCEPT ![u] = Nothing]

(* It is refused or not answered: the command ends. *)
CommandFails(u) ==
    /\ session[u] # Nothing
    /\ \/ ~ running
       \/ Idle /\ disk[session[u].key] # Nothing /\ ~ Owns(u, disk[session[u].key])
    /\ session' = [session EXCEPT ![u] = Nothing]
    /\ UNCHANGED <<disk, pending, running, made, crashes>>

(* Mutant: the old file is left in place. *)
RemoveOldSkipped ==
    /\ pending # Nothing /\ pending.phase = "remove"
    /\ pending' = [pending EXCEPT !.phase = "create"]
    /\ UNCHANGED <<disk, running, session, made, crashes>>

(* Post: os.Remove, whose error nobody looks at... *)
RemoveOld ==
    /\ pending # Nothing /\ pending.phase = "remove"
    /\ disk' = [disk EXCEPT ![pending.key] = Nothing]
    /\ pending' = [pending EXCEPT !.phase = "create"]
    /\ UNCHANGED <<running, session, made, crashes>>

(* ...os.OpenFile with O_CREATE... *)
CreateEmpty ==
    /\ pending # Nothing /\ pending.phase = "create"
    /\ disk' = [disk EXCEPT ![pending.key] = EmptyFile]
    /\ pending' = [pending EXCEPT !.phase = "write"]
    /\ UNCHANGED <<running, session, made, crashes>>

(* ...and io.Copy of a buffer, one write.  The handler answers and unlocks. *)
WriteFile ==
    /\ pending # Nothing /\ pending.phase = "write"
    /\ disk' = [disk EXCEPT ![pending.key] = pending.file]
    /\ pending' = Nothing
    /\ UNCHANGED <<running, session, made, crashes>>

(* DeleteFileHandler for a user in the header. *)
Delete(u, k) ==
    /\ "delete" \in Clients
    /\ Idle
    /\ Owns(u, disk[k])
    /\ disk' = [disk EXCEPT ![k] = Nothing]
    /\ UNCHANGED <<pending, running, session, made, crashes>>

(* DeleteFileHandler on a key without a file: Get has returned a nil reader, *)
(* the handler calls its Close, and the panic ends the process.             *)
DeleteAbsent(k) ==
    /\ "delete" \in Clients
    /\ Idle
    /\ disk[k] = Nothing
    /\ running' = FALSE
    /\ UNCHANGED <<disk, pending, session, made, crashes>>

(* The process is killed; the directory stays as it is. *)
Crash ==
    /\ running
    /\ crashes < MaxCrashes
    /\ running' = FALSE
    /\ pending' = Nothing
    /\ crashes' = crashes + 1
    /\ UNCHANGED <<disk, session, made>>

Restart ==
    /\ ~ running
    /\ running' = TRUE
    /\ UNCHANGED <<disk, pending, session, made, crashes>>

Next ==
    \/ \E u \in Users, k \in Keys, text \in Texts : Sync(u, k, text) \/ BackupGet(u, k, text)
    \/ \E u, v \in Users, k \in Keys : ShareGet(u, k, v)
    \/ \E u \in Users : SecondRequest(u) \/ CommandFails(u)
    \/ RemoveOld \/ CreateEmpty \/ WriteFile
    \/ \E u \in Users, k \in Keys : Delete(u, k)
    \/ \E k \in Keys : DeleteAbsent(k)
    \/ Crash \/ Restart

Spec == Init /\ [][Next]_vars

-----------------------------------------------------------------------------
(* PROPERTIES *)

(* Besides the types: the phase of a write says what is on disk, and a      *)
(* server that does not run writes nothing.                                 *)
TypeOK ==
    /\ made \in 0 .. MaxKeys
    /\ crashes \in 0 .. MaxCrashes
    /\ running \in BOOLEAN
    /\ disk \in [Keys -> Files(made) \cup {Nothing, EmptyFile}]
    /\ session \in [Users -> Commands(made) \cup {Nothing}]
    /\ pending \in Writes(made) \cup {Nothing}
    /\ pending # Nothing =>
         /\ running
         /\ disk[pending.key] = CASE pending.phase = "remove" -> pending.old
                                  [] pending.phase = "create" -> Nothing
                                  [] pending.phase = "write" -> EmptyFile

(* What the other handlers will find at key k: a write in progress has not  *)
(* happened yet, for fileMu is held.                                        *)
Settled(k) == IF pending # Nothing /\ pending.key = k THEN pending.old ELSE disk[k]

(* Each identifier in a header is followed by the session key encrypted for *)
(* that user: "Next 20 Bytes: Identifier ... Next 256 Bytes: RSA Encrypted  *)
(* Session Key for Said User" (docs/design-document/README.md:838).         *)
SecretsMatch ==
    \A k \in Keys : Readable(Settled(k)) =>
        \A i \in 1 .. Settled(k).count : \E s \in 1 .. MaxKeys :
            PairsOf(Settled(k))[i] = Pair(PairsOf(Settled(k))[i].id, s)

(* A header that can be read, with a pair for every user it names. *)
Sound(f) == Readable(f) /\ \A i \in 1 .. f.count : PairsOf(f)[i] \in Pairs(made)

(* Why that is so, as long as no client posts without a secret: no header   *)
(* runs past the end of its file, and what a handler reads back from one    *)
(* and writes again is what was written.                                    *)
HeadersSound ==
    /\ \A k \in Keys : disk[k] \notin {Nothing, EmptyFile} => Sound(disk[k])
    /\ pending # Nothing =>
         Sound(pending.file) /\ (pending.old # Nothing => Sound(pending.old))

(* The session key that a user in the header gets is the one the payload is *)
(* encrypted with: "RSA Encrypted Session Key for Said User to Decrypt      *)
(* Payload" (docs/design-document/README.md:839).                           *)
OwnersDecrypt ==
    \A k \in Keys : Readable(Settled(k)) =>
        \A u \in OwnersOf(Settled(k)), j \in 1 .. Len(DataOf(Settled(k))) :
            Opens(u, Settled(k), DataOf(Settled(k))[j].key)

(* A user in the header of a file stays in it until the file is removed or  *)
(* lost, unless the count byte is at its limit and the next pair wraps it   *)
(* to zero: "The first byte in the stored file on a node tells the node how *)
(* many users are enumerated in the new file header"                        *)
(* (docs/design-document/README.md:828).                                    *)
OwnersKept ==
    [][\A k \in Keys :
          Readable(Settled(k)) /\ Readable(Settled(k)') /\ Settled(k).count < CountMod - 1
            => OwnersOf(Settled(k)) \subseteq OwnersOf(Settled(k)')]_vars

(* The resource behind a file.  A file that cannot be read is unusable for  *)
(* good: no request gets past its header.                                   *)
Resource(f) ==
    IF f = Nothing THEN Nothing
    ELSE IF Readable(f) THEN [owners |-> OwnersOf(f), data |-> DataOf(f)]
    ELSE EmptyFile

Abstract == INSTANCE OwnedStore WITH
    Data <- Payloads,
    Absent <- Nothing,
    Unusable <- EmptyFile,
    store <- [k \in Keys |-> Resource(Settled(k))],
    up <- running

(* No file names as many users as the count byte can hold. *)
BelowLimit ==
    \A k \in Keys : Readable(Settled(k)) => Settled(k).count < CountMod - 1

(* Why the handlers do so: every payload, stored or on its way, is one that *)
(* a client encrypted; a write in progress was begun by a user that may     *)
(* begin it, and takes no user away.                                        *)
WritesOwned ==
    /\ \A k \in Keys : Readable(Settled(k)) => DataOf(Settled(k)) \in Payloads
    /\ \A u \in Users : session[u] # Nothing => session[u].data \in Payloads
    /\ pending # Nothing =>
         /\ DataOf(pending.file) \in Payloads
         /\ \E u \in Users, more \in SUBSET Users :
               IF pending.old = Nothing
               THEN OwnersOf(pending.file) = {u} \cup more
               ELSE /\ u \in OwnersOf(pending.old)
                    /\ OwnersOf(pending.file) = OwnersOf(pending.old) \cup more

(* The handlers implement the abstract store: an owner's post is read back  *)
(* by every owner with the payload it carried, and an interrupted one is    *)
(* never read in part.                                                      *)
ImplementsStore == Abstract!Spec
=============================================================================
