---------------------------- MODULE StoreProofs ----------------------------
(***************************************************************************)
(* What holds of the stored files for every set of users, keys and texts,  *)
(* every width of the count byte and any number of crashes.                *)
(***************************************************************************)
EXTENDS FileStore, SequenceTheorems, TLAPS

-----------------------------------------------------------------------------
(* The layout. *)

(* Pairs of blocks of S: whatever a header may hold. *)
PairSet(S) == [id : S, secret : S]
PairSeqs(S) == Seq(PairSet(S))

(* The blocks of a pair. *)
LEMMA PairFacts ==
    ASSUME NEW S
    PROVE  /\ \A x \in PairSet(S) : x = [id |-> x.id, secret |-> x.secret] /\ x.id \in S /\ x.secret \in S
           /\ \A a, b \in S : [id |-> a, secret |-> b] \in PairSet(S)
  BY DEF PairSet

(* Where the blocks of a list of pairs are. *)
LEMMA FlattenFacts ==
    ASSUME NEW S, NEW p \in PairSeqs(S)
    PROVE  /\ Flatten(p) \in Seq(S)
           /\ Len(Flatten(p)) = 2 * Len(p)
           /\ \A i \in 1 .. Len(p) : /\ Flatten(p)[2 * i - 1] = p[i].id
                                     /\ Flatten(p)[2 * i] = p[i].secret
  <1>1. /\ Len(p) \in Nat
        /\ \A i \in 1 .. Len(p) : p[i] \in PairSet(S)
    BY DEF PairSeqs
  <1>2. \A j \in 1 .. 2 * Len(p) :
          /\ j % 2 = 1 => (j + 1) \div 2 \in 1 .. Len(p)
          /\ j % 2 # 1 => j \div 2 \in 1 .. Len(p)
    BY <1>1
  <1>3. \A j \in 1 .. 2 * Len(p) :
          (IF j % 2 = 1 THEN p[(j + 1) \div 2].id ELSE p[j \div 2].secret) \in S
    BY <1>1, <1>2, PairFacts
  <1>4. Flatten(p) \in [1 .. 2 * Len(p) -> S]
    BY <1>3 DEF Flatten
  <1>5. 2 * Len(p) \in Nat
    BY <1>1
  <1>6. Flatten(p) \in Seq(S) /\ Len(Flatten(p)) = 2 * Len(p)
    BY <1>4, <1>5
  <1>7. ASSUME NEW i \in 1 .. Len(p)
        PROVE  /\ Flatten(p)[2 * i - 1] = p[i].id
               /\ Flatten(p)[2 * i] = p[i].secret
    <2>1. /\ 2 * i - 1 \in 1 .. 2 * Len(p) /\ (2 * i - 1) % 2 = 1
          /\ ((2 * i - 1) + 1) \div 2 = i
      BY <1>1
    <2>2. 2 * i \in 1 .. 2 * Len(p) /\ (2 * i) % 2 = 0 /\ (2 * i) \div 2 = i
      BY <1>1
    <2> QED
      BY <2>1, <2>2 DEF Flatten
  <1> QED
    BY <1>6, <1>7

(* A file of blocks of S whose header does not run past its end. *)
Whole(S, f) ==
    /\ f.count \in Nat /\ f.body \in Seq(S)
    /\ 2 * f.count <= Len(f.body)

(* What a whole file is read as. *)
LEMMA ReadFacts ==
    ASSUME NEW S, NEW f, Whole(S, f)
    PROVE  /\ PairsOf(f) \in PairSeqs(S)
           /\ Len(PairsOf(f)) = f.count
           /\ \A i \in 1 .. f.count : PairsOf(f)[i] = [id |-> f.body[2 * i - 1], secret |-> f.body[2 * i]]
           /\ DataOf(f) \in Seq(S)
           /\ Len(DataOf(f)) = Len(f.body) - 2 * f.count
           /\ \A i \in 1 .. Len(f.body) - 2 * f.count : DataOf(f)[i] = f.body[2 * f.count + i]
  <1>1. f.count \in Nat /\ f.body \in Seq(S) /\ Len(f.body) \in Nat /\ 2 * f.count <= Len(f.body)
    BY DEF Whole
  <1>2. \A i \in 1 .. f.count : f.body[2 * i - 1] \in S /\ f.body[2 * i] \in S
    <2> TAKE i \in 1 .. f.count
    <2>1. 2 * i - 1 \in 1 .. Len(f.body) /\ 2 * i \in 1 .. Len(f.body)
      BY <1>1
    <2> QED
      BY <1>1, <2>1
  <1>3. PairsOf(f) \in [1 .. f.count -> PairSet(S)]
    BY <1>2, PairFacts DEF PairsOf
  <1>4. PairsOf(f) \in PairSeqs(S) /\ Len(PairsOf(f)) = f.count
    BY <1>1, <1>3 DEF PairSeqs
  <1>5. \A i \in 1 .. f.count : PairsOf(f)[i] = [id |-> f.body[2 * i - 1], secret |-> f.body[2 * i]]
    BY DEF PairsOf
  <1>6. 2 * f.count + 1 \in 1 .. Len(f.body) + 1 /\ Len(f.body) \in 2 * f.count .. Len(f.body)
    BY <1>1
  <1>7. /\ DataOf(f) \in Seq(S)
        /\ Len(DataOf(f)) = Len(f.body) - 2 * f.count
        /\ \A i \in 1 .. Len(f.body) - 2 * f.count : DataOf(f)[i] = f.body[2 * f.count + i]
    <2>1. DataOf(f) = [i \in 1 .. Len(f.body) - 2 * f.count |-> f.body[2 * f.count + i]]
      BY <1>1 DEF DataOf
    <2>2. \A i \in 1 .. Len(f.body) - 2 * f.count : f.body[2 * f.count + i] \in S
      BY <1>1
    <2>3. DataOf(f) \in [1 .. Len(f.body) - 2 * f.count -> S]
      BY <2>1, <2>2
    <2>4. Len(f.body) - 2 * f.count \in Nat
      BY <1>1
    <2> QED
      BY <2>1, <2>3, <2>4
  <1> QED
    BY <1>4, <1>5, <1>7

(* Where the blocks of a file are that is laid out as pairs and a payload.  *)
LEMMA BodyFacts ==
    ASSUME NEW S, NEW p \in PairSeqs(S), NEW d \in Seq(S)
    PROVE  /\ Flatten(p) \o d \in Seq(S)
           /\ Len(Flatten(p) \o d) = 2 * Len(p) + Len(d)
           /\ \A i \in 1 .. 2 * Len(p) : (Flatten(p) \o d)[i] = Flatten(p)[i]
           /\ \A i \in 1 .. Len(d) : (Flatten(p) \o d)[2 * Len(p) + i] = d[i]
  <1> DEFINE a == Flatten(p)
  <1>1. a \in Seq(S) /\ Len(a) = 2 * Len(p)
    BY FlattenFacts
  <1> HIDE DEF a
  <1>2. /\ a \o d \in Seq(S)
        /\ Len(a \o d) = Len(a) + Len(d)
        /\ \A j \in 1 .. Len(a) : (a \o d)[j] = a[j]
        /\ \A j \in 1 .. Len(d) : (a \o d)[Len(a) + j] = d[j]
    BY <1>1
  <1>3. /\ a \o d \in Seq(S) /\ Len(a \o d) = 2 * Len(p) + Len(d)
        /\ \A i \in 1 .. 2 * Len(p) : (a \o d)[i] = a[i]
        /\ \A i \in 1 .. Len(d) : (a \o d)[2 * Len(p) + i] = d[i]
    BY <1>1, <1>2
  <1> QED
    BY <1>3 DEF a

(* A file that is laid out as pairs and a payload is read back as those.    *)
LEMMA LaidOut ==
    ASSUME NEW S, NEW p \in PairSeqs(S), NEW d \in Seq(S), NEW f,
           f.count = Len(p), f.body = Flatten(p) \o d
    PROVE  Whole(S, f) /\ PairsOf(f) = p /\ DataOf(f) = d
  <1>1. /\ Flatten(p) \in Seq(S)
        /\ Len(Flatten(p)) = 2 * Len(p)
        /\ \A i \in 1 .. Len(p) : /\ Flatten(p)[2 * i - 1] = p[i].id
                                  /\ Flatten(p)[2 * i] = p[i].secret
    BY FlattenFacts
  <1>2. /\ Len(p) \in Nat /\ Len(d) \in Nat
        /\ \A i \in 1 .. Len(p) : p[i] \in PairSet(S)
    BY DEF PairSeqs
  <1>3. /\ f.body \in Seq(S) /\ Len(f.body) = 2 * Len(p) + Len(d)
        /\ \A i \in 1 .. 2 * Len(p) : f.body[i] = Flatten(p)[i]
        /\ \A i \in 1 .. Len(d) : f.body[2 * Len(p) + i] = d[i]
    BY BodyFacts
  <1>4. Whole(S, f)
    BY <1>2, <1>3 DEF Whole
  <1>5. PairsOf(f) = p
    <2>1. PairsOf(f) \in PairSeqs(S) /\ Len(PairsOf(f)) = Len(p)
      BY <1>4, ReadFacts
    <2>2. ASSUME NEW i \in 1 .. Len(p) PROVE PairsOf(f)[i] = p[i]
      <3>1. PairsOf(f)[i] = [id |-> f.body[2 * i - 1], secret |-> f.body[2 * i]]
        BY <1>4, ReadFacts
      <3>2. 2 * i - 1 \in 1 .. 2 * Len(p) /\ 2 * i \in 1 .. 2 * Len(p)
        BY <1>2
      <3>3. PairsOf(f)[i] = [id |-> p[i].id, secret |-> p[i].secret]
        BY <1>1, <1>3, <3>1, <3>2
      <3> QED
        BY <1>2, <3>3, PairFacts
    <2> QED
      BY <2>1, <2>2, SeqEqual DEF PairSeqs
  <1>6. DataOf(f) = d
    <2>1. DataOf(f) \in Seq(S) /\ Len(DataOf(f)) = Len(d)
      BY <1>2, <1>3, <1>4, ReadFacts
    <2>2. \A i \in 1 .. Len(d) : DataOf(f)[i] = d[i]
      <3> TAKE i \in 1 .. Len(d)
      <3>1. Len(f.body) - 2 * f.count = Len(d)
        BY <1>2, <1>3
      <3>2. DataOf(f)[i] = f.body[2 * f.count + i]
        BY <1>4, <3>1, ReadFacts
      <3> QED
        BY <1>3, <3>2
    <2> QED
      BY <2>1, <2>2, SeqEqual
  <1> QED
    BY <1>4, <1>5, <1>6

(* The blocks of two lists of pairs, one after the other. *)
LEMMA FlattenConcat ==
    ASSUME NEW S, NEW p \in PairSeqs(S), NEW q \in PairSeqs(S)
    PROVE  /\ p \o q \in PairSeqs(S)
           /\ Len(p \o q) = Len(p) + Len(q)
           /\ Flatten(p \o q) = Flatten(p) \o Flatten(q)
  <1>1. /\ p \o q \in PairSeqs(S) /\ Len(p \o q) = Len(p) + Len(q)
        /\ Len(p) \in Nat /\ Len(q) \in Nat
        /\ \A i \in 1 .. Len(p) : (p \o q)[i] = p[i]
        /\ \A i \in 1 .. Len(q) : (p \o q)[Len(p) + i] = q[i]
    BY DEF PairSeqs
  <1>2. /\ Flatten(p) \in Seq(S) /\ Len(Flatten(p)) = 2 * Len(p)
        /\ Flatten(q) \in Seq(S) /\ Len(Flatten(q)) = 2 * Len(q)
        /\ Flatten(p \o q) \in Seq(S) /\ Len(Flatten(p \o q)) = 2 * (Len(p) + Len(q))
    BY <1>1, FlattenFacts
  <1>3. /\ Flatten(p) \o Flatten(q) \in Seq(S)
        /\ Len(Flatten(p) \o Flatten(q)) = 2 * (Len(p) + Len(q))
        /\ \A j \in 1 .. 2 * Len(p) : (Flatten(p) \o Flatten(q))[j] = Flatten(p)[j]
        /\ \A j \in 1 .. 2 * Len(q) : (Flatten(p) \o Flatten(q))[2 * Len(p) + j] = Flatten(q)[j]
    <2> DEFINE a == Flatten(p)
               b == Flatten(q)
    <2>1. a \in Seq(S) /\ Len(a) = 2 * Len(p) /\ b \in Seq(S) /\ Len(b) = 2 * Len(q)
      BY <1>2
    <2> HIDE DEF a, b
    <2>2. /\ a \o b \in Seq(S)
          /\ Len(a \o b) = Len(a) + Len(b)
          /\ \A j \in 1 .. Len(a) : (a \o b)[j] = a[j]
          /\ \A j \in 1 .. Len(b) : (a \o b)[Len(a) + j] = b[j]
      BY <2>1
    <2>3. /\ a \o b \in Seq(S)
          /\ Len(a \o b) = 2 * (Len(p) + Len(q))
          /\ \A j \in 1 .. 2 * Len(p) : (a \o b)[j] = a[j]
          /\ \A j \in 1 .. 2 * Len(q) : (a \o b)[2 * Len(p) + j] = b[j]
      BY <1>1, <2>1, <2>2
    <2> QED
      BY <2>3 DEF a, b
  <1>4. ASSUME NEW j \in 1 .. 2 * (Len(p) + Len(q))
        PROVE  Flatten(p \o q)[j] = (Flatten(p) \o Flatten(q))[j]
    <2>1. PICK i \in 1 .. Len(p) + Len(q) : j = 2 * i - 1 \/ j = 2 * i
      <3>1. (j + 1) \div 2 \in 1 .. Len(p) + Len(q)
        BY <1>1
      <3>2. j = 2 * ((j + 1) \div 2) - 1 \/ j = 2 * ((j + 1) \div 2)
        BY <1>1
      <3> QED
        BY <3>1, <3>2
    <2>2. /\ Flatten(p \o q)[2 * i - 1] = (p \o q)[i].id
          /\ Flatten(p \o q)[2 * i] = (p \o q)[i].secret
      BY <1>1, FlattenFacts
    <2>3. CASE i <= Len(p)
      <3>1. i \in 1 .. Len(p) /\ 2 * i - 1 \in 1 .. 2 * Len(p) /\ 2 * i \in 1 .. 2 * Len(p)
        BY <1>1, <2>3
      <3>2. Flatten(p)[2 * i - 1] = p[i].id /\ Flatten(p)[2 * i] = p[i].secret
        BY <3>1, FlattenFacts
      <3> QED
        BY <1>1, <1>3, <2>1, <2>2, <3>1, <3>2
    <2>4. CASE ~ (i <= Len(p))
      <3>1. PICK h \in 1 .. Len(q) : i = Len(p) + h
        <4>1. i - Len(p) \in 1 .. Len(q) /\ i = Len(p) + (i - Len(p))
          BY <1>1, <2>4
        <4> QED
          BY <4>1
      <3>2. Flatten(q)[2 * h - 1] = q[h].id /\ Flatten(q)[2 * h] = q[h].secret
        BY FlattenFacts
      <3>3. /\ 2 * h - 1 \in 1 .. 2 * Len(q) /\ 2 * h \in 1 .. 2 * Len(q)
            /\ 2 * i - 1 = 2 * Len(p) + (2 * h - 1) /\ 2 * i = 2 * Len(p) + 2 * h
        BY <1>1, <3>1
      <3>4. /\ (Flatten(p) \o Flatten(q))[2 * i - 1] = Flatten(q)[2 * h - 1]
            /\ (Flatten(p) \o Flatten(q))[2 * i] = Flatten(q)[2 * h]
        BY <1>3, <3>3
      <3>5. (p \o q)[i] = q[h]
        BY <1>1, <3>1
      <3>6. /\ Flatten(p \o q)[2 * i - 1] = (Flatten(p) \o Flatten(q))[2 * i - 1]
            /\ Flatten(p \o q)[2 * i] = (Flatten(p) \o Flatten(q))[2 * i]
        BY <2>2, <3>2, <3>4, <3>5
      <3> QED
        BY <2>1, <3>6
    <2> QED
      BY <2>3, <2>4
  <1> QED
    BY <1>1, <1>2, <1>3, <1>4, SeqEqual

-----------------------------------------------------------------------------
(* What the handlers write. *)

BlocksTo(m) == Users \cup Secrets(m) \cup Ciphers(m)

(* With more session keys there are more things to store and to send. *)
LEMMA MoreKeys ==
    ASSUME NEW m \in Nat, NEW n \in Nat, m <= n
    PROVE  /\ Secrets(m) \subseteq Secrets(n) /\ Ciphers(m) \subseteq Ciphers(n)
           /\ Pairs(m) \subseteq Pairs(n) /\ BlocksTo(m) \subseteq BlocksTo(n)
           /\ Files(m) \subseteq Files(n)
           /\ Commands(m) \subseteq Commands(n)
           /\ Writes(m) \subseteq Writes(n)
  <1>1. 1 .. m \subseteq 1 .. n /\ 0 .. m \subseteq 0 .. n
    OBVIOUS
  <1>2. Secrets(m) \subseteq Secrets(n) /\ Ciphers(m) \subseteq Ciphers(n)
    BY <1>1 DEF Secrets, Ciphers
  <1>3. Pairs(m) \subseteq Pairs(n) /\ BlocksTo(m) \subseteq BlocksTo(n)
    BY <1>1, <1>2 DEF Pairs, BlocksTo
  <1>4. /\ Seq(BlocksTo(m)) \subseteq Seq(BlocksTo(n))
        /\ Seq(Ciphers(m)) \subseteq Seq(Ciphers(n))
        /\ Seq(Pairs(m)) \subseteq Seq(Pairs(n))
    BY <1>2, <1>3, SeqMonotonic
  <1>5. Files(m) \subseteq Files(n)
    BY <1>4 DEF Files, BlocksTo
  <1>6. Commands(m) \subseteq Commands(n)
    BY <1>1, <1>4 DEF Commands
  <1> QED
    BY <1>2, <1>3, <1>5, <1>6 DEF Writes

(* The pairs that requests carry are pairs of blocks. *)
LEMMA PairsAreBlocks ==
    ASSUME NEW m \in Nat, NEW sh \in Seq(Pairs(m))
    PROVE  sh \in PairSeqs(BlocksTo(m))
  <1>1. Pairs(m) \subseteq PairSet(BlocksTo(m))
    BY DEF Pairs, Pair, Secret, Secrets, PairSet, BlocksTo
  <1> QED
    BY <1>1, SeqMonotonic DEF PairSeqs

(* The payloads that requests carry are sequences of blocks. *)
LEMMA DataAreBlocks ==
    ASSUME NEW m \in Nat, NEW d \in Seq(Ciphers(m))
    PROVE  d \in Seq(BlocksTo(m))
  <1>1. Ciphers(m) \subseteq BlocksTo(m)
    BY DEF BlocksTo
  <1> QED
    BY <1>1, SeqMonotonic

(* The count byte, which no single post makes wrap to anything but zero.    *)
LEMMA CountFacts ==
    ASSUME NEW c \in Nat
    PROVE  /\ c % CountMod \in 0 .. CountMod - 1
           /\ c < CountMod => c % CountMod = c
           /\ c = CountMod => c % CountMod = 0
  BY StoreAssumption

(* A file that is laid out as pairs and a payload, but for the wrapping of  *)
(* its count, is a file.                                                    *)
LEMMA LaidOutFile ==
    ASSUME NEW m \in Nat, NEW p \in PairSeqs(BlocksTo(m)), NEW d \in Seq(Ciphers(m)),
           Len(p) <= CountMod
    PROVE  [count |-> Len(p) % CountMod, body |-> Flatten(p) \o d] \in Files(m)
  <1> DEFINE f == [count |-> Len(p) % CountMod, body |-> Flatten(p) \o d]
             S == BlocksTo(m)
  <1>1. Len(p) \in Nat /\ CountMod \in Nat
    BY StoreAssumption DEF PairSeqs
  <1>2. f.count \in 0 .. CountMod - 1 /\ (f.count = 0 \/ f.count = Len(p))
    <2>1. /\ Len(p) % CountMod \in 0 .. CountMod - 1
          /\ Len(p) < CountMod => Len(p) % CountMod = Len(p)
          /\ Len(p) = CountMod => Len(p) % CountMod = 0
      BY <1>1, CountFacts
    <2> QED
      BY <1>1, <2>1
  <1>3. d \in Seq(S)
    BY DataAreBlocks
  <1>4. f.body \in Seq(S)
    BY <1>3, BodyFacts
  <1>5. f.count > 0 => DataOf(f) = d
    <2> SUFFICES ASSUME f.count > 0 PROVE DataOf(f) = d
      OBVIOUS
    <2>1. f.count = Len(p) /\ f.body = Flatten(p) \o d
      BY <1>2
    <2> HIDE DEF f, S
    <2>2. p \in PairSeqs(S)
      BY DEF S
    <2> QED
      BY <1>3, <2>1, <2>2, LaidOut
  <1>6. f = [count |-> f.count, body |-> f.body]
    OBVIOUS
  <1> HIDE DEF f
  <1>7. f \in [count : 0 .. CountMod - 1, body : Seq(S)]
    BY <1>2, <1>4, <1>6
  <1>8. f \in Files(m)
    BY <1>5, <1>7 DEF Files, BlocksTo
  <1> QED
    BY <1>8 DEF f

(* A file whose header can be read, in terms of the layout. *)
LEMMA ReadableFile ==
    ASSUME NEW m \in Nat, NEW f \in Files(m), Readable(f)
    PROVE  /\ Whole(BlocksTo(m), f)
           /\ f.count \in 0 .. CountMod - 1
           /\ f.count > 0 => DataOf(f) \in Seq(Ciphers(m))
  <1>1. f.count \in 0 .. CountMod - 1 /\ f.body \in Seq(BlocksTo(m))
    BY DEF Files, BlocksTo
  <1>2. 2 * f.count <= Len(f.body)
    BY DEF Readable
  <1>3. f.count \in Nat
    BY <1>1, StoreAssumption
  <1> QED
    BY <1>1, <1>2, <1>3 DEF Whole, Files

(* A file is neither of the marks for what is not one. *)
LEMMA FilesAreFiles ==
    ASSUME NEW m \in 0 .. MaxKeys, NEW f \in Files(m)
    PROVE  f # Nothing /\ f # EmptyFile
  <1>1. m \in Nat /\ MaxKeys \in Nat /\ m <= MaxKeys
    BY StoreAssumption
  <1>2. f \in Files(MaxKeys)
    BY <1>1, MoreKeys
  <1> QED
    BY <1>2, BlankAssumption

(* A file that is laid out as fewer pairs than the count can name and a     *)
(* payload is read back as those.                                           *)
LEMMA LaidOutRead ==
    ASSUME NEW m \in 0 .. MaxKeys, NEW p \in PairSeqs(BlocksTo(m)), NEW d \in Seq(Ciphers(m)),
           NEW f, f = [count |-> Len(p) % CountMod, body |-> Flatten(p) \o d],
           Len(p) < CountMod
    PROVE  f \in Files(m) /\ Readable(f) /\ f.count = Len(p) /\ PairsOf(f) = p /\ DataOf(f) = d
  <1>1. Len(p) \in Nat /\ CountMod \in Nat /\ m \in Nat /\ Len(p) <= CountMod
    BY StoreAssumption DEF PairSeqs
  <1>2. f.count = Len(p) /\ f.body = Flatten(p) \o d
    BY <1>1, CountFacts
  <1>3. f \in Files(m)
    BY <1>1, LaidOutFile
  <1>4. d \in Seq(BlocksTo(m))
    BY <1>1, DataAreBlocks
  <1>5. Whole(BlocksTo(m), f) /\ PairsOf(f) = p /\ DataOf(f) = d
    BY <1>2, <1>4, LaidOut
  <1>6. Readable(f)
    BY <1>3, <1>5, FilesAreFiles DEF Readable, Whole
  <1> QED
    BY <1>2, <1>3, <1>5, <1>6

(* The blocks of one pair. *)
LEMMA FlattenOne ==
    ASSUME NEW S, NEW x \in PairSet(S)
    PROVE  <<x>> \in PairSeqs(S) /\ Flatten(<<x>>) = <<x.id, x.secret>>
  <1> DEFINE p == <<x>>
             q == <<x.id, x.secret>>
  <1>1. p \in PairSeqs(S) /\ Len(p) = 1 /\ p[1] = x
    BY DEF PairSeqs
  <1>2. x.id \in S /\ x.secret \in S
    BY PairFacts
  <1>3. q \in Seq(S) /\ Len(q) = 2 /\ q[1] = x.id /\ q[2] = x.secret
    BY <1>2
  <1> HIDE DEF p, q
  <1>4. /\ Flatten(p) \in Seq(S) /\ Len(Flatten(p)) = 2
        /\ \A i \in 1 .. 1 : /\ Flatten(p)[2 * i - 1] = p[i].id
                             /\ Flatten(p)[2 * i] = p[i].secret
    <2>1. /\ Flatten(p) \in Seq(S) /\ Len(Flatten(p)) = 2 * Len(p)
          /\ \A i \in 1 .. Len(p) : /\ Flatten(p)[2 * i - 1] = p[i].id
                                    /\ Flatten(p)[2 * i] = p[i].secret
      BY <1>1, FlattenFacts
    <2>2. 2 * Len(p) = 2
      BY <1>1
    <2> QED
      BY <1>1, <2>1, <2>2
  <1>5. Flatten(p)[1] = x.id /\ Flatten(p)[2] = x.secret
    <2>1. 1 \in 1 .. 1 /\ 2 * 1 - 1 = 1 /\ 2 * 1 = 2
      OBVIOUS
    <2> QED
      BY <1>1, <1>4, <2>1
  <1>6. Flatten(p) = q
    BY <1>3, <1>4, <1>5, SeqEqual
  <1> QED
    BY <1>1, <1>6 DEF p, q

(* The pair of a user and a session key. *)
LEMMA PairType ==
    ASSUME NEW m \in Nat, NEW u \in Users, NEW s \in 1 .. m
    PROVE  Pair(u, s) \in Pairs(m) /\ Pair(u, s) \in PairSet(BlocksTo(m))
  BY DEF Pair, Secret, Pairs, Secrets, PairSet, BlocksTo

(* What a post of u writes on a key without a file: its pair, the pairs of  *)
(* those it shares with, and the payload.                                   *)
LEMMA NewFileFacts ==
    ASSUME NEW m \in Nat, NEW u \in Users, NEW s \in 1 .. m,
           NEW sh \in Seq(Pairs(m)), NEW d \in Seq(Ciphers(m)), Len(sh) <= 1
    PROVE  /\ <<Pair(u, s)>> \o sh \in PairSeqs(BlocksTo(m))
           /\ <<Pair(u, s)>> \o sh \in Seq(Pairs(m))
           /\ Len(<<Pair(u, s)>> \o sh) = 1 + Len(sh)
           /\ NewFile(u, s, sh, d) = [count |-> Len(<<Pair(u, s)>> \o sh) % CountMod,
                                      body  |-> Flatten(<<Pair(u, s)>> \o sh) \o d]
  <1> DEFINE S == BlocksTo(m)
             one == <<Pair(u, s)>>
  <1>1. /\ Pair(u, s) \in PairSet(S) /\ Pair(u, s) \in Pairs(m)
        /\ Pair(u, s).id = u /\ Pair(u, s).secret = Secret(u, s)
    BY PairType DEF Pair
  <1>2. one \in Seq(Pairs(m)) /\ Len(one) = 1
    BY <1>1
  <1>3. one \o sh \in Seq(Pairs(m)) /\ Len(one \o sh) = 1 + Len(sh) /\ Len(<<u>>) = 1
    BY <1>2
  <1>4. sh \in PairSeqs(S)
    BY PairsAreBlocks
  <1>5. one \in PairSeqs(S) /\ Flatten(one) = <<u, Secret(u, s)>>
    BY <1>1, FlattenOne
  <1>6. one \o sh \in PairSeqs(S) /\ Flatten(one \o sh) = <<u, Secret(u, s)>> \o Flatten(sh)
    BY <1>4, <1>5, FlattenConcat
  <1>7. s # 0
    OBVIOUS
  <1> QED
    BY <1>3, <1>6, <1>7 DEF NewFile, Count

(* What a post writes on a file that can be read: its pairs, the pairs the  *)
(* post adds, and the new payload.                                          *)
LEMMA RewrittenFacts ==
    ASSUME NEW m \in Nat, NEW f \in Files(m), Readable(f),
           NEW sh \in Seq(Pairs(m)), NEW d \in Seq(Ciphers(m))
    PROVE  /\ PairsOf(f) \o sh \in PairSeqs(BlocksTo(m))
           /\ Len(PairsOf(f) \o sh) = f.count + Len(sh)
           /\ Rewritten(f, sh, d) = [count |-> Len(PairsOf(f) \o sh) % CountMod,
                                     body  |-> Flatten(PairsOf(f) \o sh) \o d]
  <1> DEFINE S == BlocksTo(m)
  <1>1. PairsOf(f) \in PairSeqs(S) /\ Len(PairsOf(f)) = f.count
    BY ReadableFile, ReadFacts
  <1>2. sh \in PairSeqs(S)
    BY PairsAreBlocks
  <1>3. /\ PairsOf(f) \o sh \in PairSeqs(S)
        /\ Len(PairsOf(f) \o sh) = Len(PairsOf(f)) + Len(sh)
        /\ Flatten(PairsOf(f) \o sh) = Flatten(PairsOf(f)) \o Flatten(sh)
    BY <1>1, <1>2, FlattenConcat
  <1> QED
    BY <1>1, <1>3 DEF Rewritten, Count

(* A sequence after one more element in front of it. *)
LEMMA OneBlock ==
    ASSUME NEW S, NEW x \in S, NEW d \in Seq(S)
    PROVE  /\ <<x>> \o d \in Seq(S) /\ Len(<<x>> \o d) = 1 + Len(d) /\ Len(d) \in Nat
           /\ \A i \in 1 .. Len(d) : (<<x>> \o d)[1 + i] = d[i]
  OBVIOUS

(* What a post without a secret writes on a key without a file: a header of *)
(* one identifier, whose secret is read from the payload.                   *)
LEMMA SyncFileType ==
    ASSUME NEW m \in Nat, NEW u \in Users, NEW d \in Seq(Ciphers(m))
    PROVE  NewFile(u, 0, <<>>, d) \in Files(m)
  <1> DEFINE S == BlocksTo(m)
             f == NewFile(u, 0, <<>>, d)
             one == <<u>>
  <1>1. Flatten(<<>>) = <<>>
    <2>1. <<>> \in PairSeqs(S) /\ Len(<<>>) = 0
      BY DEF PairSeqs
    <2>2. Flatten(<<>>) \in Seq(S) /\ Len(Flatten(<<>>)) = 2 * Len(<<>>)
      BY <2>1, FlattenFacts
    <2>3. Flatten(<<>>) \in Seq(S) /\ Len(Flatten(<<>>)) = 0
      BY <2>1, <2>2
    <2> HIDE DEF S
    <2> QED
      BY <2>3
  <1>2. d \in Seq(S) /\ u \in S
    BY DataAreBlocks DEF BlocksTo
  <1> HIDE DEF S
  <1>3. one \in Seq(S) /\ Len(one) = 1
    BY <1>2
  <1>4. f = [count |-> 1, body |-> one \o d]
    <2>1. Count(<<u>>, <<>>) = 1
      <3>1. Len(<<u>>) + Len(<<>>) = 1 /\ 1 \in Nat /\ 1 < CountMod
        BY StoreAssumption
      <3> QED
        BY <3>1, CountFacts DEF Count
    <2>2. (<<u>> \o <<>>) = <<u>>
      BY <1>3
    <2> QED
      BY <1>1, <2>1, <2>2 DEF NewFile
  <1> HIDE DEF one, f
  <1>5. /\ one \o d \in Seq(S) /\ Len(one \o d) = 1 + Len(d) /\ Len(d) \in Nat
        /\ \A i \in 1 .. Len(d) : (one \o d)[1 + i] = d[i]
    BY <1>2, OneBlock DEF one
  <1>6. f \in [count : 0 .. CountMod - 1, body : Seq(S)] /\ f.count = 1 /\ f.body = one \o d
    BY <1>4, <1>5, StoreAssumption
  <1>7. ASSUME Readable(f) PROVE DataOf(f) \in Seq(Ciphers(m))
    <2>1. 2 * f.count <= Len(f.body)
      BY <1>7 DEF Readable
    <2>2. 2 <= 1 + Len(d)
      BY <1>5, <1>6, <2>1
    <2>3. Whole(S, f)
      BY <1>5, <1>6, <2>1 DEF Whole
    <2>4. /\ DataOf(f) \in Seq(S) /\ Len(DataOf(f)) = Len(f.body) - 2 * f.count
          /\ \A i \in 1 .. Len(f.body) - 2 * f.count : DataOf(f)[i] = f.body[2 * f.count + i]
      BY <2>3, ReadFacts
    <2>5. Len(DataOf(f)) = Len(d) - 1
      BY <1>5, <1>6, <2>4
    <2>6. ASSUME NEW i \in 1 .. Len(DataOf(f)) PROVE DataOf(f)[i] \in Ciphers(m)
      <3>1. i + 1 \in 1 .. Len(d) /\ i \in 1 .. Len(f.body) - 2 * f.count
        BY <1>5, <2>4, <2>5
      <3>2. DataOf(f)[i] = f.body[2 + i] /\ f.body[1 + (i + 1)] = d[i + 1]
        BY <1>5, <1>6, <2>4, <3>1
      <3>3. DataOf(f)[i] = d[i + 1]
        BY <3>2
      <3> QED
        BY <3>1, <3>3
    <2> QED
      BY <2>4, <2>6
  <1>8. f \in Files(m)
    BY <1>6, <1>7 DEF Files, S, BlocksTo
  <1> QED
    BY <1>8 DEF f

(* Whatever a request may carry, the file that a post writes is one. *)
LEMMA NewFileType ==
    ASSUME NEW m \in Nat, NEW u \in Users, NEW s \in 0 .. m,
           NEW sh \in Seq(Pairs(m)), NEW d \in Seq(Ciphers(m)), Len(sh) <= 1,
           s = 0 => sh = <<>>
    PROVE  NewFile(u, s, sh, d) \in Files(m)
  <1>1. CASE s = 0
    BY <1>1, SyncFileType
  <1>2. CASE s # 0
    <2> DEFINE p == <<Pair(u, s)>> \o sh
    <2>1. s \in 1 .. m
      BY <1>2
    <2>2. /\ p \in PairSeqs(BlocksTo(m)) /\ Len(p) = 1 + Len(sh)
          /\ NewFile(u, s, sh, d) = [count |-> Len(p) % CountMod, body |-> Flatten(p) \o d]
      BY <2>1, NewFileFacts
    <2>3. Len(p) <= CountMod
      BY <2>2, StoreAssumption
    <2> HIDE DEF p
    <2> QED
      BY <2>2, <2>3, LaidOutFile
  <1> QED
    BY <1>1, <1>2

(* The same for a post on a file that can be read. *)
LEMMA RewrittenType ==
    ASSUME NEW m \in Nat, NEW f \in Files(m), Readable(f),
           NEW sh \in Seq(Pairs(m)), NEW d \in Seq(Ciphers(m)), Len(sh) <= 1
    PROVE  Rewritten(f, sh, d) \in Files(m)
  <1> DEFINE p == PairsOf(f) \o sh
  <1>1. /\ p \in PairSeqs(BlocksTo(m)) /\ Len(p) = f.count + Len(sh)
        /\ Rewritten(f, sh, d) = [count |-> Len(p) % CountMod, body |-> Flatten(p) \o d]
    BY RewrittenFacts
  <1>2. Len(p) <= CountMod
    <2>1. f.count \in 0 .. CountMod - 1 /\ Len(sh) \in Nat
      BY ReadableFile
    <2> QED
      BY <1>1, <2>1, StoreAssumption
  <1> HIDE DEF p
  <1> QED
    BY <1>1, <1>2, LaidOutFile

(* A session key that a header gives its reader has been generated. *)
LEMMA OpensMade ==
    ASSUME NEW m \in 0 .. MaxKeys, NEW f \in Files(m), Readable(f),
           NEW u \in Users, NEW s \in 1 .. MaxKeys, Opens(u, f, s)
    PROVE  s \in 1 .. m
  <1>1. m \in Nat
    BY StoreAssumption
  <1>2. PICK i \in 1 .. f.count : PairsOf(f)[i] = Pair(u, s)
    BY DEF Opens
  <1>3. PairsOf(f)[i] \in PairSet(BlocksTo(m))
    BY <1>1, ReadableFile, ReadFacts DEF PairSeqs
  <1>4. Secret(u, s) \in BlocksTo(m)
    BY <1>2, <1>3, PairFacts DEF Pair
  <1>5. Secret(u, s) \in Secrets(MaxKeys)
    BY DEF Secret, Secrets
  <1>6. Secret(u, s) \notin Users
    BY <1>5, BlankAssumption
  <1>7. Secret(u, s) \notin Ciphers(m)
    <2>1. "user" \in DOMAIN Secret(u, s)
      BY DEF Secret
    <2>2. \A c \in Ciphers(m) : DOMAIN c = {"text", "key"}
      BY DEF Ciphers
    <2> QED
      BY <2>1, <2>2
  <1>8. Secret(u, s) \in Secrets(m)
    BY <1>4, <1>6, <1>7 DEF BlocksTo
  <1> QED
    BY <1>8 DEF Secret, Secrets

(* A text encrypted with a session key. *)
LEMMA EncryptType ==
    ASSUME NEW m \in Nat, NEW s \in 0 .. m, NEW text \in Texts
    PROVE  Encrypt(s, text) \in Seq(Ciphers(m))
  <1>1. text \in Seq(Blocks)
    BY BlankAssumption
  <1>2. Len(text) \in Nat /\ \A i \in 1 .. Len(text) : Cipher(s, text[i]) \in Ciphers(m)
    BY <1>1 DEF Cipher, Ciphers
  <1>3. Encrypt(s, text) \in [1 .. Len(text) -> Ciphers(m)]
    BY <1>2 DEF Encrypt
  <1> QED
    BY <1>2, <1>3

-----------------------------------------------------------------------------
(* Type correctness. *)

(* The write that a post prepares, and what it finds on disk. *)
LEMMA PostType ==
    ASSUME TypeOK, NEW u \in Users, NEW k \in Keys, NEW s \in 0 .. made,
           NEW sh \in Seq(Pairs(made)), NEW d \in Seq(Ciphers(made)), Len(sh) <= 1,
           s = 0 => sh = <<>>,
           Post(u, k, s, sh, d)
    PROVE  /\ pending' \in Writes(made) /\ pending'.phase = "remove"
           /\ pending'.key = k /\ pending'.old = disk[k]
           /\ UNCHANGED <<disk, running, made, crashes>> /\ running
  <1>1. made \in Nat /\ UNCHANGED <<disk, running, made, crashes>> /\ running
    BY StoreAssumption DEF TypeOK, Post, Idle
  <1>2. CASE /\ disk[k] = Nothing
             /\ pending' = [key |-> k, phase |-> "remove", old |-> Nothing,
                            file |-> NewFile(u, s, sh, d)]
    BY <1>1, <1>2, NewFileType DEF Writes
  <1>3. CASE /\ Owns(u, disk[k])
             /\ pending' = [key |-> k, phase |-> "remove", old |-> disk[k],
                            file |-> Rewritten(disk[k], sh, d)]
    <2>1. Readable(disk[k]) /\ disk[k] \in Files(made)
      BY <1>3 DEF Owns, Readable, TypeOK
    <2>2. Rewritten(disk[k], sh, d) \in Files(made)
      BY <1>1, <2>1, RewrittenType
    <2> QED
      BY <1>1, <1>3, <2>1, <2>2 DEF Writes
  <1> QED
    BY <1>1, <1>2, <1>3 DEF Post

(* The initial state is of the declared types. *)
LEMMA StoreTypeInit == Init => TypeOK
  BY StoreAssumption DEF Init, TypeOK

(* Every request that changes nothing but a command or the pending write.   *)
Requests ==
    \/ \E u \in Users, k \in Keys, text \in Texts : Sync(u, k, text) \/ BackupGet(u, k, text)
    \/ \E u, v \in Users, k \in Keys : ShareGet(u, k, v)
    \/ \E u \in Users : SecondRequest(u) \/ CommandFails(u)

(* The clients' requests keep the types. *)
LEMMA StoreTypeRequests ==
    ASSUME TypeOK,
           Requests
    PROVE  TypeOK'
  <1>t. made \in Nat /\ 0 \in 0 .. made /\ made \in 0 .. MaxKeys
    BY StoreAssumption DEF TypeOK
  <1>1. ASSUME NEW u \in Users, NEW k \in Keys, NEW text \in Texts, Sync(u, k, text)
        PROVE  TypeOK'
    <2>1. Encrypt(0, text) \in Seq(Ciphers(made))
      BY <1>t, EncryptType
    <2>2. <<>> \in Seq(Pairs(made)) /\ Len(<<>>) <= 1
      OBVIOUS
    <2>3. Post(u, k, 0, <<>>, Encrypt(0, text)) /\ UNCHANGED session
      BY <1>1 DEF Sync
    <2>4. /\ pending' \in Writes(made) /\ pending'.phase = "remove"
          /\ pending'.key = k /\ pending'.old = disk[k]
          /\ UNCHANGED <<disk, running, made, crashes>> /\ running
      BY <1>t, <2>1, <2>2, <2>3, PostType
    <2> QED
      BY <2>3, <2>4 DEF TypeOK
  <1>2. ASSUME NEW u \in Users, NEW k \in Keys, NEW text \in Texts, BackupGet(u, k, text)
        PROVE  TypeOK'
    <2>0. UNCHANGED <<disk, pending, running, crashes>>
      BY <1>2 DEF BackupGet
    <2>1. PICK s \in 1 .. MaxKeys :
            /\ IF PeerHolds /\ Owns(u, disk[k])
               THEN Opens(u, disk[k], s) /\ made' = made
               ELSE s = made + 1 /\ made' = s
            /\ session' = [session EXCEPT ![u] =
                  [key |-> k, s |-> s, shared |-> <<>>, data |-> Encrypt(s, text)]]
      BY <1>2 DEF BackupGet
    <2>2. made' \in 0 .. MaxKeys /\ made <= made' /\ s \in 1 .. made' /\ made' \in Nat
      <3>1. CASE PeerHolds /\ Owns(u, disk[k])
        <4>1. Readable(disk[k]) /\ disk[k] \in Files(made) /\ Opens(u, disk[k], s) /\ made' = made
          BY <2>1, <3>1 DEF Owns, Readable, TypeOK
        <4>2. s \in 1 .. made
          BY <1>t, <4>1, OpensMade
        <4> QED
          BY <1>t, <4>1, <4>2
      <3>2. CASE ~ (PeerHolds /\ Owns(u, disk[k]))
        BY <1>t, <2>1, <3>2, StoreAssumption
      <3> QED
        BY <3>1, <3>2
    <2>3. /\ Files(made) \subseteq Files(made') /\ Commands(made) \subseteq Commands(made')
          /\ Writes(made) \subseteq Writes(made')
      BY <1>t, <2>2, MoreKeys
    <2>4. [key |-> k, s |-> s, shared |-> <<>>, data |-> Encrypt(s, text)] \in Commands(made')
      <3>1. Encrypt(s, text) \in Seq(Ciphers(made'))
        BY <2>2, EncryptType
      <3>2. <<>> \in Seq(Pairs(made')) /\ Len(<<>>) <= 1
        OBVIOUS
      <3> QED
        BY <2>2, <3>1, <3>2 DEF Commands
    <2>5. session' \in [Users -> Commands(made') \cup {Nothing}]
      BY <2>1, <2>3, <2>4 DEF TypeOK
    <2> QED
      BY <2>0, <2>2, <2>3, <2>5 DEF TypeOK
  <1>3. ASSUME NEW u \in Users, NEW v \in Users, NEW k \in Keys, ShareGet(u, k, v)
        PROVE  TypeOK'
    <2>0. UNCHANGED <<disk, pending, running, made, crashes>> /\ Owns(u, disk[k])
      BY <1>3 DEF ShareGet
    <2>1. PICK s \in 1 .. MaxKeys :
            /\ Opens(u, disk[k], s)
            /\ session' = [session EXCEPT ![u] =
                  [key |-> k, s |-> s, shared |-> <<Pair(v, s)>>, data |-> DataOf(disk[k])]]
      BY <1>3 DEF ShareGet
    <2>2. Readable(disk[k]) /\ disk[k] \in Files(made)
      BY <2>0 DEF Owns, Readable, TypeOK
    <2>3. s \in 1 .. made
      BY <1>t, <2>1, <2>2, OpensMade
    <2>4. DataOf(disk[k]) \in Seq(Ciphers(made))
      <3>1. disk[k].count > 0
        <4>1. disk[k].count \in 0 .. CountMod - 1
          BY <1>t, <2>2, ReadableFile
        <4>2. disk[k].count # 0
          BY <2>1 DEF Opens
        <4> QED
          BY <4>1, <4>2
      <3> QED
        BY <1>t, <2>2, <3>1, ReadableFile
    <2>5. <<Pair(v, s)>> \in Seq(Pairs(made)) /\ Len(<<Pair(v, s)>>) <= 1
      <3>1. Pair(v, s) \in Pairs(made)
        BY <1>t, <2>3, PairType
      <3> QED
        BY <3>1
    <2>6. [key |-> k, s |-> s, shared |-> <<Pair(v, s)>>, data |-> DataOf(disk[k])] \in Commands(made)
      BY <2>3, <2>4, <2>5 DEF Commands
    <2> QED
      BY <2>0, <2>1, <2>6 DEF TypeOK
  <1>4. ASSUME NEW u \in Users, SecondRequest(u) PROVE TypeOK'
    <2> DEFINE r == session[u]
    <2>1. r \in Commands(made) /\ session' = [session EXCEPT ![u] = Nothing]
      BY <1>4 DEF SecondRequest, TypeOK
    <2>2. Post(u, r.key, r.s, r.shared, r.data)
      BY <1>4 DEF SecondRequest
    <2>3. /\ r.key \in Keys /\ r.s \in 1 .. made /\ r.shared \in Seq(Pairs(made))
          /\ r.data \in Seq(Ciphers(made)) /\ Len(r.shared) <= 1
      BY <2>1 DEF Commands
    <2>4. r.s \in 0 .. made /\ r.s # 0
      BY <1>t, <2>3
    <2> HIDE DEF r
    <2>5. /\ pending' \in Writes(made) /\ pending'.phase = "remove"
          /\ pending'.key = r.key /\ pending'.old = disk[r.key]
          /\ UNCHANGED <<disk, running, made, crashes>> /\ running
      BY <2>2, <2>3, <2>4, PostType
    <2> QED
      BY <2>1, <2>5 DEF TypeOK
  <1>5. ASSUME NEW u \in Users, CommandFails(u) PROVE TypeOK'
    BY <1>5 DEF CommandFails, TypeOK
  <1> QED
    BY <1>1, <1>2, <1>3, <1>4, <1>5 DEF Requests

(* The steps of the server keep the types, and what the phase of a write    *)
(* says of the disk.                                                        *)
LEMMA StoreTypeServer ==
    ASSUME TypeOK,
           \/ RemoveOld \/ CreateEmpty \/ WriteFile
           \/ \E u \in Users, k \in Keys : Delete(u, k)
           \/ \E k \in Keys : DeleteAbsent(k)
           \/ Crash \/ Restart
    PROVE  TypeOK'
  <1>1. CASE RemoveOld
    BY <1>1 DEF RemoveOld, TypeOK, Writes
  <1>2. CASE CreateEmpty
    BY <1>2 DEF CreateEmpty, TypeOK, Writes
  <1>3. CASE WriteFile
    BY <1>3 DEF WriteFile, TypeOK, Writes
  <1>4. ASSUME NEW u \in Users, NEW k \in Keys, Delete(u, k) PROVE TypeOK'
    BY <1>4 DEF Delete, Idle, TypeOK
  <1>5. ASSUME NEW k \in Keys, DeleteAbsent(k) PROVE TypeOK'
    BY <1>5 DEF DeleteAbsent, Idle, TypeOK
  <1>6. CASE Crash
    <2>1. crashes' \in 0 .. MaxCrashes
      BY <1>6, StoreAssumption DEF Crash, TypeOK
    <2> QED
      BY <1>6, <2>1 DEF Crash, TypeOK
  <1>7. CASE Restart
    BY <1>7 DEF Restart, TypeOK
  <1> QED
    BY <1>1, <1>2, <1>3, <1>4, <1>5, <1>6, <1>7

(* Every step keeps the types. *)
LEMMA StoreTypeNext == TypeOK /\ [Next]_vars => TypeOK'
  <1>1. ASSUME TypeOK, UNCHANGED vars PROVE TypeOK'
    <2>1. UNCHANGED <<disk, pending, running, session, made, crashes>>
      BY <1>1 DEF vars
    <2>2. UNCHANGED <<Files(made), Commands(made), Writes(made)>>
      BY <2>1 DEF Files, Commands, Writes, Ciphers, Secrets, Pairs
    <2> QED
      BY <1>1, <2>1, <2>2 DEF TypeOK
  <1> QED
    BY <1>1, StoreTypeRequests, StoreTypeServer DEF Next, Requests

(* Every state of the file store is of the declared types: what follows the *)
(* header of a file is payload unless the count has wrapped, every session  *)
(* key in a file, a request or a write has been generated, and the phase of *)
(* a write says what is on disk.                                            *)
THEOREM StoreTypeCorrect == Spec => []TypeOK
  BY StoreTypeInit, StoreTypeNext, PTL DEF Spec

-----------------------------------------------------------------------------
(* What the other handlers find at a key, step by step. *)

(* A write in progress is there. *)
LEMMA WritesAreWrites ==
    ASSUME NEW m \in 0 .. MaxKeys, NEW w \in Writes(m)
    PROVE  w # Nothing
  <1>1. m \in Nat /\ MaxKeys \in Nat /\ m <= MaxKeys
    BY StoreAssumption
  <1>2. w \in Writes(MaxKeys)
    BY <1>1, MoreKeys
  <1> QED
    BY <1>2, BlankAssumption

(* Steps that leave every key as it was found: all requests, and the steps  *)
(* of a write before the last.                                              *)
LEMMA SettledKept ==
    ASSUME TypeOK,
           \/ Requests
           \/ RemoveOld \/ CreateEmpty
           \/ \E k \in Keys : DeleteAbsent(k)
           \/ Restart \/ UNCHANGED vars
    PROVE  \A k \in Keys : Settled(k)' = Settled(k)
  <1>m. made \in 0 .. MaxKeys
    BY DEF TypeOK
  <1>1. CASE Requests
    <2>1. CASE /\ pending = Nothing /\ UNCHANGED disk
               /\ \E k \in Keys : pending'.key = k /\ pending'.old = disk[k]
      BY <2>1 DEF Settled
    <2>2. CASE UNCHANGED <<disk, pending>>
      BY <2>2 DEF Settled
    <2>3. ASSUME NEW u \in Users, NEW k \in Keys, NEW s, NEW sh, NEW d, Post(u, k, s, sh, d)
          PROVE  /\ pending = Nothing /\ UNCHANGED disk
                 /\ pending'.key = k /\ pending'.old = disk[k]
      BY <2>3 DEF Post, Idle
    <2>4. ASSUME NEW u \in Users, SecondRequest(u)
          PROVE  /\ pending = Nothing /\ UNCHANGED disk
                 /\ \E k \in Keys : pending'.key = k /\ pending'.old = disk[k]
      <3>1. session[u].key \in Keys
        BY <2>4 DEF SecondRequest, TypeOK, Commands
      <3>2. Post(u, session[u].key, session[u].s, session[u].shared, session[u].data)
        BY <2>4 DEF SecondRequest
      <3> QED
        BY <2>3, <3>1, <3>2
    <2> QED
      BY <1>1, <2>1, <2>2, <2>3, <2>4 DEF Requests, Sync, BackupGet, ShareGet, CommandFails
  <1>2. CASE RemoveOld \/ CreateEmpty
    <2>1. /\ pending # Nothing /\ pending \in Writes(made)
          /\ \/ pending' = [pending EXCEPT !.phase = "create"]
             \/ pending' = [pending EXCEPT !.phase = "write"]
      BY <1>2 DEF RemoveOld, CreateEmpty, TypeOK
    <2>2. pending' \in Writes(made) /\ pending'.key = pending.key /\ pending'.old = pending.old
      BY <2>1 DEF Writes
    <2>3. pending' # Nothing
      BY <1>m, <2>2, WritesAreWrites
    <2>4. \A k \in Keys : k # pending.key => disk'[k] = disk[k]
      BY <1>2 DEF RemoveOld, CreateEmpty, TypeOK
    <2> QED
      BY <2>1, <2>2, <2>3, <2>4 DEF Settled
  <1>3. CASE \/ \E k \in Keys : DeleteAbsent(k)
             \/ Restart \/ UNCHANGED vars
    <2>1. UNCHANGED <<disk, pending>>
      BY <1>3 DEF DeleteAbsent, Restart, vars
    <2> QED
      BY <2>1 DEF Settled
  <1> QED
    BY <1>1, <1>2, <1>3

(* The last step of a write puts the new file in the place of the old one.  *)
LEMMA SettledWrite ==
    ASSUME TypeOK, WriteFile
    PROVE  /\ pending \in Writes(made)
           /\ \E k \in Keys : /\ k = pending.key
                             /\ Settled(k) = pending.old /\ Settled(k)' = pending.file
                             /\ \A j \in Keys : j # k => Settled(j)' = Settled(j)
  <1>1. pending \in Writes(made) /\ pending # Nothing /\ pending' = Nothing
    BY DEF WriteFile, TypeOK
  <1>2. PICK k \in Keys : k = pending.key
    BY <1>1 DEF Writes
  <1>3. disk' = [disk EXCEPT ![k] = pending.file] /\ DOMAIN disk = Keys
    BY <1>2 DEF WriteFile, TypeOK
  <1>4. disk'[k] = pending.file /\ \A j \in Keys : j # k => disk'[j] = disk[j]
    BY <1>3
  <1>5. \A j \in Keys : Settled(j)' = disk'[j]
    BY <1>1 DEF Settled
  <1>6. Settled(k) = pending.old /\ \A j \in Keys : j # k => Settled(j) = disk[j]
    BY <1>1, <1>2 DEF Settled
  <1> QED
    BY <1>1, <1>2, <1>4, <1>5, <1>6

(* A file is removed in one step. *)
LEMMA SettledDelete ==
    ASSUME TypeOK, NEW u \in Users, NEW k \in Keys, Delete(u, k)
    PROVE  /\ Settled(k) = disk[k] /\ Settled(k)' = Nothing
           /\ \A j \in Keys : j # k => Settled(j)' = Settled(j)
  BY DEF Delete, Idle, TypeOK, Settled

(* A crash leaves the old file, no file or an empty one where it interrupts *)
(* a write, and every other file as it was.                                 *)
LEMMA SettledCrash ==
    ASSUME TypeOK, Crash
    PROVE  \/ \A k \in Keys : Settled(k)' = Settled(k)
           \/ \E k \in Keys : /\ Settled(k)' \in {Nothing, EmptyFile}
                              /\ \A j \in Keys : j # k => Settled(j)' = Settled(j)
  <1>1. pending' = Nothing /\ disk' = disk
    BY DEF Crash
  <1>2. CASE pending = Nothing
    BY <1>1, <1>2 DEF Settled
  <1>3. CASE pending # Nothing
    <2>1. pending \in Writes(made)
      BY <1>3 DEF TypeOK
    <2>2. PICK k \in Keys : k = pending.key
      BY <2>1 DEF Writes
    <2>3. disk[k] \in {pending.old, Nothing, EmptyFile}
      <3>1. pending.phase \in {"remove", "create", "write"}
        BY <2>1 DEF Writes
      <3> QED
        BY <1>3, <2>2, <3>1 DEF TypeOK
    <2>4. /\ Settled(k) = pending.old /\ \A j \in Keys : Settled(j)' = disk[j]
          /\ \A j \in Keys : j # k => Settled(j) = disk[j]
      BY <1>1, <1>3, <2>2 DEF Settled
    <2> QED
      BY <2>3, <2>4
  <1> QED
    BY <1>2, <1>3

-----------------------------------------------------------------------------
(* Owners stay in the header. *)

Ids(p) == {p[i].id : i \in 1 .. Len(p)}

(* The users in a header are those of its pairs. *)
LEMMA OwnersAreIds ==
    ASSUME NEW f, Len(PairsOf(f)) = f.count
    PROVE  OwnersOf(f) = Ids(PairsOf(f))
  BY DEF OwnersOf, Ids

(* The users of two lists of pairs, one after the other. *)
LEMMA IdsJoined ==
    ASSUME NEW S, NEW p \in PairSeqs(S), NEW q \in PairSeqs(S)
    PROVE  Ids(p \o q) = Ids(p) \cup Ids(q)
  <1>1. /\ Len(p \o q) = Len(p) + Len(q) /\ Len(p) \in Nat /\ Len(q) \in Nat
        /\ \A i \in 1 .. Len(p) : (p \o q)[i] = p[i]
        /\ \A i \in 1 .. Len(q) : (p \o q)[Len(p) + i] = q[i]
    BY DEF PairSeqs
  <1>2. ASSUME NEW x \in Ids(p \o q) PROVE x \in Ids(p) \cup Ids(q)
    <2>1. PICK i \in 1 .. Len(p) + Len(q) : x = (p \o q)[i].id
      BY <1>1, <1>2 DEF Ids
    <2>2. CASE i <= Len(p)
      <3>1. i \in 1 .. Len(p)
        BY <1>1, <2>2
      <3> QED
        BY <1>1, <2>1, <3>1 DEF Ids
    <2>3. CASE ~ (i <= Len(p))
      <3>1. i - Len(p) \in 1 .. Len(q) /\ i = Len(p) + (i - Len(p))
        BY <1>1, <2>3
      <3>2. (p \o q)[i] = q[i - Len(p)]
        BY <1>1, <3>1
      <3> QED
        BY <2>1, <3>1, <3>2 DEF Ids
    <2> QED
      BY <2>2, <2>3
  <1>3. ASSUME NEW x \in Ids(p) PROVE x \in Ids(p \o q)
    <2>1. PICK i \in 1 .. Len(p) : x = p[i].id
      BY <1>3 DEF Ids
    <2>2. i \in 1 .. Len(p \o q) /\ (p \o q)[i] = p[i]
      BY <1>1
    <2> QED
      BY <2>1, <2>2 DEF Ids
  <1>4. ASSUME NEW x \in Ids(q) PROVE x \in Ids(p \o q)
    <2>1. PICK i \in 1 .. Len(q) : x = q[i].id
      BY <1>4 DEF Ids
    <2>2. Len(p) + i \in 1 .. Len(p \o q) /\ (p \o q)[Len(p) + i] = q[i]
      BY <1>1
    <2> QED
      BY <2>1, <2>2 DEF Ids
  <1> QED
    BY <1>2, <1>3, <1>4

(* The file that a post of a user in the header writes is read back as the  *)
(* old pairs, the new one and the new payload, if the count can name them.  *)
LEMMA RewrittenRead ==
    ASSUME NEW m \in 0 .. MaxKeys, NEW f \in Files(m), Readable(f),
           NEW sh \in Seq(Pairs(m)), NEW d \in Seq(Ciphers(m)), Len(sh) <= 1,
           f.count < CountMod - 1
    PROVE  /\ Readable(Rewritten(f, sh, d))
           /\ Rewritten(f, sh, d).count = f.count + Len(sh)
           /\ PairsOf(Rewritten(f, sh, d)) = PairsOf(f) \o sh
           /\ DataOf(Rewritten(f, sh, d)) = d
           /\ OwnersOf(Rewritten(f, sh, d)) = OwnersOf(f) \cup Ids(sh)
  <1> DEFINE p == PairsOf(f) \o sh
             g == Rewritten(f, sh, d)
  <1>1. m \in Nat
    BY StoreAssumption
  <1>2. /\ p \in PairSeqs(BlocksTo(m)) /\ Len(p) = f.count + Len(sh)
        /\ g = [count |-> Len(p) % CountMod, body |-> Flatten(p) \o d]
    BY <1>1, RewrittenFacts
  <1>3. Len(p) < CountMod
    <2>1. f.count \in 0 .. CountMod - 1 /\ Len(sh) \in Nat /\ CountMod \in Nat
      BY <1>1, ReadableFile, StoreAssumption
    <2> QED
      BY <1>2, <2>1
  <1> HIDE DEF p, g
  <1>4. Readable(g) /\ g.count = Len(p) /\ PairsOf(g) = p /\ DataOf(g) = d
    BY <1>2, <1>3, LaidOutRead
  <1>5. OwnersOf(g) = Ids(p)
    BY <1>4, OwnersAreIds
  <1>6. OwnersOf(f) = Ids(PairsOf(f)) /\ PairsOf(f) \in PairSeqs(BlocksTo(m))
    BY <1>1, ReadableFile, ReadFacts, OwnersAreIds
  <1>7. Ids(p) = Ids(PairsOf(f)) \cup Ids(sh)
    BY <1>1, <1>6, PairsAreBlocks, IdsJoined DEF p
  <1> QED
    BY <1>2, <1>4, <1>5, <1>6, <1>7 DEF p, g

(* A write in progress takes nobody out of the header it replaces, as long  *)
(* as the count can name one more.                                          *)
WriteKeepsOwners ==
    pending # Nothing /\ pending.old # Nothing /\ pending.old.count < CountMod - 1 =>
        OwnersOf(pending.old) \subseteq OwnersOf(pending.file)

(* A post prepares such a write. *)
LEMMA PostKeepsOwners ==
    ASSUME TypeOK, NEW u \in Users, NEW k \in Keys, NEW s,
           NEW sh \in Seq(Pairs(made)), NEW d \in Seq(Ciphers(made)), Len(sh) <= 1,
           Post(u, k, s, sh, d)
    PROVE  WriteKeepsOwners'
  <1>m. made \in 0 .. MaxKeys
    BY DEF TypeOK
  <1>1. CASE pending' = [key |-> k, phase |-> "remove", old |-> Nothing,
                         file |-> NewFile(u, s, sh, d)]
    BY <1>1 DEF WriteKeepsOwners
  <1>2. CASE /\ Owns(u, disk[k])
             /\ pending' = [key |-> k, phase |-> "remove", old |-> disk[k],
                            file |-> Rewritten(disk[k], sh, d)]
    <2> DEFINE f == disk[k]
    <2>1. Readable(f) /\ f \in Files(made)
      BY <1>2 DEF Owns, Readable, TypeOK
    <2> HIDE DEF f
    <2>2. f.count < CountMod - 1 => OwnersOf(Rewritten(f, sh, d)) = OwnersOf(f) \cup Ids(sh)
      BY <1>m, <2>1, RewrittenRead
    <2>3. pending'.old = f /\ pending'.file = Rewritten(f, sh, d)
      BY <1>2 DEF f
    <2> QED
      BY <2>2, <2>3 DEF WriteKeepsOwners
  <1> QED
    BY <1>1, <1>2 DEF Post

(* The second request of a command posts what a command may. *)
LEMMA SecondRequestPosts ==
    ASSUME TypeOK, NEW u \in Users, SecondRequest(u)
    PROVE  /\ session[u] \in Commands(made)
           /\ session[u].key \in Keys /\ session[u].s \in 1 .. made
           /\ session[u].shared \in Seq(Pairs(made)) /\ Len(session[u].shared) <= 1
           /\ session[u].data \in Seq(Ciphers(made))
           /\ Post(u, session[u].key, session[u].s, session[u].shared, session[u].data)
  BY DEF SecondRequest, TypeOK, Commands

(* Every step keeps the write in progress from taking anybody out. *)
LEMMA WriteKeepsOwnersNext == TypeOK /\ WriteKeepsOwners /\ [Next]_vars => WriteKeepsOwners'
  <1> SUFFICES ASSUME TypeOK, WriteKeepsOwners, [Next]_vars PROVE WriteKeepsOwners'
    OBVIOUS
  <1>m. made \in Nat /\ 0 \in 0 .. made
    BY StoreAssumption DEF TypeOK
  <1>1. CASE UNCHANGED pending
    BY <1>1 DEF WriteKeepsOwners
  <1>2. ASSUME NEW u \in Users, NEW k \in Keys, NEW text \in Texts, Sync(u, k, text)
        PROVE  WriteKeepsOwners'
    <2>1. Encrypt(0, text) \in Seq(Ciphers(made))
      BY <1>m, EncryptType
    <2>2. <<>> \in Seq(Pairs(made)) /\ Len(<<>>) <= 1
      OBVIOUS
    <2> QED
      BY <1>2, <2>1, <2>2, PostKeepsOwners DEF Sync
  <1>3. ASSUME NEW u \in Users, SecondRequest(u) PROVE WriteKeepsOwners'
    BY <1>3, SecondRequestPosts, PostKeepsOwners
  <1>4. CASE RemoveOld \/ CreateEmpty
    <2>1. /\ pending # Nothing /\ pending \in Writes(made)
          /\ \/ pending' = [pending EXCEPT !.phase = "create"]
             \/ pending' = [pending EXCEPT !.phase = "write"]
      BY <1>4 DEF RemoveOld, CreateEmpty, TypeOK
    <2>2. pending'.old = pending.old /\ pending'.file = pending.file
      BY <2>1 DEF Writes
    <2> QED
      BY <2>1, <2>2 DEF WriteKeepsOwners
  <1>5. CASE WriteFile \/ Crash
    BY <1>5 DEF WriteFile, Crash, WriteKeepsOwners
  <1> QED
    BY <1>1, <1>2, <1>3, <1>4, <1>5
       DEF Next, vars, BackupGet, ShareGet, CommandFails, Delete, DeleteAbsent, Restart

(* No step takes a user out of a header while the file can be read and the  *)
(* count can name one more.                                                 *)
LEMMA OwnersStep ==
    ASSUME TypeOK, WriteKeepsOwners, [Next]_vars, NEW k \in Keys,
           Readable(Settled(k)), Readable(Settled(k)'), Settled(k).count < CountMod - 1
    PROVE  OwnersOf(Settled(k)) \subseteq OwnersOf(Settled(k)')
  <1>1. CASE Settled(k)' = Settled(k)
    BY <1>1
  <1>2. CASE WriteFile
    <2>1. PICK j \in Keys : /\ j = pending.key
                            /\ Settled(j) = pending.old /\ Settled(j)' = pending.file
                            /\ \A i \in Keys : i # j => Settled(i)' = Settled(i)
      BY <1>2, SettledWrite
    <2>2. CASE k = j
      <3>1. Settled(k) = pending.old /\ Settled(k)' = pending.file /\ pending # Nothing
        BY <1>2, <2>1, <2>2 DEF WriteFile
      <3>2. pending.old # Nothing
        BY <3>1 DEF Readable
      <3> QED
        BY <3>1, <3>2 DEF WriteKeepsOwners
    <2>3. CASE k # j
      BY <1>1, <2>1, <2>3
    <2> QED
      BY <2>2, <2>3
  <1>3. ASSUME NEW u \in Users, NEW j \in Keys, Delete(u, j)
        PROVE  OwnersOf(Settled(k)) \subseteq OwnersOf(Settled(k)')
    <2>1. Settled(j)' = Nothing /\ \A i \in Keys : i # j => Settled(i)' = Settled(i)
      BY <1>3, SettledDelete
    <2>2. Settled(k)' # Nothing
      BY DEF Readable
    <2> QED
      BY <1>1, <2>1, <2>2
  <1>4. CASE Crash
    <2>1. Settled(k)' \notin {Nothing, EmptyFile}
      BY DEF Readable
    <2> QED
      BY <1>1, <1>4, <2>1, SettledCrash
  <1>5. CASE \/ Requests \/ RemoveOld \/ CreateEmpty
             \/ \E j \in Keys : DeleteAbsent(j)
             \/ Restart \/ UNCHANGED vars
    BY <1>1, <1>5, SettledKept
  <1> QED
    BY <1>2, <1>3, <1>4, <1>5 DEF Next, Requests

(* A user in the header of a file stays in it until the file is removed or  *)
(* lost, or the count byte is at its limit.                                 *)
THEOREM OwnersAlwaysKept == Spec => OwnersKept
  <1>1. Init => WriteKeepsOwners
    BY DEF Init, WriteKeepsOwners
  <1>2. TypeOK /\ WriteKeepsOwners /\ [Next]_vars =>
          [\A k \in Keys :
             Readable(Settled(k)) /\ Readable(Settled(k)') /\ Settled(k).count < CountMod - 1
               => OwnersOf(Settled(k)) \subseteq OwnersOf(Settled(k)')]_vars
    BY OwnersStep
  <1> QED
    BY <1>1, <1>2, StoreTypeCorrect, WriteKeepsOwnersNext, PTL DEF Spec, OwnersKept

-----------------------------------------------------------------------------
(* Headers without sync clients. *)

(* A sound file, when m session keys have been generated. *)
SoundAt(f, m) == Readable(f) /\ \A i \in 1 .. f.count : PairsOf(f)[i] \in Pairs(m)

(* What is sound stays so when more keys are generated. *)
LEMMA SoundGrows ==
    ASSUME NEW m \in Nat, NEW n \in Nat, m <= n, NEW f, SoundAt(f, m)
    PROVE  SoundAt(f, n)
  BY MoreKeys DEF SoundAt

(* A file that is laid out as sound pairs is sound, wrapped or not. *)
LEMMA LaidOutSound ==
    ASSUME NEW m \in 0 .. MaxKeys, NEW p \in Seq(Pairs(m)), NEW d \in Seq(Ciphers(m)),
           NEW f, f = [count |-> Len(p) % CountMod, body |-> Flatten(p) \o d],
           Len(p) <= CountMod
    PROVE  SoundAt(f, m)
  <1>1. m \in Nat /\ Len(p) \in Nat /\ CountMod \in Nat
    BY StoreAssumption
  <1>p. \A i \in 1 .. Len(p) : p[i] \in Pairs(m)
    OBVIOUS
  <1>2. p \in PairSeqs(BlocksTo(m))
    BY <1>1, PairsAreBlocks
  <1>3. CASE Len(p) < CountMod
    <2>1. Readable(f) /\ f.count = Len(p) /\ PairsOf(f) = p
      BY <1>2, <1>3, LaidOutRead
    <2>2. \A i \in 1 .. f.count : PairsOf(f)[i] \in Pairs(m)
      BY <1>p, <2>1, Zenon
    <2> QED
      BY <2>1, <2>2, Zenon DEF SoundAt
  <1>4. CASE Len(p) = CountMod
    <2>1. f.count = 0
      <3>1. f.count = Len(p) % CountMod
        OBVIOUS
      <3>2. Len(p) % CountMod = 0
        BY <1>1, <1>4, CountFacts
      <3> QED
        BY <3>1, <3>2
    <2>2. f \in Files(m)
      BY <1>1, <1>2, LaidOutFile
    <2>3. Readable(f)
      <3>1. Len(f.body) \in Nat
        <4>1. f.body \in Seq(BlocksTo(m))
          BY <2>2 DEF Files, BlocksTo
        <4> QED
          BY <4>1, LenProperties
      <3>2. 2 * f.count <= Len(f.body)
        <4>1. 2 * f.count = 0
          BY <2>1
        <4> QED
          BY <3>1, <4>1
      <3>3. f # Nothing /\ f # EmptyFile
        BY <2>2, FilesAreFiles
      <3>4. f \notin {Nothing, EmptyFile}
        BY <3>3
      <3> QED
        BY <3>2, <3>4, Zenon DEF Readable
    <2>4. \A i \in 1 .. f.count : FALSE
      BY <2>1
    <2> QED
      BY <2>3, <2>4, Zenon DEF SoundAt
  <1> QED
    BY <1>1, <1>3, <1>4

(* A post with a secret on a key without a file writes a sound file. *)
LEMMA NewFileSound ==
    ASSUME NEW m \in 0 .. MaxKeys, NEW u \in Users, NEW s \in 1 .. m,
           NEW sh \in Seq(Pairs(m)), NEW d \in Seq(Ciphers(m)), Len(sh) <= 1
    PROVE  SoundAt(NewFile(u, s, sh, d), m)
  <1> DEFINE p == <<Pair(u, s)>> \o sh
  <1>1. m \in Nat
    BY StoreAssumption
  <1>2. /\ p \in Seq(Pairs(m)) /\ Len(p) = 1 + Len(sh)
        /\ NewFile(u, s, sh, d) = [count |-> Len(p) % CountMod, body |-> Flatten(p) \o d]
    BY <1>1, NewFileFacts
  <1>3. Len(p) <= CountMod
    BY <1>2, StoreAssumption
  <1> HIDE DEF p
  <1> QED
    BY <1>2, <1>3, LaidOutSound

(* A post on a sound file writes a sound one. *)
LEMMA RewrittenSound ==
    ASSUME NEW m \in 0 .. MaxKeys, NEW f \in Files(m), SoundAt(f, m),
           NEW sh \in Seq(Pairs(m)), NEW d \in Seq(Ciphers(m)), Len(sh) <= 1
    PROVE  SoundAt(Rewritten(f, sh, d), m)
  <1> DEFINE q == PairsOf(f)
             p == q \o sh
  <1>1. m \in Nat /\ Readable(f)
    BY StoreAssumption DEF SoundAt
  <1>2. Whole(BlocksTo(m), f) /\ f.count \in 0 .. CountMod - 1
    BY <1>1, ReadableFile
  <1>3. q \in PairSeqs(BlocksTo(m)) /\ Len(q) = f.count
    BY <1>2, ReadFacts
  <1>4. \A i \in 1 .. Len(q) : q[i] \in Pairs(m)
    BY <1>3 DEF SoundAt
  <1>5. /\ Len(p) = f.count + Len(sh)
        /\ Rewritten(f, sh, d) = [count |-> Len(p) % CountMod, body |-> Flatten(p) \o d]
    BY <1>1, RewrittenFacts
  <1>6. Len(p) <= CountMod
    <2>1. Len(sh) \in Nat /\ CountMod \in Nat
      BY StoreAssumption
    <2> QED
      BY <1>2, <1>5, <2>1
  <1> HIDE DEF q
  <1>7. q \in Seq(Pairs(m))
    BY <1>3, <1>4 DEF PairSeqs
  <1>8. p \in Seq(Pairs(m))
    BY <1>7
  <1> HIDE DEF p
  <1> QED
    BY <1>5, <1>6, <1>8, LaidOutSound DEF q

(* Soundness at the present number of keys. *)
LEMMA SoundNow == \A f : Sound(f) <=> SoundAt(f, made)
  BY DEF Sound, SoundAt

(* What a post with a secret prepares is sound. *)
LEMMA PostSound ==
    ASSUME TypeOK, HeadersSound, NEW u \in Users, NEW k \in Keys, NEW s \in 1 .. made,
           NEW sh \in Seq(Pairs(made)), NEW d \in Seq(Ciphers(made)), Len(sh) <= 1,
           Post(u, k, s, sh, d)
    PROVE  HeadersSound'
  <1>m. made \in 0 .. MaxKeys /\ UNCHANGED <<disk, made>>
    BY DEF TypeOK, Post
  <1>1. \A j \in Keys : disk[j] \notin {Nothing, EmptyFile} => Sound(disk[j])
    BY DEF HeadersSound
  <1>2. CASE pending' = [key |-> k, phase |-> "remove", old |-> Nothing,
                         file |-> NewFile(u, s, sh, d)]
    <2>1. SoundAt(pending'.file, made) /\ pending'.old = Nothing
      BY <1>m, <1>2, NewFileSound
    <2> QED
      BY <1>m, <1>1, <2>1 DEF HeadersSound, Sound, SoundAt
  <1>3. CASE /\ Owns(u, disk[k])
             /\ pending' = [key |-> k, phase |-> "remove", old |-> disk[k],
                            file |-> Rewritten(disk[k], sh, d)]
    <2>1. Sound(disk[k]) /\ disk[k] \in Files(made)
      BY <1>1, <1>3 DEF Owns, Readable, TypeOK
    <2>2. SoundAt(disk[k], made)
      BY <2>1, SoundNow
    <2>3. SoundAt(pending'.file, made) /\ pending'.old = disk[k]
      BY <1>m, <1>3, <2>1, <2>2, RewrittenSound
    <2> QED
      BY <1>m, <1>1, <2>2, <2>3 DEF HeadersSound, Sound, SoundAt
  <1> QED
    BY <1>2, <1>3 DEF Post

(* Every step keeps the headers sound while no client posts without a       *)
(* secret.                                                                  *)
LEMMA HeadersSoundNext ==
    ASSUME "sync" \notin Clients, TypeOK, HeadersSound, [Next]_vars
    PROVE  HeadersSound'
  <1>m. made \in 0 .. MaxKeys /\ made \in Nat
    BY StoreAssumption DEF TypeOK
  <1>1. CASE UNCHANGED <<disk, pending, made>>
    BY <1>1 DEF HeadersSound, Sound
  <1>2. ASSUME NEW u \in Users, NEW k \in Keys, NEW text \in Texts, BackupGet(u, k, text)
        PROVE  HeadersSound'
    <2>1. UNCHANGED <<disk, pending>>
      BY <1>2 DEF BackupGet
    <2>2. made' \in Nat /\ made <= made'
      BY <1>2, <1>m DEF BackupGet
    <2>3. \A f : Sound(f) => SoundAt(f, made')
      BY <1>m, <2>2, SoundNow, SoundGrows
    <2> QED
      BY <2>1, <2>3 DEF HeadersSound, Sound, SoundAt
  <1>3. ASSUME NEW u \in Users, SecondRequest(u) PROVE HeadersSound'
    BY <1>3, SecondRequestPosts, PostSound
  <1>4. CASE RemoveOld \/ CreateEmpty
    <2>1. /\ pending # Nothing /\ pending \in Writes(made) /\ UNCHANGED made
          /\ \/ pending' = [pending EXCEPT !.phase = "create"]
             \/ pending' = [pending EXCEPT !.phase = "write"]
      BY <1>4 DEF RemoveOld, CreateEmpty, TypeOK
    <2>2. pending'.old = pending.old /\ pending'.file = pending.file
      BY <2>1 DEF Writes
    <2>3. \A k \in Keys : disk'[k] = disk[k] \/ disk'[k] \in {Nothing, EmptyFile}
      BY <1>4 DEF RemoveOld, CreateEmpty, TypeOK
    <2> QED
      BY <2>1, <2>2, <2>3 DEF HeadersSound, Sound
  <1>5. CASE WriteFile
    <2>1. Sound(pending.file) /\ pending' = Nothing /\ UNCHANGED made
      BY <1>5 DEF WriteFile, HeadersSound
    <2>2. \A k \in Keys : disk'[k] = disk[k] \/ disk'[k] = pending.file
      BY <1>5 DEF WriteFile, TypeOK
    <2> QED
      BY <2>1, <2>2 DEF HeadersSound, Sound
  <1>6. ASSUME NEW u \in Users, NEW k \in Keys, Delete(u, k) PROVE HeadersSound'
    <2>1. UNCHANGED <<pending, made>> /\ \A j \in Keys : disk'[j] = disk[j] \/ disk'[j] = Nothing
      BY <1>6 DEF Delete, TypeOK
    <2> QED
      BY <2>1 DEF HeadersSound, Sound
  <1>7. CASE Crash
    BY <1>7 DEF Crash, HeadersSound, Sound
  <1>8. ASSUME NEW u \in Users, NEW k \in Keys, NEW text \in Texts, Sync(u, k, text) PROVE FALSE
    BY <1>8 DEF Sync
  <1> QED
    BY <1>1, <1>2, <1>3, <1>4, <1>5, <1>6, <1>7, <1>8
       DEF Next, vars, ShareGet, CommandFails, DeleteAbsent, Restart

(* Without clients that post no secret every header can be read and names   *)
(* each user with a session key encrypted for that user, even one whose     *)
(* count has wrapped.                                                       *)
THEOREM HeadersAlwaysSound == ASSUME "sync" \notin Clients PROVE Spec => []HeadersSound
  <1>1. Init => HeadersSound
    BY DEF Init, HeadersSound
  <1>2. TypeOK /\ HeadersSound /\ [Next]_vars => HeadersSound'
    BY HeadersSoundNext
  <1> QED
    BY <1>1, <1>2, StoreTypeCorrect, PTL DEF Spec

(* Without such clients each identifier in a header is followed by a session *)
(* key encrypted for that user.                                             *)
THEOREM SecretsAlwaysMatch == ASSUME "sync" \notin Clients PROVE Spec => []SecretsMatch
  <1>1. ASSUME TypeOK, HeadersSound PROVE SecretsMatch
    <2> SUFFICES ASSUME NEW k \in Keys, Readable(Settled(k)), NEW i \in 1 .. Settled(k).count
                 PROVE  \E s \in 1 .. MaxKeys :
                          PairsOf(Settled(k))[i] = Pair(PairsOf(Settled(k))[i].id, s)
      BY DEF SecretsMatch
    <2> DEFINE x == PairsOf(Settled(k))[i]
    <2>1. Settled(k) \notin {Nothing, EmptyFile}
      BY DEF Readable
    <2>2. Sound(Settled(k))
      BY <1>1, <2>1 DEF HeadersSound, Settled
    <2>3. x \in Pairs(made)
      BY <2>2 DEF Sound
    <2> HIDE DEF x
    <2>4. made \in 0 .. MaxKeys
      BY <1>1 DEF TypeOK
    <2>5. \E u \in Users, s \in 1 .. MaxKeys : x = Pair(u, s)
      BY <2>3, <2>4, StoreAssumption DEF Pairs
    <2>6. \A u, s : Pair(u, s).id = u
      BY DEF Pair
    <2>7. \E s \in 1 .. MaxKeys : x = Pair(x.id, s)
      BY <2>5, <2>6
    <2> QED
      BY <2>7 DEF x
  <1> QED
    BY <1>1, StoreTypeCorrect, HeadersAlwaysSound, PTL

-----------------------------------------------------------------------------
(* The handlers implement the owned store. *)

(* A sound file names only users. *)
LEMMA OwnersAreUsers ==
    ASSUME NEW f, Sound(f)
    PROVE  OwnersOf(f) \subseteq Users
  BY DEF Sound, OwnersOf, Pairs, Pair

(* Whom a post adds to a header. *)
LEMMA AddedAreUsers ==
    ASSUME NEW m \in Nat, NEW sh \in Seq(Pairs(m))
    PROVE  Ids(sh) \subseteq Users
  BY DEF Ids, Pairs, Pair

(* The file that a post with a secret writes on a key without a file is     *)
(* read back as the pairs and the payload of the post.                      *)
LEMMA NewFileRead ==
    ASSUME NEW m \in 0 .. MaxKeys, NEW u \in Users, NEW s \in 1 .. m,
           NEW sh \in Seq(Pairs(m)), NEW d \in Seq(Ciphers(m)), Len(sh) <= 1
    PROVE  /\ DataOf(NewFile(u, s, sh, d)) = d
           /\ OwnersOf(NewFile(u, s, sh, d)) = {u} \cup Ids(sh)
  <1> DEFINE one == <<Pair(u, s)>>
             p == one \o sh
             g == NewFile(u, s, sh, d)
  <1>1. m \in Nat
    BY StoreAssumption
  <1>2. /\ p \in PairSeqs(BlocksTo(m)) /\ Len(p) = 1 + Len(sh)
        /\ g = [count |-> Len(p) % CountMod, body |-> Flatten(p) \o d]
    BY <1>1, NewFileFacts
  <1>3. Len(p) < CountMod
    BY <1>2, StoreAssumption
  <1>4. one \in PairSeqs(BlocksTo(m))
    <2>1. Pair(u, s) \in PairSet(BlocksTo(m))
      BY <1>1, PairType
    <2> QED
      BY <2>1, FlattenOne
  <1>5. Ids(one) = {u}
    <2>1. Len(one) = 1 /\ one[1].id = u
      BY DEF Pair
    <2> QED
      BY <2>1 DEF Ids
  <1> HIDE DEF one
  <1>6. Ids(p) = {u} \cup Ids(sh)
    BY <1>1, <1>4, <1>5, PairsAreBlocks, IdsJoined
  <1> HIDE DEF p, g
  <1>7. g.count = Len(p) /\ PairsOf(g) = p /\ DataOf(g) = d
    BY <1>2, <1>3, LaidOutRead
  <1>8. OwnersOf(g) = Ids(p)
    BY <1>7, OwnersAreIds
  <1> QED
    BY <1>6, <1>7, <1>8 DEF g

(* What is known of a write in progress. *)
WriteOwned(old, file) ==
    /\ DataOf(file) \in Payloads
    /\ \E u \in Users, more \in SUBSET Users :
          IF old = Nothing
          THEN OwnersOf(file) = {u} \cup more
          ELSE /\ u \in OwnersOf(old)
               /\ OwnersOf(file) = OwnersOf(old) \cup more

(* A post with a secret prepares such a write. *)
LEMMA PostOwned ==
    ASSUME TypeOK, HeadersSound, BelowLimit, NEW u \in Users, NEW k \in Keys, NEW s \in 1 .. made,
           NEW sh \in Seq(Pairs(made)), NEW d \in Seq(Ciphers(made)), Len(sh) <= 1,
           d \in Payloads, Post(u, k, s, sh, d)
    PROVE  WriteOwned(pending'.old, pending'.file)
  <1>m. made \in 0 .. MaxKeys /\ made \in Nat
    BY StoreAssumption DEF TypeOK
  <1>1. Ids(sh) \in SUBSET Users
    BY <1>m, AddedAreUsers
  <1>2. CASE pending' = [key |-> k, phase |-> "remove", old |-> Nothing,
                         file |-> NewFile(u, s, sh, d)]
    <2>1. pending'.old = Nothing /\ pending'.file = NewFile(u, s, sh, d)
      BY <1>2
    <2>2. DataOf(pending'.file) = d /\ OwnersOf(pending'.file) = {u} \cup Ids(sh)
      BY <1>m, <2>1, NewFileRead
    <2> QED
      BY <1>1, <2>1, <2>2 DEF WriteOwned
  <1>3. CASE /\ Owns(u, disk[k])
             /\ pending' = [key |-> k, phase |-> "remove", old |-> disk[k],
                            file |-> Rewritten(disk[k], sh, d)]
    <2> DEFINE f == disk[k]
    <2>1. /\ Readable(f) /\ f \in Files(made) /\ u \in OwnersOf(f)
          /\ f # Nothing
      BY <1>3 DEF Owns, Readable, TypeOK
    <2>2. Settled(k) = f
      BY DEF Post, Idle, Settled
    <2>3. f.count < CountMod - 1
      BY <2>1, <2>2 DEF BelowLimit
    <2>4. pending'.old = f /\ pending'.file = Rewritten(f, sh, d)
      BY <1>3
    <2> HIDE DEF f
    <2>5. DataOf(pending'.file) = d /\ OwnersOf(pending'.file) = OwnersOf(f) \cup Ids(sh)
      BY <1>m, <2>1, <2>3, <2>4, RewrittenRead
    <2> QED
      BY <1>1, <2>1, <2>4, <2>5 DEF WriteOwned
  <1> QED
    BY <1>2, <1>3 DEF Post

(* The parts of what is known of payloads and writes. *)
LEMMA WritesOwnedParts ==
    WritesOwned <=>
      /\ \A k \in Keys : Readable(Settled(k)) => DataOf(Settled(k)) \in Payloads
      /\ \A u \in Users : session[u] # Nothing => session[u].data \in Payloads
      /\ pending # Nothing => WriteOwned(pending.old, pending.file)
  BY DEF WritesOwned, WriteOwned

(* What can be read after a step could be read before it, or is what a      *)
(* write in progress has left.                                              *)
LEMMA SettledStep ==
    ASSUME TypeOK, [Next]_vars, NEW k \in Keys
    PROVE  \/ Settled(k)' = Settled(k)
           \/ Settled(k)' \in {Nothing, EmptyFile}
           \/ pending # Nothing /\ k = pending.key /\ Settled(k)' = pending.file
  <1>1. CASE \/ Requests \/ RemoveOld \/ CreateEmpty
             \/ \E j \in Keys : DeleteAbsent(j)
             \/ Restart \/ UNCHANGED vars
    BY <1>1, SettledKept
  <1>2. CASE WriteFile
    <2>1. pending # Nothing
      BY <1>2 DEF WriteFile
    <2> QED
      BY <1>2, <2>1, SettledWrite
  <1>3. ASSUME NEW u \in Users, NEW j \in Keys, Delete(u, j)
        PROVE  Settled(k)' = Settled(k) \/ Settled(k)' \in {Nothing, EmptyFile}
    BY <1>3, SettledDelete
  <1>4. CASE Crash
    BY <1>4, SettledCrash
  <1> QED
    BY <1>1, <1>2, <1>3, <1>4 DEF Next, Requests

(* Every step keeps what is known of payloads and writes. *)
LEMMA WritesOwnedNext ==
    ASSUME "sync" \notin Clients, TypeOK, HeadersSound, BelowLimit, WritesOwned, [Next]_vars
    PROVE  WritesOwned'
  <1>m. made \in 0 .. MaxKeys /\ made \in Nat
    BY StoreAssumption DEF TypeOK
  <1>0. /\ \A k \in Keys : Readable(Settled(k)) => DataOf(Settled(k)) \in Payloads
        /\ \A u \in Users : session[u] # Nothing => session[u].data \in Payloads
        /\ pending # Nothing => WriteOwned(pending.old, pending.file)
    BY WritesOwnedParts
  <1>1. ASSUME NEW k \in Keys, Readable(Settled(k)') PROVE DataOf(Settled(k)') \in Payloads
    <2>1. Settled(k)' \notin {Nothing, EmptyFile}
      BY <1>1 DEF Readable
    <2>2. CASE Settled(k)' = Settled(k)
      BY <1>0, <1>1, <2>2
    <2>3. CASE pending # Nothing /\ Settled(k)' = pending.file
      BY <1>0, <2>3 DEF WriteOwned
    <2> QED
      BY <2>1, <2>2, <2>3, SettledStep
  <1>2. \A u \in Users : session'[u] # Nothing => session'[u].data \in Payloads
    <2>1. ASSUME NEW u \in Users, NEW k \in Keys, NEW text \in Texts, BackupGet(u, k, text)
          PROVE  \A v \in Users : session'[v] # Nothing => session'[v].data \in Payloads
      <3>1. PICK s \in 1 .. MaxKeys :
              session' = [session EXCEPT ![u] =
                  [key |-> k, s |-> s, shared |-> <<>>, data |-> Encrypt(s, text)]]
        BY <2>1 DEF BackupGet
      <3>2. Encrypt(s, text) \in Payloads
        <4>1. s \in 0 .. MaxKeys
          BY StoreAssumption
        <4> QED
          BY <4>1 DEF Payloads
      <3> QED
        BY <1>0, <3>1, <3>2 DEF TypeOK
    <2>2. ASSUME NEW u \in Users, NEW w \in Users, NEW k \in Keys, ShareGet(u, k, w)
          PROVE  \A v \in Users : session'[v] # Nothing => session'[v].data \in Payloads
      <3>1. PICK s \in 1 .. MaxKeys :
              session' = [session EXCEPT ![u] =
                  [key |-> k, s |-> s, shared |-> <<Pair(w, s)>>, data |-> DataOf(disk[k])]]
        BY <2>2 DEF ShareGet
      <3>2. DataOf(disk[k]) \in Payloads
        <4>1. Readable(disk[k]) /\ Settled(k) = disk[k]
          BY <2>2 DEF ShareGet, Idle, Owns, Settled
        <4> QED
          BY <1>0, <4>1
      <3> QED
        BY <1>0, <3>1, <3>2 DEF TypeOK
    <2>3. ASSUME NEW u \in Users, SecondRequest(u) \/ CommandFails(u)
          PROVE  \A v \in Users : session'[v] # Nothing => session'[v].data \in Payloads
      BY <1>0, <2>3 DEF SecondRequest, CommandFails, TypeOK
    <2>4. CASE UNCHANGED session
      BY <1>0, <2>4
    <2> QED
      BY <2>1, <2>2, <2>3, <2>4 DEF Next, vars, Sync, RemoveOld, CreateEmpty, WriteFile, Delete,
         DeleteAbsent, Crash, Restart
  <1>3. pending' # Nothing => WriteOwned(pending'.old, pending'.file)
    <2>1. ASSUME NEW u \in Users, SecondRequest(u)
          PROVE  WriteOwned(pending'.old, pending'.file)
      <3>1. session[u].data \in Payloads
        BY <1>0, <2>1 DEF SecondRequest
      <3> QED
        BY <2>1, <3>1, SecondRequestPosts, PostOwned
    <2>2. CASE RemoveOld \/ CreateEmpty
      <3>1. /\ pending # Nothing /\ pending \in Writes(made)
            /\ \/ pending' = [pending EXCEPT !.phase = "create"]
               \/ pending' = [pending EXCEPT !.phase = "write"]
        BY <2>2 DEF RemoveOld, CreateEmpty, TypeOK
      <3>2. pending'.old = pending.old /\ pending'.file = pending.file
        BY <3>1 DEF Writes
      <3> QED
        BY <1>0, <3>1, <3>2
    <2>3. CASE WriteFile \/ Crash
      BY <2>3 DEF WriteFile, Crash
    <2>4. CASE UNCHANGED pending
      BY <1>0, <2>4
    <2>5. ASSUME NEW u \in Users, NEW k \in Keys, NEW text \in Texts, Sync(u, k, text) PROVE FALSE
      BY <2>5 DEF Sync
    <2> QED
      BY <2>1, <2>2, <2>3, <2>4, <2>5
         DEF Next, vars, BackupGet, ShareGet, CommandFails, Delete, DeleteAbsent, Restart
  <1> QED
    BY <1>1, <1>2, <1>3 DEF WritesOwned, WriteOwned

(* While no client posts without a secret and no header is at the limit of  *)
(* its count, every payload is one that a client encrypted, and a write in  *)
(* progress was begun by a user that may begin it and takes no user away.   *)
THEOREM WritesAlwaysOwned ==
    ASSUME "sync" \notin Clients PROVE Spec /\ []BelowLimit => []WritesOwned
  <1>1. Init => WritesOwned
    BY DEF Init, WritesOwned, Settled, Readable
  <1>2. TypeOK /\ HeadersSound /\ BelowLimit /\ WritesOwned /\ [Next]_vars => WritesOwned'
    BY WritesOwnedNext
  <1> QED
    BY <1>1, <1>2, StoreTypeCorrect, HeadersAlwaysSound, PTL DEF Spec

(* The state of the abstract store. *)
Store == [k \in Keys |-> Resource(Settled(k))]

(* What is behind a file that can be read, and behind what is no such file. *)
LEMMA ResourceFacts ==
    /\ Resource(Nothing) = Nothing /\ Resource(EmptyFile) = EmptyFile
    /\ \A f : Readable(f) => Resource(f) = [owners |-> OwnersOf(f), data |-> DataOf(f)]
    /\ \A f : Sound(f) /\ DataOf(f) \in Payloads => Resource(f) \notin {Nothing, EmptyFile}
  <1>1. Resource(Nothing) = Nothing /\ Resource(EmptyFile) = EmptyFile
    BY BlankAssumption DEF Resource, Readable
  <1>2. ASSUME NEW f, Readable(f)
        PROVE  Resource(f) = [owners |-> OwnersOf(f), data |-> DataOf(f)]
    BY <1>2 DEF Resource, Readable
  <1>3. ASSUME NEW f, Sound(f), DataOf(f) \in Payloads
        PROVE  Resource(f) \notin {Nothing, EmptyFile}
    <2>1. OwnersOf(f) \in SUBSET Users /\ Readable(f)
      BY <1>3, OwnersAreUsers DEF Sound
    <2>2. [owners |-> OwnersOf(f), data |-> DataOf(f)] \in Resources
      BY <1>3, <2>1 DEF Resources
    <2> QED
      BY <1>2, <2>1, <2>2, BlankAssumption
  <1> QED
    BY <1>1, <1>2, <1>3

(* One key gets another file. *)
LEMMA StoreExcept ==
    ASSUME NEW k \in Keys, \A j \in Keys : j # k => Settled(j)' = Settled(j)
    PROVE  Store' = [Store EXCEPT ![k] = Resource(Settled(k)')]
  <1>1. \A f, g : f = g => Resource(f) = Resource(g)
    OBVIOUS
  <1>2. Store' = [j \in Keys |-> Resource(Settled(j)')]
    BY DEF Store, Resource, Readable, OwnersOf, PairsOf, DataOf
  <1>3. \A j \in Keys : j # k => Resource(Settled(j)') = Store[j]
    BY <1>1 DEF Store
  <1>4. Store = [j \in Keys |-> Store[j]]
    BY DEF Store
  <1> QED
    BY <1>2, <1>3, <1>4

(* No key gets another file. *)
LEMMA StoreKept ==
    ASSUME \A j \in Keys : Settled(j)' = Settled(j)
    PROVE  Store' = Store
  <1>1. \A f, g : f = g => Resource(f) = Resource(g)
    OBVIOUS
  <1>2. Store' = [j \in Keys |-> Resource(Settled(j)')]
    BY DEF Store, Resource, Readable, OwnersOf, PairsOf, DataOf
  <1>3. \A j \in Keys : Resource(Settled(j)') = Resource(Settled(j))
    BY <1>1
  <1> QED
    BY <1>2, <1>3 DEF Store

(* The last step of a write creates a resource, or replaces one.            *)
LEMMA WriteImplements ==
    ASSUME TypeOK, HeadersSound, WritesOwned, WriteFile
    PROVE  \E k \in Keys, u \in Users, more \in SUBSET Users, d \in Payloads :
              Abstract!Create(k, u, more, d) \/ Abstract!Replace(k, u, more, d)
  <1>1. PICK k \in Keys : /\ Settled(k) = pending.old /\ Settled(k)' = pending.file
                          /\ \A j \in Keys : j # k => Settled(j)' = Settled(j)
    BY SettledWrite
  <1> DEFINE old == pending.old
             file == pending.file
  <1>2. /\ running /\ running' = running
        /\ Sound(file) /\ (old # Nothing => Sound(old))
        /\ WriteOwned(old, file)
        /\ Readable(old) => DataOf(old) \in Payloads
    <2>1. pending # Nothing /\ running' = running /\ running
      BY DEF WriteFile, TypeOK
    <2> QED
      BY <1>1, <2>1, WritesOwnedParts DEF HeadersSound
  <1>3. Store' = [Store EXCEPT ![k] = Resource(Settled(k)')] /\ Resource(Settled(k)') = Resource(file)
    BY <1>1, StoreExcept
  <1>4. Store[k] = Resource(old)
    BY <1>1 DEF Store
  <1> HIDE DEF old, file
  <1>5. Resource(file) = [owners |-> OwnersOf(file), data |-> DataOf(file)]
    BY <1>2, ResourceFacts DEF Sound
  <1>6. PICK u \in Users, more \in SUBSET Users :
          IF old = Nothing
          THEN OwnersOf(file) = {u} \cup more
          ELSE /\ u \in OwnersOf(old)
               /\ OwnersOf(file) = OwnersOf(old) \cup more
    BY <1>2 DEF WriteOwned
  <1>7. DataOf(file) \in Payloads
    BY <1>2 DEF WriteOwned
  <1>8. CASE old = Nothing
    <2>1. Store[k] = Nothing
      BY <1>4, <1>8, ResourceFacts
    <2>2. Store' = [Store EXCEPT ![k] = [owners |-> {u} \cup more, data |-> DataOf(file)]]
      BY <1>3, <1>5, <1>6, <1>8
    <2>3. Abstract!Create(k, u, more, DataOf(file))
      BY <1>2, <2>1, <2>2 DEF Abstract!Create, Store
    <2> QED
      BY <1>7, <2>3
  <1>9. CASE old # Nothing
    <2>1. Resource(old) = [owners |-> OwnersOf(old), data |-> DataOf(old)]
      BY <1>2, <1>9, ResourceFacts DEF Sound
    <2>2. Store[k] \notin {Nothing, EmptyFile} /\ Store[k].owners = OwnersOf(old)
      <3>1. Resource(old) \notin {Nothing, EmptyFile}
        BY <1>2, <1>9, ResourceFacts DEF Sound
      <3> QED
        BY <1>4, <2>1, <3>1
    <2>3. u \in Store[k].owners
      BY <1>6, <1>9, <2>2
    <2>4. Store' = [Store EXCEPT ![k] = [owners |-> Store[k].owners \cup more,
                                         data |-> DataOf(file)]]
      BY <1>3, <1>5, <1>6, <1>9, <2>2
    <2>5. Abstract!Replace(k, u, more, DataOf(file))
      BY <1>2, <2>2, <2>3, <2>4 DEF Abstract!Replace, Abstract!Usable, Store
    <2> QED
      BY <1>7, <2>5
  <1> QED
    BY <1>8, <1>9

(* A delete removes a resource. *)
LEMMA DeleteImplements ==
    ASSUME TypeOK, HeadersSound, WritesOwned, NEW u \in Users, NEW k \in Keys, Delete(u, k)
    PROVE  Abstract!Remove(k, u)
  <1>1. /\ Settled(k) = disk[k] /\ Settled(k)' = Nothing
        /\ \A j \in Keys : j # k => Settled(j)' = Settled(j)
    BY SettledDelete
  <1> DEFINE f == disk[k]
  <1>2. /\ running /\ running' = running
        /\ Readable(f) /\ u \in OwnersOf(f) /\ Sound(f) /\ DataOf(f) \in Payloads
    <2>1. running /\ running' = running /\ Readable(f) /\ u \in OwnersOf(f)
      BY DEF Delete, Idle, Owns
    <2>2. Sound(f)
      BY <2>1 DEF HeadersSound, Readable
    <2>3. DataOf(f) \in Payloads
      BY <1>1, <2>1, WritesOwnedParts
    <2> QED
      BY <2>1, <2>2, <2>3
  <1>3. Store' = [Store EXCEPT ![k] = Nothing]
    BY <1>1, StoreExcept, ResourceFacts
  <1>4. Store[k] = Resource(f)
    BY <1>1 DEF Store
  <1> HIDE DEF f
  <1>5. Store[k] \notin {Nothing, EmptyFile} /\ u \in Store[k].owners
    BY <1>2, <1>4, ResourceFacts
  <1> QED
    BY <1>2, <1>3, <1>5 DEF Abstract!Remove, Abstract!Usable, Store

(* A process that ends loses what it was writing, at most. *)
LEMMA DownImplements ==
    ASSUME TypeOK, Crash \/ \E k \in Keys : DeleteAbsent(k)
    PROVE  Abstract!GoDown
  <1>1. running /\ running' = FALSE
    BY DEF Crash, DeleteAbsent, Idle
  <1>2. CASE \A j \in Keys : Settled(j)' = Settled(j)
    <2>1. Store' = Store
      BY <1>2, StoreKept
    <2> QED
      BY <1>1, <2>1 DEF Abstract!GoDown, Store
  <1>3. ASSUME NEW k \in Keys, Settled(k)' \in {Nothing, EmptyFile},
               \A j \in Keys : j # k => Settled(j)' = Settled(j)
        PROVE  Abstract!GoDown
    <2>1. Store' = [Store EXCEPT ![k] = Resource(Settled(k)')]
      BY <1>3, StoreExcept
    <2>2. Resource(Settled(k)') \in {Nothing, EmptyFile}
      BY <1>3, ResourceFacts
    <2>3. PICK left \in {Nothing, EmptyFile} : Store' = [Store EXCEPT ![k] = left]
      BY <2>1, <2>2
    <2> QED
      BY <1>1, <2>3 DEF Abstract!GoDown, Store
  <1> QED
    BY <1>2, <1>3, SettledKept, SettledCrash

(* Every step of the handlers is a step of the abstract store or none.      *)
LEMMA StepImplements ==
    ASSUME TypeOK, HeadersSound, WritesOwned, [Next]_vars
    PROVE  Abstract!Next \/ (Store' = Store /\ running' = running)
  <1>1. CASE Requests \/ RemoveOld \/ CreateEmpty \/ UNCHANGED vars
    <2>1. Store' = Store
      BY <1>1, SettledKept, StoreKept
    <2>2. running' = running
      BY <1>1 DEF Requests, Sync, Post, BackupGet, ShareGet, SecondRequest, CommandFails,
         RemoveOld, CreateEmpty, vars
    <2> QED
      BY <2>1, <2>2
  <1>2. CASE WriteFile
    BY <1>2, WriteImplements DEF Abstract!Next
  <1>3. ASSUME NEW u \in Users, NEW k \in Keys, Delete(u, k) PROVE Abstract!Next
    BY <1>3, DeleteImplements DEF Abstract!Next
  <1>4. CASE Crash \/ \E k \in Keys : DeleteAbsent(k)
    BY <1>4, DownImplements DEF Abstract!Next
  <1>5. CASE Restart
    <2>1. Store' = Store
      BY <1>5, SettledKept, StoreKept
    <2>2. Abstract!ComeUp
      BY <1>5, <2>1 DEF Restart, Abstract!ComeUp, Store
    <2> QED
      BY <2>2 DEF Abstract!Next
  <1> QED
    BY <1>1, <1>2, <1>3, <1>4, <1>5 DEF Next, Requests

(* While no client posts without a secret and no header is at the limit of  *)
(* its count, the handlers implement the owned store: only a user in the    *)
(* header replaces or removes a resource, what a post carried is what is    *)
(* read back, nobody is taken out of a header, and a process that ends in   *)
(* the middle of a write leaves the old file, none, or one that is empty.   *)
THEOREM HandlersImplementStore ==
    ASSUME "sync" \notin Clients PROVE Spec /\ []BelowLimit => ImplementsStore
  <1>1. Init => Abstract!Init
    BY ResourceFacts DEF Init, Abstract!Init, Settled
  <1>2. TypeOK /\ HeadersSound /\ WritesOwned /\ [Next]_vars
          => [Abstract!Next]_<<[k \in Keys |-> Resource(Settled(k))], running>>
    BY StepImplements DEF Store
  <1> QED
    BY <1>1, <1>2, StoreTypeCorrect, HeadersAlwaysSound, WritesAlwaysOwned, PTL
       DEF Spec, ImplementsStore, Abstract!Spec
=============================================================================
