---------------------------- MODULE StoreProofs ----------------------------
(***************************************************************************)
(* Store.tla keeps every key in a file of its own, lists no hash and finds *)
(* no bundle that is not there, for any keys, names, types and bytes, any  *)
(* order of the keys and any number of stops and misreadings.              *)
(***************************************************************************)
EXTENDS Store, SequenceTheorems, TLAPS

Item == [safe : Safes, typ : Types, hash : Seq(Pieces) \union {NoHash}]

\* operations on items of some kind
Ops(kind) ==
  [key : Keys, item : kind, data : Contents, extend : BOOLEAN,
   read : SUBSET Keys, listed : BOOLEAN]

Typed ==
  /\ DOMAIN index \subseteq Keys
  /\ \A k \in DOMAIN index : index[k] \in Item
  /\ \A p \in DOMAIN files : files[p] \in Seq(Pieces)
  /\ step \in {"idle", "bytes", "index", "note", "dropIndex", "forget"}
  /\ step # "idle" =>
       op \in Ops(Item)

Apart(f) == \A j, k \in DOMAIN f : j # k => f[j].safe # f[k].safe

\* what is written goes under a name that nobody else it read has, and nobody who
\* is not in doubt
OpApart ==
  /\ step \in {"bytes", "index"} =>
       \A j \in DOMAIN index :
         j # op.key /\ (j \in op.read \/ j \notin torn) => index[j].safe # op.item.safe
  /\ step \in {"bytes", "index", "dropIndex"} => op.read \subseteq DOMAIN index
  /\ step = "note" => op.key \in DOMAIN index /\ index[op.key] = op.item
  /\ step = "forget" => op.key \notin DOMAIN index

Filing == Typed /\ Apart(index) /\ OpApart /\ NewStartsEmpty

HashHolds(it) ==
  PathOf(it) \in DOMAIN files /\ it.hash \in {NoHash, files[PathOf(it)]}

\* the key whose record and file are not in step just now
Underway(k) == step \in {"bytes", "index", "dropIndex"} /\ k = op.key

HashesHold ==
  /\ \A k \in DOMAIN index \ torn : Underway(k) \/ HashHolds(index[k])
  /\ step \in {"index", "note"} => HashHolds(op.item)

Agrees(k) ==
  IF k \in DOMAIN index /\ IsBundle(k, index[k])
  THEN k \in DOMAIN Bundled /\ Bundled[k] = BundleOf[<<k, Bytes(index[k])>>]
  ELSE k \notin DOMAIN Bundled

BundlesHold == \A k \in Keys \ torn : (step # "idle" /\ k = op.key) \/ Agrees(k)

-----------------------------------------------------------------------------
(* What the operators do *)

\* Every line left of a file that was being rewritten is a line of it, and no
\* line is left twice.
LEMMA LeftOf ==
  ASSUME NEW f, NEW n, NEW cut, NEW k \in DOMAIN Left(f, n, cut)
  PROVE  \E j \in DOMAIN f : /\ Left(f, n, cut)[k] = f[j]
                             /\ k = cut \/ (j = k /\ Rank[j] < n)
  BY DEF Left

LEMMA LeftApart ==
  ASSUME NEW f, NEW n \in Nat, NEW cut, DOMAIN f \subseteq Keys, Apart(f)
  PROVE  Apart(Left(f, n, cut))
  BY StoreAssumption DEF Left, Apart

\* A key that reads as before has the record it had.
LEMMA SameWhereNotDiffer ==
  ASSUME NEW f, NEW g, NEW k \in DOMAIN g, k \notin Differ(f, g)
  PROVE  k \in DOMAIN f /\ g[k] = f[k]
  BY DEF Differ

\* A put's bytes are its data.
LEMMA WholeData ==
  ASSUME NEW d \in Contents
  PROVE  /\ d \in Seq(Pieces) /\ << >> \o SubSeq(d, 1, Len(d)) = d
  <1>1. d \in Seq(Pieces)
    BY StoreAssumption, SeqDef DEF Contents
  <1>2. << >> \o SubSeq(d, 1, Len(d)) = d
    BY <1>1
  <1> QED
    BY <1>1, <1>2

LEMMA NothingIsContent == << >> \in Contents
  <1>1. << >> \in [1..0 -> Pieces]
    OBVIOUS
  <1>2. 0 \in 0..MaxPieces
    BY StoreAssumption
  <1> QED
    BY <1>1, <1>2 DEF Contents

-----------------------------------------------------------------------------
(* Names *)

\* What an operation reads of the index is of it.
LEMMA ReadingsAreKeys ==
  ASSUME NEW read \in Readings
  PROVE  read \subseteq DOMAIN index
  BY DEF Readings

\* What a write does before it reaches the bytes.
LEMMA WriteBegins ==
  ASSUME Filing, NEW k \in Keys, NEW t \in Types, NEW data \in Contents, NEW extend \in BOOLEAN,
         Write(k, t, data, extend)
  PROVE  /\ step = "idle" /\ step' = "bytes" /\ UNCHANGED <<index, bundles, indexed>>
         /\ op' \in Ops(Item) /\ op'.key = k /\ op'.read \subseteq DOMAIN index
         /\ torn \subseteq torn'
         /\ \A j \in DOMAIN index :
              j # k /\ (j \in op'.read \/ j \notin torn') => index[j].safe # op'.item.safe
         /\ UNCHANGED files \/ (k \in DOMAIN index /\ files' = Less(files, PathOf(index[k])))
         /\ k \notin op'.read /\ op'.listed => PathOf(op'.item) \notin DOMAIN files'
  <1>1. CASE WriteNew(k, t, data, extend)
    <2>1. PICK read \in Readings, listed \in BOOLEAN, s \in Safes :
            /\ k \notin read /\ UNCHANGED files /\ s \notin Taken(read, listed)
            /\ Begins(k, [safe |-> s, typ |-> t, hash |-> NoHash], data, extend, read, listed, TRUE)
      BY <1>1 DEF WriteNew
    <2>2. read \subseteq DOMAIN index /\ read \in SUBSET Keys
      BY <2>1, ReadingsAreKeys DEF Filing, Typed
    <2>3. listed => <<s, t>> \notin DOMAIN files
      BY <2>1 DEF Taken
    <2>4. \A j \in read : index[j].safe # s
      BY <2>1 DEF Taken
    <2>5. [safe |-> s, typ |-> t, hash |-> NoHash] \in Item
      BY DEF Item
    <2> QED
      BY <2>1, <2>2, <2>3, <2>4, <2>5 DEF Begins, Ops, PathOf
  <1>2. CASE WriteHeld(k, t, data, extend)
    <2>1. PICK read \in Readings :
            k \in read /\ UNCHANGED files /\ Begins(k, index[k], data, extend, read, TRUE, TRUE)
      BY <1>2 DEF WriteHeld
    <2>2. read \subseteq DOMAIN index /\ read \in SUBSET Keys
      BY <2>1, ReadingsAreKeys DEF Filing, Typed
    <2> QED
      BY <2>1, <2>2 DEF Begins, Ops, Filing, Typed, Apart
  <1>3. CASE WriteRetyped(k, t, data) /\ ~extend
    <2>1. PICK read \in Readings, removed \in BOOLEAN :
            /\ k \in read
            /\ Begins(k, [index[k] EXCEPT !.typ = t], data, FALSE, read, TRUE, removed)
            /\ files' = IF removed THEN Less(files, PathOf(index[k])) ELSE files
      BY <1>3 DEF WriteRetyped
    <2>2. read \subseteq DOMAIN index /\ read \in SUBSET Keys
      BY <2>1, ReadingsAreKeys DEF Filing, Typed
    <2>3. /\ [index[k] EXCEPT !.typ = t] \in Item
          /\ [index[k] EXCEPT !.typ = t].safe = index[k].safe
      BY <2>1, <2>2 DEF Filing, Typed, Item
    <2> QED
      BY <2>1, <2>2, <2>3 DEF Begins, Ops, Filing, Typed, Apart
  <1> QED
    BY <1>1, <1>2, <1>3 DEF Write

LEMMA WriteFiling ==
  ASSUME Filing, NEW k \in Keys, NEW t \in Types, NEW data \in Contents, NEW extend \in BOOLEAN,
         Write(k, t, data, extend)
  PROVE  Filing'
  <1>1. \A p \in DOMAIN files' : p \in DOMAIN files /\ files'[p] = files[p]
    BY WriteBegins DEF Less, Restrict
  <1> QED
    BY <1>1, WriteBegins DEF Filing, Typed, Apart, OpApart, NewStartsEmpty

\* What is written into a file is a sequence of pieces.
LEMMA WrittenIs ==
  ASSUME Filing, step # "idle", NEW n \in 0..Len(op.data)
  PROVE  /\ DOMAIN Written(n) = DOMAIN files \union {PathOf(op.item)}
         /\ Written(n)[PathOf(op.item)] \in Seq(Pieces)
         /\ \A p \in DOMAIN files : p # PathOf(op.item) => Written(n)[p] = files[p]
         /\ \A p \in DOMAIN Written(n) : Written(n)[p] \in Seq(Pieces)
  <1>1. op.data \in Seq(Pieces)
    BY WholeData DEF Filing, Typed, Ops
  <1>2. SubSeq(op.data, 1, n) \in Seq(Pieces)
    BY <1>1
  <1>3. Bytes(op.item) \in Seq(Pieces)
    BY DEF Filing, Typed, Bytes
  <1>4. (IF op.extend THEN Bytes(op.item) ELSE << >>) \o SubSeq(op.data, 1, n) \in Seq(Pieces)
    BY <1>2, <1>3
  <1> QED
    BY <1>4 DEF Written, With, Filing, Typed

LEMMA BytesFiling ==
  ASSUME Filing, WriteBytes \/ WriteBytesStops
  PROVE  Filing'
  <1>1. CASE WriteBytes
    <2>1. Len(op.data) \in 0..Len(op.data)
      BY <1>1, WholeData DEF WriteBytes, Filing, Typed
    <2>2. op.item.hash \in Seq(Pieces) \union {NoHash} /\ op.data \in Seq(Pieces)
      BY <1>1, WholeData DEF WriteBytes, Filing, Typed, Item, Ops
    <2>3. Hashed(op.data, op.extend, op.item) \in Seq(Pieces) \union {NoHash}
      BY <2>2 DEF Hashed
    <2>4. /\ op' \in Ops(Item) /\ op'.read = op.read
          /\ op'.key = op.key /\ op'.item.safe = op.item.safe
      BY <1>1, <2>3 DEF WriteBytes, Filing, Typed, Item, Ops
    <2>5. \A p \in DOMAIN files' : files'[p] \in Seq(Pieces)
      BY <1>1, <2>1, WrittenIs DEF WriteBytes
    <2> QED
      BY <1>1, <2>4, <2>5 DEF WriteBytes, Filing, Typed, Apart, OpApart, NewStartsEmpty
  <1>2. CASE WriteBytesStops
    <2>1. \A p \in DOMAIN files' : files'[p] \in Seq(Pieces)
      BY <1>2, WrittenIs DEF WriteBytesStops, Filing, Typed
    <2> QED
      BY <1>2, <2>1 DEF WriteBytesStops, Stopped, Filing, Typed, Apart, OpApart, NewStartsEmpty
  <1> QED
    BY <1>1, <1>2

\* An index that was being rewritten is filed as the whole one is.
LEMMA IndexStopsFiling ==
  ASSUME Filing, NEW whole, DOMAIN whole \subseteq Keys,
         \A k \in DOMAIN whole : whole[k] \in Item, Apart(whole),
         IndexStops(whole), step' = "idle"
  PROVE  Filing'
  <1>1. CASE UNCHANGED index
    BY <1>1 DEF IndexStops, Filing, Typed, OpApart, NewStartsEmpty, Apart
  <1>2. CASE \E n \in 0..Cardinality(Keys), cut \in Keys : index' = Left(whole, n, cut)
    <2>1. PICK n \in 0..Cardinality(Keys), cut \in Keys : index' = Left(whole, n, cut)
      BY <1>2
    <2>2. n \in Nat
      OBVIOUS
    <2>3. Apart(index')
      BY <2>1, <2>2, LeftApart
    <2>4. \A k \in DOMAIN index' : index'[k] \in Item /\ k \in Keys
      BY <2>1, LeftOf
    <2> QED
      BY <2>3, <2>4 DEF IndexStops, Filing, Typed, OpApart, NewStartsEmpty, Apart
  <1> QED
    BY <1>1, <1>2 DEF IndexStops

\* The index as an operation means to write it.
LEMMA IndexOfFiling ==
  ASSUME Filing, step = "index"
  PROVE  /\ DOMAIN IndexOf \subseteq Keys /\ Apart(IndexOf)
         /\ \A k \in DOMAIN IndexOf : IndexOf[k] \in Item
         /\ op.key \in DOMAIN IndexOf /\ IndexOf[op.key] = op.item
         /\ \A k \in DOMAIN IndexOf \ {op.key} : k \in DOMAIN index /\ IndexOf[k] = index[k]
  BY DEF Filing, Typed, Apart, OpApart, IndexOf, With, Restrict, Ops

LEMMA DroppedFiling ==
  ASSUME Filing, step = "dropIndex"
  PROVE  /\ DOMAIN Without \subseteq DOMAIN index \ {op.key} /\ Apart(Without)
         /\ \A j \in DOMAIN Without : Without[j] = index[j]
  BY DEF Filing, Apart, OpApart, Without, Less, Restrict

LEMMA FilledFiling ==
  ASSUME Filing, NEW asked, NEW read \in Readings
  PROVE  /\ DOMAIN Filled(read, asked) = read /\ Apart(Filled(read, asked))
         /\ read \subseteq DOMAIN index
         /\ \A k \in read :
              /\ Filled(read, asked)[k] \in Item
              /\ Filled(read, asked)[k].safe = index[k].safe /\ Filled(read, asked)[k].typ = index[k].typ
              /\ \/ Filled(read, asked)[k] = index[k]
                 \/ /\ PathOf(index[k]) \in DOMAIN files
                    /\ Filled(read, asked)[k].hash = files[PathOf(index[k])]
  <1>1. DOMAIN Filled(read, asked) = read /\ read \subseteq DOMAIN index
    BY ReadingsAreKeys DEF Filled
  <1>2. ASSUME NEW k \in read
        PROVE  /\ Filled(read, asked)[k] \in Item
               /\ Filled(read, asked)[k].safe = index[k].safe /\ Filled(read, asked)[k].typ = index[k].typ
               /\ \/ Filled(read, asked)[k] = index[k]
                  \/ /\ PathOf(index[k]) \in DOMAIN files
                     /\ Filled(read, asked)[k].hash = files[PathOf(index[k])]
    <2>1. index[k] \in Item
      BY <1>1 DEF Filing, Typed
    <2>2. CASE k \in asked /\ index[k].hash = NoHash /\ PathOf(index[k]) \in DOMAIN files
      <3>1. files[PathOf(index[k])] \in Seq(Pieces)
        BY <2>2 DEF Filing, Typed
      <3>2. Filled(read, asked)[k] = [index[k] EXCEPT !.hash = files[PathOf(index[k])]]
        BY <2>2 DEF Filled
      <3> QED
        BY <2>1, <2>2, <3>1, <3>2 DEF Item
    <2>3. CASE ~(k \in asked /\ index[k].hash = NoHash /\ PathOf(index[k]) \in DOMAIN files)
      BY <2>1, <2>3 DEF Filled
    <2> QED
      BY <2>2, <2>3
  <1> QED
    BY <1>1, <1>2 DEF Filing, Apart

\* Every step keeps keys and names apart.
LEMMA FilingStep ==
  ASSUME Filing, [Next]_vars
  PROVE  Filing'
  <1> USE DEF Filing, Typed, OpApart, NewStartsEmpty
  <1>1. ASSUME NEW k \in Keys, NEW t \in Types, NEW data \in Contents, NEW extend \in BOOLEAN,
               Write(k, t, data, extend)
        PROVE  Filing'
    BY <1>1, WriteFiling
  <1>2. ASSUME NEW k \in Keys, Drop(k) PROVE Filing'
    <2>1. \A p \in DOMAIN files' : files'[p] \in Seq(Pieces)
      BY <1>2 DEF Drop, Less, Restrict
    <2>2. op' \in Ops(Item) /\ op'.read \subseteq DOMAIN index
      BY <1>2, NothingIsContent, ReadingsAreKeys DEF Drop, Ops
    <2> QED
      BY <1>2, <2>1, <2>2 DEF Drop, Apart
  <1>3. ASSUME NEW read \in Readings, NEW asked \in SUBSET Keys, List(read, asked) PROVE Filing'
    <2>1. step = "idle" /\ step' = "idle" /\ index' = Filled(read, asked) /\ UNCHANGED files
      BY <1>3 DEF List, Fills
    <2> QED
      BY <2>1, FilledFiling DEF Apart
  <1>4. ASSUME NEW read \in Readings, NEW asked \in SUBSET Keys, ListStops(read, asked) PROVE Filing'
    BY <1>4, FilledFiling, IndexStopsFiling DEF ListStops, Stopped
  <1>5. CASE WriteBytes \/ WriteBytesStops
    BY <1>5, BytesFiling
  <1>6. CASE WriteIndex
    BY <1>6, IndexOfFiling DEF WriteIndex, Apart
  <1>7. CASE WriteIndexStops
    BY <1>7, IndexOfFiling, IndexStopsFiling DEF WriteIndexStops, Stopped
  <1>8. CASE NoteBundle
    BY <1>8 DEF NoteBundle, Apart
  <1>9. CASE NoteBundleStops \/ ForgetBundleStops
    <2>1. UNCHANGED <<index, files>> /\ step' = "idle"
      BY <1>9 DEF NoteBundleStops, ForgetBundleStops, BundlesStop, Stopped
    <2> QED
      BY <2>1 DEF Apart
  <1>10. CASE DropIndex
    BY <1>10, DroppedFiling DEF DropIndex
  <1>11. CASE DropIndexStops
    BY <1>11, DroppedFiling, IndexStopsFiling DEF DropIndexStops, Stopped
  <1>12. CASE ForgetBundle
    BY <1>12 DEF ForgetBundle, Apart
  <1>13. CASE UNCHANGED vars
    BY <1>13 DEF vars, Apart
  <1> QED
    BY <1>1, <1>2, <1>3, <1>4, <1>5, <1>6, <1>7, <1>8, <1>9, <1>10, <1>11, <1>12, <1>13 DEF Next

LEMMA FilingInit == Init => Filing
  BY DEF Init, Filing, Typed, Apart, OpApart, NewStartsEmpty

\* No two keys are filed under one name, whatever stopped half-way or was
\* misread.
THEOREM OneFileEachAlways == Spec => []OneFileEach
  <1>1. Filing /\ [Next]_vars => Filing'
    BY FilingStep
  <1>2. Filing => OneFileEach
    BY DEF Filing, Apart, OneFileEach
  <1> QED
    BY <1>1, <1>2, FilingInit, PTL DEF Spec

\* A key that held nothing is filed where there is no file, whatever was left
\* behind, if the directory could be listed.
THEOREM NewStartsEmptyAlways == Spec => []NewStartsEmpty
  <1>1. Filing /\ [Next]_vars => Filing'
    BY FilingStep
  <1>2. Filing => NewStartsEmpty
    BY DEF Filing, Apart, OneFileEach
  <1> QED
    BY <1>1, <1>2, FilingInit, PTL DEF Spec

-----------------------------------------------------------------------------
(* Hashes *)

\* What is so of an item stays so while its file and its record do.
LEMMA HashStays ==
  ASSUME NEW k \in DOMAIN index, HashHolds(index[k]), k \in DOMAIN index', index'[k] = index[k],
         PathOf(index[k]) \in DOMAIN files =>
           /\ PathOf(index[k]) \in DOMAIN files'
           /\ files'[PathOf(index[k])] = files[PathOf(index[k])]
  PROVE  HashHolds(index[k])'
  BY DEF HashHolds, PathOf

\* The item an operation has written has the hash of its file.
LEMMA HashWritten ==
  ASSUME Filing, WriteBytes
  PROVE  HashHolds(op.item)' /\ op'.key = op.key /\ op'.item.safe = op.item.safe
  <1>1. op \in Ops(Item)
    BY DEF Filing, Typed, WriteBytes
  <1>2. /\ op'.item.hash = Hashed(op.data, op.extend, op.item)
        /\ op'.key = op.key /\ op'.item.safe = op.item.safe /\ op'.item.typ = op.item.typ
    BY <1>1 DEF WriteBytes, Item, Ops
  <1>3. PathOf(op.item) \in DOMAIN files' /\ PathOf(op'.item) = PathOf(op.item)
    BY <1>2 DEF WriteBytes, Written, With, PathOf
  <1>4. CASE op.extend
    BY <1>2, <1>3, <1>4 DEF Hashed, HashHolds, PathOf
  <1>5. CASE ~op.extend
    <2>1. << >> \o SubSeq(op.data, 1, Len(op.data)) = op.data
      BY <1>1, WholeData DEF Ops
    <2>2. files'[PathOf(op.item)] = op.data
      BY <1>5, <2>1 DEF WriteBytes, Written, With
    <2> QED
      BY <1>2, <1>3, <1>5, <2>2 DEF Hashed, HashHolds, PathOf
  <1> QED
    BY <1>2, <1>4, <1>5

\* The files of all keys but the operation's are what they were.
LEMMA OthersBytes ==
  ASSUME Filing, NEW j \in DOMAIN index,
         \/ \E n \in 0..Len(op.data) : files' = Written(n) /\ step = "bytes" /\ j \notin torn \union {op.key}
         \/ \E k \in DOMAIN index \ {j} : files' = Less(files, PathOf(index[k]))
         \/ UNCHANGED files
  PROVE  /\ PathOf(index[j]) \in DOMAIN files' <=> PathOf(index[j]) \in DOMAIN files
         /\ PathOf(index[j]) \in DOMAIN files => files'[PathOf(index[j])] = files[PathOf(index[j])]
  <1>1. CASE \E n \in 0..Len(op.data) : files' = Written(n) /\ step = "bytes" /\ j \notin torn \union {op.key}
    <2>1. PICK n \in 0..Len(op.data) : files' = Written(n) /\ step = "bytes" /\ j \notin torn \union {op.key}
      BY <1>1
    <2>2. PathOf(index[j]) # PathOf(op.item)
      BY <2>1 DEF Filing, OpApart, PathOf
    <2> QED
      BY <2>1, <2>2, WrittenIs DEF Filing, Typed
  <1>2. CASE \E k \in DOMAIN index \ {j} : files' = Less(files, PathOf(index[k]))
    <2>1. PICK k \in DOMAIN index \ {j} : files' = Less(files, PathOf(index[k]))
      BY <1>2
    <2>2. PathOf(index[j]) # PathOf(index[k])
      BY <2>1 DEF Filing, Apart, PathOf
    <2> QED
      BY <2>1, <2>2 DEF Less, Restrict
  <1> QED
    BY <1>1, <1>2

\* A step that changes no record but those it doubts, and no file.
LEMMA HashIndexStops ==
  ASSUME Filing, HashesHold, NEW keys,
         \A k \in DOMAIN index : Underway(k) => k \in keys,
         UNCHANGED files, step' = "idle", torn' = torn \union (keys \union Differ(index, index'))
  PROVE  HashesHold'
  <1>1. ASSUME NEW k \in DOMAIN index' \ torn' PROVE HashHolds(index[k])'
    <2>1. k \in DOMAIN index /\ index'[k] = index[k] /\ k \notin torn /\ k \notin keys
      BY <1>1, SameWhereNotDiffer
    <2>2. HashHolds(index[k])
      BY <2>1 DEF HashesHold
    <2> QED
      BY <2>1, <2>2, HashStays
  <1> QED
    BY <1>1 DEF HashesHold

LEMMA HashStep ==
  ASSUME Filing, HashesHold, [Next]_vars
  PROVE  HashesHold'
  <1>1. ASSUME NEW k \in Keys, NEW t \in Types, NEW data \in Contents, NEW extend \in BOOLEAN,
               Write(k, t, data, extend)
        PROVE  HashesHold'
    <2>1. ASSUME NEW j \in DOMAIN index' \ torn', j # k PROVE HashHolds(index[j])'
      <3>1. HashHolds(index[j]) /\ j \in DOMAIN index /\ UNCHANGED index
        BY <1>1, <2>1, WriteBegins DEF HashesHold, Underway
      <3>2. UNCHANGED files \/ \E i \in DOMAIN index \ {j} : files' = Less(files, PathOf(index[i]))
        BY <1>1, <2>1, WriteBegins
      <3> QED
        BY <2>1, <3>1, <3>2, OthersBytes, HashStays
    <2> QED
      BY <1>1, <2>1, WriteBegins DEF HashesHold, Underway
  <1>2. ASSUME NEW k \in Keys, Drop(k) PROVE HashesHold'
    <2>1. /\ op'.key = k /\ step' = "dropIndex" /\ step = "idle" /\ UNCHANGED <<index, torn>>
          /\ k \in DOMAIN index /\ files' = Less(files, PathOf(index[k]))
      BY <1>2, ReadingsAreKeys DEF Drop
    <2>2. ASSUME NEW j \in DOMAIN index' \ torn', j # k PROVE HashHolds(index[j])'
      <3>1. HashHolds(index[j]) /\ j \in DOMAIN index
        BY <2>1, <2>2 DEF HashesHold, Underway
      <3> QED
        BY <2>1, <2>2, <3>1, OthersBytes, HashStays
    <2> QED
      BY <2>1, <2>2 DEF HashesHold, Underway
  <1>3. ASSUME NEW read \in Readings, NEW asked \in SUBSET Keys, List(read, asked) PROVE HashesHold'
    <2>1. /\ index' = Filled(read, asked) /\ UNCHANGED files /\ torn \subseteq torn'
          /\ step = "idle" /\ step' = "idle"
      BY <1>3 DEF List, Fills
    <2>2. ASSUME NEW k \in DOMAIN index' \ torn' PROVE HashHolds(index[k])'
      <3>1. k \in read /\ k \in DOMAIN index
        BY <2>1, <2>2, FilledFiling
      <3>2. HashHolds(index[k])
        BY <2>1, <2>2, <3>1 DEF HashesHold, Underway
      <3>3. /\ index'[k].safe = index[k].safe /\ index'[k].typ = index[k].typ
            /\ \/ index'[k] = index[k]
               \/ index'[k].hash = files[PathOf(index[k])]
        BY <2>1, <3>1, FilledFiling
      <3> QED
        BY <2>1, <3>2, <3>3 DEF HashHolds, PathOf
    <2> QED
      BY <2>1, <2>2 DEF HashesHold
  <1>4. ASSUME NEW read \in Readings, NEW asked \in SUBSET Keys, ListStops(read, asked) PROVE HashesHold'
    <2>1. torn' = torn \union ({} \union Differ(index, index'))
      BY <1>4 DEF ListStops, Stopped
    <2> QED
      BY <1>4, <2>1, HashIndexStops DEF ListStops, Fills, Stopped, IndexStops, Underway
  <1>5. CASE WriteBytes
    <2>1. Len(op.data) \in 0..Len(op.data)
      BY <1>5, WholeData DEF WriteBytes, Filing, Typed
    <2>2. ASSUME NEW j \in DOMAIN index' \ torn', j # op'.key PROVE HashHolds(index[j])'
      <3>1. HashHolds(index[j]) /\ j \in DOMAIN index /\ j # op.key
        BY <1>5, <2>2, HashWritten DEF HashesHold, Underway, WriteBytes
      <3> QED
        BY <1>5, <2>1, <2>2, <3>1, OthersBytes, HashStays DEF WriteBytes
    <2> QED
      BY <1>5, <2>2, HashWritten DEF HashesHold, Underway, WriteBytes
  <1>6. CASE WriteBytesStops
    <2>1. ASSUME NEW j \in DOMAIN index' \ torn' PROVE HashHolds(index[j])'
      <3>1. HashHolds(index[j]) /\ j \in DOMAIN index /\ j # op.key
        BY <1>6, <2>1 DEF HashesHold, Underway, WriteBytesStops, Stopped
      <3> QED
        BY <1>6, <2>1, <3>1, OthersBytes, HashStays DEF WriteBytesStops, Stopped
    <2> QED
      BY <1>6, <2>1 DEF HashesHold, WriteBytesStops, Stopped
  <1>7. CASE WriteIndex
    <2>1. ASSUME NEW k \in DOMAIN index' \ torn' PROVE HashHolds(index[k])'
      <3>1. CASE k = op.key
        <4>1. index'[k] = op.item /\ HashHolds(op.item) /\ UNCHANGED files
          BY <1>7, <3>1, IndexOfFiling DEF WriteIndex, HashesHold
        <4> QED
          BY <4>1 DEF HashHolds, PathOf
      <3>2. CASE k # op.key
        <4>1. k \in DOMAIN index /\ index'[k] = index[k] /\ UNCHANGED files /\ k \notin torn
          BY <1>7, <2>1, <3>2, IndexOfFiling DEF WriteIndex
        <4>2. HashHolds(index[k])
          BY <2>1, <3>2, <4>1 DEF HashesHold, Underway
        <4> QED
          BY <2>1, <4>1, <4>2, HashStays
      <3> QED
        BY <3>1, <3>2
    <2>2. HashHolds(op.item)'
      BY <1>7 DEF WriteIndex, HashesHold, HashHolds, PathOf
    <2> QED
      BY <1>7, <2>1, <2>2 DEF HashesHold
  <1>8. CASE WriteIndexStops
    BY <1>8, HashIndexStops DEF WriteIndexStops, Stopped, IndexStops, Underway
  <1>9. CASE NoteBundle
    <2>1. ASSUME NEW k \in DOMAIN index' \ torn' PROVE HashHolds(index[k])'
      <3>1. HashHolds(index[k]) /\ k \in DOMAIN index
        BY <1>9, <2>1 DEF NoteBundle, HashesHold, Underway, Filing, OpApart
      <3> QED
        BY <1>9, <2>1, <3>1, HashStays DEF NoteBundle
    <2> QED
      BY <1>9, <2>1 DEF NoteBundle, HashesHold
  <1>10. CASE NoteBundleStops \/ ForgetBundleStops
    <2>1. ASSUME NEW k \in DOMAIN index' \ torn' PROVE HashHolds(index[k])'
      <3>1. HashHolds(index[k]) /\ k \in DOMAIN index /\ UNCHANGED <<index, files>>
        BY <1>10, <2>1
        DEF NoteBundleStops, ForgetBundleStops, BundlesStop, Stopped, HashesHold, Underway
      <3> QED
        BY <2>1, <3>1, HashStays
    <2> QED
      BY <1>10, <2>1 DEF NoteBundleStops, ForgetBundleStops, BundlesStop, Stopped, HashesHold
  <1>11. CASE DropIndex
    <2>1. ASSUME NEW k \in DOMAIN index' \ torn' PROVE HashHolds(index[k])'
      <3>1. /\ k \in DOMAIN index /\ k # op.key /\ index'[k] = index[k]
            /\ UNCHANGED files /\ k \notin torn
        BY <1>11, <2>1, DroppedFiling DEF DropIndex
      <3>2. HashHolds(index[k])
        BY <2>1, <3>1 DEF HashesHold, Underway
      <3> QED
        BY <2>1, <3>1, <3>2, HashStays
    <2> QED
      BY <1>11, <2>1 DEF HashesHold, DropIndex
  <1>12. CASE DropIndexStops
    BY <1>12, HashIndexStops DEF DropIndexStops, Stopped, IndexStops, Underway
  <1>13. CASE ForgetBundle
    <2>1. ASSUME NEW k \in DOMAIN index' \ torn' PROVE HashHolds(index[k])'
      <3>1. HashHolds(index[k]) /\ k \in DOMAIN index
        BY <1>13, <2>1 DEF ForgetBundle, HashesHold, Underway, Filing, OpApart
      <3> QED
        BY <1>13, <2>1, <3>1, HashStays DEF ForgetBundle
    <2> QED
      BY <1>13, <2>1 DEF ForgetBundle, HashesHold
  <1>14. CASE UNCHANGED vars
    BY <1>14 DEF vars, HashesHold, HashHolds, Underway, PathOf
  <1> QED
    BY <1>1, <1>2, <1>3, <1>4, <1>5, <1>6, <1>7, <1>8, <1>9, <1>10, <1>11, <1>12, <1>13, <1>14
    DEF Next

LEMMA HashInit == Init => HashesHold
  BY DEF Init, HashesHold

\* An item that is listed is there, with the hash of its bytes or with none, for
\* every key no stop and no misreading has left in doubt.
THEOREM HashIsTrueAlways == Spec => []HashIsTrue
  <1>1. Filing /\ HashesHold /\ [Next]_vars => Filing' /\ HashesHold'
    BY FilingStep, HashStep
  <1>2. HashesHold => HashIsTrue
    BY DEF HashesHold, HashIsTrue, HashHolds, Underway
  <1> QED
    BY <1>1, <1>2, FilingInit, HashInit, PTL DEF Spec

-----------------------------------------------------------------------------
(* Bundles *)

\* Where the bundle index is gone it is built again, and says what is so.
LEMMA RebuiltAgrees == ASSUME NEW k, ~indexed PROVE Agrees(k)
  BY DEF Agrees, Bundled, Rebuilt

\* A key whose record, file and entry stay agrees as it did.
LEMMA AgreeStays ==
  ASSUME NEW k, Agrees(k),
         k \in DOMAIN index' <=> k \in DOMAIN index,
         k \in DOMAIN index =>
           /\ index'[k] = index[k]
           /\ PathOf(index[k]) \in DOMAIN files' <=> PathOf(index[k]) \in DOMAIN files
           /\ PathOf(index[k]) \in DOMAIN files =>
                files'[PathOf(index[k])] = files[PathOf(index[k])],
         \/ UNCHANGED <<bundles, indexed>>
         \/ /\ k \in DOMAIN Bundled' <=> k \in DOMAIN Bundled
            /\ k \in DOMAIN Bundled => Bundled'[k] = Bundled[k]
  PROVE  Agrees(k)'
  <1>1. CASE ~indexed' /\ UNCHANGED indexed
    BY <1>1 DEF Agrees, Bundled, Rebuilt
  <1>2. (k \in DOMAIN index /\ IsBundle(k, index[k]))' <=> (k \in DOMAIN index /\ IsBundle(k, index[k]))
    BY DEF IsBundle, PathOf
  <1>3. k \in DOMAIN index /\ IsBundle(k, index[k]) => Bytes(index[k])' = Bytes(index[k])
    BY DEF IsBundle, PathOf, Bytes
  <1>4. CASE /\ k \in DOMAIN Bundled' <=> k \in DOMAIN Bundled
             /\ k \in DOMAIN Bundled => Bundled'[k] = Bundled[k]
    BY <1>2, <1>3, <1>4 DEF Agrees
  <1>5. CASE indexed' /\ UNCHANGED <<bundles, indexed>>
    <2>1. Bundled' = Bundled
      BY <1>5 DEF Bundled
    <2> QED
      BY <2>1, <1>4
  <1> QED
    BY <1>1, <1>4, <1>5

\* A step that changes no record, file or entry but those it doubts.
LEMMA BundleStops ==
  ASSUME BundlesHold, NEW keys, step # "idle" => op.key \in keys,
         UNCHANGED files, step' = "idle",
         \/ /\ UNCHANGED <<bundles, indexed>>
            /\ torn' = torn \union (keys \union Differ(index, index'))
         \/ /\ UNCHANGED index
            /\ torn' = torn \union (keys \union Differ(Bundled, Bundled'))
  PROVE  BundlesHold'
  <1>1. ASSUME NEW k \in Keys \ torn' PROVE Agrees(k)'
    <2>1. Agrees(k)
      BY <1>1 DEF BundlesHold
    <2>2. CASE UNCHANGED <<bundles, indexed>> /\ torn' = torn \union (keys \union Differ(index, index'))
      <3>1. /\ k \in DOMAIN index' <=> k \in DOMAIN index
            /\ k \in DOMAIN index => index'[k] = index[k]
        BY <1>1, <2>2 DEF Differ
      <3> QED
        BY <2>1, <2>2, <3>1, AgreeStays
    <2>3. CASE UNCHANGED index /\ torn' = torn \union (keys \union Differ(Bundled, Bundled'))
      <3>1. /\ k \in DOMAIN Bundled' <=> k \in DOMAIN Bundled
            /\ k \in DOMAIN Bundled => Bundled'[k] = Bundled[k]
        BY <1>1, <2>3 DEF Differ
      <3> QED
        BY <2>1, <2>3, <3>1, AgreeStays
    <2> QED
      BY <2>2, <2>3
  <1> QED
    BY <1>1 DEF BundlesHold

\* What an operation writes down of bundles is so of every key, if it is of its
\* own.
LEMMA BundlesBecomeAgree ==
  ASSUME BundlesHold, NEW all, BundlesBecome(all), step # "idle",
         UNCHANGED <<index, files>>, torn' = torn \ {op.key}, step' = "idle",
         \A k \in DOMAIN Bundled : k # op.key => k \in DOMAIN all /\ all[k] = Bundled[k],
         \A k \in DOMAIN all : k # op.key => k \in DOMAIN Bundled,
         IF op.key \in DOMAIN index /\ IsBundle(op.key, index[op.key])
         THEN op.key \in DOMAIN all /\ all[op.key] = BundleOf[<<op.key, Bytes(index[op.key])>>]
         ELSE op.key \notin DOMAIN all
  PROVE  BundlesHold'
  <1>1. CASE ~indexed'
    <2>1. \A k \in Keys : Agrees(k)'
      BY <1>1 DEF Agrees, Bundled, Rebuilt
    <2> QED
      BY <2>1 DEF BundlesHold
  <1>2. CASE indexed'
    <2>1. Bundled' = all
      BY <1>2 DEF Bundled, BundlesBecome
    <2>2. ASSUME NEW k \in Keys \ torn', k # op.key PROVE Agrees(k)'
      <3>1. Agrees(k)
        BY <2>2 DEF BundlesHold
      <3>2. /\ k \in DOMAIN Bundled' <=> k \in DOMAIN Bundled
            /\ k \in DOMAIN Bundled => Bundled'[k] = Bundled[k]
        BY <2>1, <2>2
      <3> QED
        BY <3>1, <3>2, AgreeStays
    <2>3. PICK key : key = op.key
      OBVIOUS
    <2>4. Agrees(key)'
      <3>1. CASE key \in DOMAIN index /\ IsBundle(key, index[key])
        BY <2>1, <2>3, <3>1 DEF Agrees, IsBundle, Bytes, PathOf
      <3>2. CASE ~(key \in DOMAIN index /\ IsBundle(key, index[key]))
        BY <2>1, <2>3, <3>2 DEF Agrees, IsBundle, Bytes, PathOf
      <3> QED
        BY <3>1, <3>2
    <2> QED
      BY <2>2, <2>3, <2>4 DEF BundlesHold
  <1> QED
    BY <1>1, <1>2 DEF BundlesBecome

\* A step of one key's operation that leaves the bundle index alone.
LEMMA OthersAgree ==
  ASSUME Filing, BundlesHold, NEW key, step = "idle" \/ op.key = key,
         UNCHANGED <<bundles, indexed>>,
         torn \subseteq torn', step' = "idle" => key \in torn',
         step' # "idle" => op'.key = key,
         \A j \in Keys \ (torn' \union {key}) :
           /\ j \in DOMAIN index' <=> j \in DOMAIN index
           /\ j \in DOMAIN index => index'[j] = index[j],
         \/ \E n \in 0..Len(op.data) : files' = Written(n) /\ step = "bytes"
         \/ key \in DOMAIN index /\ files' = Less(files, PathOf(index[key]))
         \/ UNCHANGED files
  PROVE  BundlesHold'
  <1>1. ASSUME NEW k \in Keys \ torn', k # key PROVE Agrees(k)'
    <2>1. Agrees(k)
      BY <1>1 DEF BundlesHold
    <2>2. CASE k \in DOMAIN index
      BY <1>1, <2>1, <2>2, OthersBytes, AgreeStays
    <2>3. CASE k \notin DOMAIN index
      BY <1>1, <2>1, <2>3, AgreeStays
    <2> QED
      BY <2>2, <2>3
  <1> QED
    BY <1>1 DEF BundlesHold

LEMMA BundleStep ==
  ASSUME Filing, BundlesHold, [Next]_vars
  PROVE  BundlesHold'
  <1>1. ASSUME NEW k \in Keys, NEW t \in Types, NEW data \in Contents, NEW extend \in BOOLEAN,
               Write(k, t, data, extend)
        PROVE  BundlesHold'
    BY <1>1, WriteBegins, OthersAgree
  <1>2. ASSUME NEW k \in Keys, Drop(k) PROVE BundlesHold'
    BY <1>2, ReadingsAreKeys, OthersAgree DEF Drop
  <1>3. ASSUME NEW read \in Readings, NEW asked \in SUBSET Keys, List(read, asked) PROVE BundlesHold'
    <2>1. /\ index' = Filled(read, asked) /\ UNCHANGED <<files, bundles, indexed>>
          /\ torn' = torn \union (DOMAIN index \ read) /\ step = "idle"
      BY <1>3 DEF List, Fills
    <2>2. ASSUME NEW k \in Keys \ torn' PROVE Agrees(k)'
      <3>1. Agrees(k)
        BY <2>1, <2>2 DEF BundlesHold
      <3>2. /\ k \in DOMAIN index' <=> k \in DOMAIN index
            /\ k \in DOMAIN index =>
                 index'[k].safe = index[k].safe /\ index'[k].typ = index[k].typ
        BY <2>1, <2>2, FilledFiling
      <3>3. CASE indexed
        BY <2>1, <3>1, <3>2, <3>3 DEF Agrees, Bundled, IsBundle, Bytes, PathOf
      <3>4. CASE ~indexed
        BY <2>1, <3>4 DEF Agrees, Bundled, Rebuilt
      <3> QED
        BY <3>3, <3>4
    <2> QED
      BY <2>2 DEF BundlesHold
  <1>4. ASSUME NEW read \in Readings, NEW asked \in SUBSET Keys, ListStops(read, asked) PROVE BundlesHold'
    <2>1. torn' = torn \union ({} \union Differ(index, index'))
      BY <1>4 DEF ListStops, Stopped
    <2> QED
      BY <1>4, <2>1, BundleStops DEF ListStops, Fills, Stopped, IndexStops
  <1>5. CASE WriteBytes
    <2>1. Len(op.data) \in 0..Len(op.data)
      BY <1>5, WholeData DEF WriteBytes, Filing, Typed
    <2>2. op'.key = op.key
      BY <1>5, HashWritten
    <2> QED
      BY <1>5, <2>1, <2>2, OthersAgree DEF WriteBytes
  <1>6. CASE WriteBytesStops
    BY <1>6, OthersAgree DEF WriteBytesStops, Stopped
  <1>7. CASE WriteIndex
    <2>1. \A j \in Keys \ (torn' \union {op.key}) :
            /\ j \in DOMAIN index' <=> j \in DOMAIN index
            /\ j \in DOMAIN index => index'[j] = index[j]
      BY <1>7, IndexOfFiling DEF WriteIndex
    <2> QED
      BY <1>7, <2>1, OthersAgree DEF WriteIndex
  <1>8. CASE WriteIndexStops
    BY <1>8, BundleStops DEF WriteIndexStops, Stopped, IndexStops
  <1>9. CASE NoteBundle
    <2>1. op.key \in DOMAIN index /\ index[op.key] = op.item
      BY <1>9 DEF NoteBundle, Filing, OpApart
    <2>2. CASE NothingToNote(Bundled, IsBundle(op.key, op.item))
      <3>1. PICK key : key = op.key
        OBVIOUS
      <3>2. UNCHANGED <<index, files, bundles, indexed>>
        BY <1>9, <2>2 DEF NoteBundle
      <3>3. Agrees(key)
        BY <2>1, <2>2, <3>1 DEF NothingToNote, Agrees, IsBundle
      <3>4. ASSUME NEW k \in Keys \ torn' PROVE Agrees(k)'
        <4>1. Agrees(k)
          BY <1>9, <3>1, <3>3, <3>4 DEF NoteBundle, BundlesHold
        <4> QED
          BY <3>2, <4>1, AgreeStays
      <3> QED
        BY <3>4 DEF BundlesHold
    <2>3. CASE ~NothingToNote(Bundled, IsBundle(op.key, op.item))
      <3>1. BundlesBecome(Noted(Bundled, IsBundle(op.key, op.item)))
        BY <1>9, <2>3 DEF NoteBundle
      <3>2. CASE IsBundle(op.key, op.item)
        <4>1. Noted(Bundled, IsBundle(op.key, op.item)) = With(Bundled, op.key, BundleOf[<<op.key, Bytes(op.item)>>])
          BY <3>2 DEF Noted
        <4> QED
          BY <1>9, <2>1, <3>1, <3>2, <4>1, BundlesBecomeAgree DEF NoteBundle, With
      <3>3. CASE ~IsBundle(op.key, op.item)
        <4>1. Noted(Bundled, IsBundle(op.key, op.item)) = Less(Bundled, op.key)
          BY <3>3 DEF Noted
        <4> QED
          BY <1>9, <2>1, <3>1, <3>3, <4>1, BundlesBecomeAgree DEF NoteBundle, Less, Restrict
      <3> QED
        BY <3>2, <3>3
    <2> QED
      BY <2>2, <2>3
  <1>10. CASE NoteBundleStops \/ ForgetBundleStops
    <2>1. step # "idle" /\ step' = "idle" /\ UNCHANGED <<index, files>>
      BY <1>10 DEF NoteBundleStops, ForgetBundleStops, BundlesStop, Stopped
    <2>2. \/ torn' = torn \union ({op.key} \union Differ(Bundled, Bundled'))
          \/ /\ torn' = torn \union {op.key} /\ UNCHANGED <<bundles, indexed>>
      BY <1>10 DEF NoteBundleStops, ForgetBundleStops, BundlesStop, Stopped
    <2>3. CASE torn' = torn \union ({op.key} \union Differ(Bundled, Bundled'))
      BY <2>1, <2>3, BundleStops
    <2>4. CASE torn' = torn \union {op.key} /\ UNCHANGED <<bundles, indexed>>
      <3>1. Differ(index, index') = {}
        BY <2>1 DEF Differ
      <3>2. torn' = torn \union ({op.key} \union Differ(index, index'))
        BY <2>4, <3>1
      <3> QED
        BY <2>1, <2>4, <3>2, BundleStops
    <2> QED
      BY <2>2, <2>3, <2>4
  <1>11. CASE DropIndex
    <2>1. \A j \in Keys \ (torn' \union {op.key}) :
            /\ j \in DOMAIN index' <=> j \in DOMAIN index
            /\ j \in DOMAIN index => index'[j] = index[j]
      BY <1>11, DroppedFiling DEF DropIndex
    <2> QED
      BY <1>11, <2>1, OthersAgree DEF DropIndex
  <1>12. CASE DropIndexStops
    BY <1>12, BundleStops DEF DropIndexStops, Stopped, IndexStops
  <1>13. CASE ForgetBundle
    <2>1. op.key \notin DOMAIN index
      BY <1>13 DEF ForgetBundle, Filing, OpApart
    <2>2. CASE op.key \notin DOMAIN Bundled
      <3>1. PICK key : key = op.key
        OBVIOUS
      <3>2. UNCHANGED <<index, files, bundles, indexed>>
        BY <1>13, <2>2 DEF ForgetBundle
      <3>3. Agrees(key)
        BY <2>1, <2>2, <3>1 DEF Agrees
      <3>4. ASSUME NEW k \in Keys \ torn' PROVE Agrees(k)'
        <4>1. Agrees(k)
          BY <1>13, <3>1, <3>3, <3>4 DEF ForgetBundle, BundlesHold
        <4> QED
          BY <3>2, <4>1, AgreeStays
      <3> QED
        BY <3>4 DEF BundlesHold
    <2>3. CASE op.key \in DOMAIN Bundled
      <3>1. BundlesBecome(Less(Bundled, op.key))
        BY <1>13, <2>3 DEF ForgetBundle
      <3> QED
        BY <1>13, <2>1, <3>1, BundlesBecomeAgree DEF ForgetBundle, Less, Restrict
    <2> QED
      BY <2>2, <2>3
  <1>14. CASE UNCHANGED vars
    BY <1>14 DEF vars, BundlesHold, Agrees, Bundled, Rebuilt, IsBundle, Bytes, PathOf
  <1> QED
    BY <1>1, <1>2, <1>3, <1>4, <1>5, <1>6, <1>7, <1>8, <1>9, <1>10, <1>11, <1>12, <1>13, <1>14
    DEF Next

LEMMA BundleInit == Init => BundlesHold
  BY RebuiltAgrees DEF Init, BundlesHold

\* The bundles found are those there are, for every key no stop and no
\* misreading has left in doubt.
THEOREM BundlesAgreeAlways == Spec => []BundlesAgree
  <1>1. Filing /\ BundlesHold /\ [Next]_vars => Filing' /\ BundlesHold'
    BY FilingStep, BundleStep
  <1>2. BundlesHold => BundlesAgree
    BY DEF BundlesHold, BundlesAgree, Agrees
  <1> QED
    BY <1>1, <1>2, FilingInit, BundleInit, PTL DEF Spec

-----------------------------------------------------------------------------
(* Types *)

\* What is written fits: a put's data by itself, an append's with what there is.
Fits ==
  /\ step # "idle" =>
       op \in Ops(Items)
  /\ step = "bytes" /\ op.extend => Len(Bytes(op.item)) + Len(op.data) <= MaxPieces
  /\ step \in {"bytes", "index", "dropIndex"} => op.read \subseteq DOMAIN index

LEMMA ContentIs ==
  ASSUME NEW c
  PROVE  c \in Contents <=> c \in Seq(Pieces) /\ Len(c) <= MaxPieces
  <1>1. ASSUME c \in Contents
        PROVE  c \in Seq(Pieces) /\ Len(c) <= MaxPieces
    <2>1. PICK n \in 0..MaxPieces : c \in [1..n -> Pieces]
      BY <1>1 DEF Contents
    <2>2. n \in Nat /\ n <= MaxPieces
      BY <2>1, StoreAssumption
    <2>3. c \in Seq(Pieces) /\ Len(c) = n
      BY <2>1, <2>2
    <2> QED
      BY <2>2, <2>3
  <1>2. ASSUME c \in Seq(Pieces), Len(c) <= MaxPieces
        PROVE  c \in Contents
    <2>1. c \in [1..Len(c) -> Pieces] /\ Len(c) \in 0..MaxPieces
      BY <1>2, StoreAssumption
    <2> QED
      BY <2>1 DEF Contents
  <1> QED
    BY <1>1, <1>2

LEMMA ItemsAreFiled ==
  ASSUME NEW it \in Items
  PROVE  PathOf(it) \in Safes \X Types
  BY DEF Items, PathOf

\* What is there of an item's bytes, and what is as it is written.
LEMMA BytesAreContent ==
  ASSUME TypeOK, NEW it
  PROVE  Bytes(it) \in Contents
  BY NothingIsContent DEF TypeOK, Bytes

LEMMA WrittenFits ==
  ASSUME TypeOK, Fits, step = "bytes", NEW n \in 0..Len(op.data)
  PROVE  /\ DOMAIN Written(n) \subseteq Safes \X Types
         /\ \A p \in DOMAIN Written(n) : Written(n)[p] \in Contents
  <1> DEFINE old == IF op.extend THEN Bytes(op.item) ELSE << >>
             new == SubSeq(op.data, 1, n)
  <1>1. op \in Ops(Items)
    BY DEF Fits
  <1>2. op.data \in Seq(Pieces) /\ Len(op.data) <= MaxPieces /\ Len(op.data) \in Nat
    BY <1>1, ContentIs DEF Ops
  <1>3. /\ old \in Seq(Pieces) /\ Len(old) \in Nat
        /\ Len(old) + Len(op.data) <= MaxPieces
    <2>1. CASE op.extend
      <3>1. Bytes(op.item) \in Seq(Pieces) /\ Len(Bytes(op.item)) \in Nat
        BY BytesAreContent, ContentIs
      <3>2. Len(Bytes(op.item)) + Len(op.data) <= MaxPieces
        BY <2>1 DEF Fits
      <3> QED
        BY <2>1, <3>1, <3>2
    <2>2. CASE ~op.extend
      BY <1>2, <2>2
    <2> QED
      BY <2>1, <2>2
  <1>4. new \in Seq(Pieces) /\ Len(new) = n /\ n \in Nat /\ n <= Len(op.data)
    BY <1>2
  <1> HIDE DEF old, new
  <1>5. old \o new \in Seq(Pieces) /\ Len(old \o new) = Len(old) + Len(new)
    BY <1>3, <1>4
  <1>6. Len(old \o new) <= MaxPieces
    BY <1>2, <1>3, <1>4, <1>5, StoreAssumption
  <1>7. old \o new \in Contents
    BY <1>5, <1>6, ContentIs
  <1>8. PathOf(op.item) \in Safes \X Types
    BY <1>1, ItemsAreFiled DEF Ops
  <1>9. Written(n) = With(files, PathOf(op.item), old \o new)
    BY DEF Written, old, new
  <1> QED
    BY <1>7, <1>8, <1>9 DEF With, TypeOK

\* What a rewritten file reads as has the types of what it was.
LEMMA LeftTypes ==
  ASSUME NEW f, NEW n, NEW cut \in Keys, DOMAIN f \subseteq Keys
  PROVE  /\ DOMAIN Left(f, n, cut) \subseteq Keys
         /\ \A S : (\A k \in DOMAIN f : f[k] \in S) =>
                     \A k \in DOMAIN Left(f, n, cut) : Left(f, n, cut)[k] \in S
  <1>1. DOMAIN Left(f, n, cut) \subseteq Keys
    BY DEF Left
  <1>2. \A k \in DOMAIN Left(f, n, cut) : \E j \in DOMAIN f : Left(f, n, cut)[k] = f[j]
    BY LeftOf
  <1> QED
    BY <1>1, <1>2

LEMMA IndexStopsTypes ==
  ASSUME TypeOK, NEW whole, DOMAIN whole \subseteq Keys, \A k \in DOMAIN whole : whole[k] \in Items,
         IndexStops(whole)
  PROVE  /\ DOMAIN index' \subseteq Keys /\ \A k \in DOMAIN index' : index'[k] \in Items
         /\ Differ(index, index') \subseteq Keys
  <1>1. DOMAIN index' \subseteq Keys /\ \A k \in DOMAIN index' : index'[k] \in Items
    <2>1. CASE UNCHANGED index
      BY <2>1 DEF TypeOK
    <2>2. CASE \E n \in 0..Cardinality(Keys), cut \in Keys : index' = Left(whole, n, cut)
      BY <2>2, LeftTypes
    <2> QED
      BY <2>1, <2>2 DEF IndexStops
  <1> QED
    BY <1>1 DEF Differ, TypeOK

LEMMA BundledAreKeys ==
  ASSUME TypeOK
  PROVE  DOMAIN Bundled \subseteq Keys
  BY DEF Bundled, Rebuilt, TypeOK

LEMMA BundlesStopTypes ==
  ASSUME TypeOK, NEW all, DOMAIN all \subseteq Keys, BundlesStop(all)
  PROVE  /\ DOMAIN bundles' \subseteq Keys /\ indexed' \in BOOLEAN
         /\ Differ(Bundled, Bundled') \subseteq Keys
  <1>1. DOMAIN bundles' \subseteq Keys /\ indexed' \in BOOLEAN
    BY LeftTypes DEF BundlesStop, BundlesBecome, TypeOK
  <1>2. DOMAIN Bundled' \subseteq Keys
    BY <1>1 DEF Bundled, Rebuilt, BundlesStop, TypeOK
  <1> QED
    BY <1>1, <1>2, BundledAreKeys DEF Differ

LEMMA CountedTypes ==
  ASSUME TypeOK, NEW well, Counted(well)
  PROVE  stops' \in 0..MaxStops
  <1>1. MaxStops \in Nat /\ stops \in 0..MaxStops
    BY StoreAssumption DEF TypeOK
  <1>2. CASE UNCHANGED stops
    BY <1>1, <1>2
  <1>3. CASE stops < MaxStops /\ stops' = stops + 1
    BY <1>1, <1>3
  <1> QED
    BY <1>2, <1>3 DEF Counted, MayFail

\* An operation begins with an item that is filed and data that fits.
LEMMA BeginsFits ==
  ASSUME TypeOK, NEW k \in Keys, NEW it \in Items, NEW data \in Contents, NEW extend \in BOOLEAN,
         NEW read \in Readings, NEW listed \in BOOLEAN, NEW removed,
         Begins(k, it, data, extend, read, listed, removed),
         UNCHANGED files \/ (~extend /\ \E p : files' = Less(files, p))
  PROVE  TypeOK' /\ Fits'
  <1>1. /\ op' \in Ops(Items) /\ op'.item = it /\ op'.data = data /\ op'.extend = extend
        /\ step' = "bytes" /\ op'.read \subseteq DOMAIN index
    BY ReadingsAreKeys DEF Begins, Ops, TypeOK
  <1>2. extend => Len(Bytes(it))' + Len(data) <= MaxPieces
    BY DEF Begins, Bytes
  <1>3. op'.extend => Len(Bytes(op.item))' + Len(op'.data) <= MaxPieces
    BY <1>1, <1>2 DEF Bytes
  <1>4. DOMAIN files' \subseteq Safes \X Types /\ \A p \in DOMAIN files' : files'[p] \in Contents
    BY DEF TypeOK, Less, Restrict
  <1>5. torn' \subseteq Keys /\ stops' \in 0..MaxStops /\ UNCHANGED <<index, bundles, indexed>>
    BY CountedTypes DEF Begins, TypeOK
  <1> QED
    BY <1>1, <1>3, <1>4, <1>5 DEF TypeOK, Fits

LEMMA FitsStep ==
  ASSUME TypeOK, Fits, [Next]_vars
  PROVE  TypeOK' /\ Fits'
  <1> USE StoreAssumption
  <1> DEFINE Op == Ops(Items)
  <1>1. ASSUME NEW k \in Keys, NEW t \in Types, NEW data \in Contents, NEW extend \in BOOLEAN,
               Write(k, t, data, extend)
        PROVE  TypeOK' /\ Fits'
    <2>1. CASE WriteNew(k, t, data, extend)
      <3>1. PICK read \in Readings, listed \in BOOLEAN, s \in Safes :
              /\ UNCHANGED files
              /\ Begins(k, [safe |-> s, typ |-> t, hash |-> NoHash], data, extend, read, listed, TRUE)
        BY <2>1 DEF WriteNew
      <3>2. [safe |-> s, typ |-> t, hash |-> NoHash] \in Items
        BY DEF Items, Hashes
      <3> QED
        BY <3>1, <3>2, BeginsFits
    <2>2. CASE WriteHeld(k, t, data, extend)
      <3>1. PICK read \in Readings :
              k \in read /\ UNCHANGED files /\ Begins(k, index[k], data, extend, read, TRUE, TRUE)
        BY <2>2 DEF WriteHeld
      <3>2. index[k] \in Items
        BY <3>1, ReadingsAreKeys DEF TypeOK
      <3> QED
        BY <3>1, <3>2, BeginsFits
    <2>3. CASE WriteRetyped(k, t, data) /\ ~extend
      <3>1. PICK read \in Readings, removed \in BOOLEAN :
              /\ k \in read
              /\ Begins(k, [index[k] EXCEPT !.typ = t], data, FALSE, read, TRUE, removed)
              /\ files' = IF removed THEN Less(files, PathOf(index[k])) ELSE files
        BY <2>3 DEF WriteRetyped
      <3>2. index[k] \in Items
        BY <3>1, ReadingsAreKeys DEF TypeOK
      <3>3. [index[k] EXCEPT !.typ = t] \in Items
        BY <3>1, <3>2 DEF Items
      <3> QED
        BY <3>1, <3>3, BeginsFits
    <2> QED
      BY <1>1, <2>1, <2>2, <2>3 DEF Write
  <1>2. CASE WriteBytes
    <2>1. op \in Op /\ op.data \in Contents /\ step = "bytes"
      BY <1>2 DEF Fits, WriteBytes, Ops
    <2>2. Len(op.data) \in 0..Len(op.data)
      BY <2>1, ContentIs
    <2>3. DOMAIN files' \subseteq Safes \X Types /\ \A p \in DOMAIN files' : files'[p] \in Contents
      BY <1>2, <2>1, <2>2, WrittenFits DEF WriteBytes
    <2>4. Hashed(op.data, op.extend, op.item) \in Hashes
      BY <2>1 DEF Hashed, Hashes
    <2>5. op' \in Op /\ op'.read = op.read
      BY <1>2, <2>1, <2>4 DEF WriteBytes, Items, Ops
    <2> QED
      BY <1>2, <2>3, <2>5 DEF WriteBytes, TypeOK, Fits
  <1>3. CASE WriteBytesStops
    <2>1. op \in Op /\ step = "bytes"
      BY <1>3 DEF Fits, WriteBytesStops
    <2>2. DOMAIN files' \subseteq Safes \X Types /\ \A p \in DOMAIN files' : files'[p] \in Contents
      BY <1>3, <2>1, WrittenFits DEF WriteBytesStops, TypeOK
    <2>3. torn' \subseteq Keys /\ stops' \in 0..MaxStops /\ step' = "idle"
      BY <1>3, <2>1 DEF WriteBytesStops, Stopped, TypeOK, Ops
    <2> QED
      BY <1>3, <2>2, <2>3 DEF WriteBytesStops, TypeOK, Fits
  <1>4. ASSUME step \in {"index", "dropIndex"}
        PROVE  /\ DOMAIN IndexOf \subseteq Keys /\ \A k \in DOMAIN IndexOf : IndexOf[k] \in Items
               /\ DOMAIN Without \subseteq Keys
               /\ \A k \in DOMAIN Without : Without[k] \in Items
               /\ op \in Op /\ op.key \in Keys
    <2>1. op \in Op /\ op.key \in Keys /\ op.item \in Items /\ op.read \subseteq DOMAIN index
      BY <1>4 DEF Fits, Ops
    <2> QED
      BY <1>4, <2>1 DEF TypeOK, IndexOf, Without, With, Less, Restrict
  <1>5. CASE WriteIndex
    BY <1>4, <1>5 DEF WriteIndex, TypeOK, Fits
  <1>6. CASE DropIndex
    BY <1>4, <1>6 DEF DropIndex, TypeOK, Fits
  <1>7. CASE WriteIndexStops
    <2>1. IndexStops(IndexOf) /\ step = "index"
      BY <1>7 DEF WriteIndexStops
    <2>2. /\ DOMAIN index' \subseteq Keys /\ \A k \in DOMAIN index' : index'[k] \in Items
          /\ Differ(index, index') \subseteq Keys /\ op.key \in Keys
      BY <1>4, <2>1, IndexStopsTypes
    <2>3. torn' \subseteq Keys /\ stops' \in 0..MaxStops /\ step' = "idle"
      BY <1>7, <2>2 DEF WriteIndexStops, Stopped, TypeOK
    <2> QED
      BY <2>1, <2>2, <2>3 DEF IndexStops, TypeOK, Fits
  <1>8. CASE DropIndexStops
    <2>1. IndexStops(Without) /\ step = "dropIndex"
      BY <1>8 DEF DropIndexStops
    <2>2. /\ DOMAIN index' \subseteq Keys /\ \A k \in DOMAIN index' : index'[k] \in Items
          /\ Differ(index, index') \subseteq Keys /\ op.key \in Keys
      BY <1>4, <2>1, IndexStopsTypes
    <2>3. torn' \subseteq Keys /\ stops' \in 0..MaxStops /\ step' = "idle"
      BY <1>8, <2>2 DEF DropIndexStops, Stopped, TypeOK
    <2> QED
      BY <2>1, <2>2, <2>3 DEF IndexStops, TypeOK, Fits
  <1>9. ASSUME NEW read \in Readings, NEW asked, List(read, asked) \/ ListStops(read, asked)
        PROVE  TypeOK' /\ Fits'
    <2>1. /\ DOMAIN Filled(read, asked) \subseteq Keys
          /\ \A k \in DOMAIN Filled(read, asked) : Filled(read, asked)[k] \in Items
      <3>1. ASSUME NEW k \in read
            PROVE  k \in Keys /\ Filled(read, asked)[k] \in Items
        <4>1. k \in DOMAIN index /\ k \in Keys /\ index[k] \in Items
          BY <1>9, <3>1, ReadingsAreKeys DEF TypeOK
        <4>2. CASE PathOf(index[k]) \in DOMAIN files
          <5>1. files[PathOf(index[k])] \in Hashes
            BY <4>2 DEF TypeOK, Hashes
          <5> QED
            BY <3>1, <4>1, <5>1 DEF Filled, Items
        <4>3. CASE PathOf(index[k]) \notin DOMAIN files
          BY <3>1, <4>1, <4>3 DEF Filled
        <4> QED
          BY <4>2, <4>3
      <3> QED
        BY <3>1 DEF Filled
    <2>2. CASE List(read, asked)
      <3>1. stops' \in 0..MaxStops
        BY <2>2, CountedTypes DEF List
      <3> QED
        BY <2>1, <2>2, <3>1 DEF List, Fills, TypeOK, Fits
    <2>3. CASE ListStops(read, asked)
      <3>1. IndexStops(Filled(read, asked)) /\ Stopped(Differ(index, index'))
        BY <2>3 DEF ListStops
      <3>2. /\ DOMAIN index' \subseteq Keys /\ \A k \in DOMAIN index' : index'[k] \in Items
            /\ Differ(index, index') \subseteq Keys
        BY <2>1, <3>1, IndexStopsTypes
      <3>3. torn' \subseteq Keys /\ stops' \in 0..MaxStops /\ step' = "idle"
        BY <3>1, <3>2 DEF Stopped, TypeOK
      <3> QED
        BY <3>1, <3>2, <3>3 DEF IndexStops, TypeOK, Fits
    <2> QED
      BY <1>9, <2>2, <2>3
  <1>10. ASSUME step \in {"note", "forget"}, NEW all \in FoundBundles, NEW is
         PROVE  /\ DOMAIN Noted(all, is) \subseteq Keys /\ DOMAIN Less(all, op.key) \subseteq Keys
                /\ op.key \in Keys
    <2>1. op.key \in Keys
      BY <1>10 DEF Fits, Ops
    <2>2. DOMAIN all \subseteq Keys
      <3>1. DOMAIN Rebuilt \subseteq Keys
        BY DEF Rebuilt, TypeOK
      <3> QED
        BY <3>1, BundledAreKeys DEF FoundBundles, Restrict
    <2> QED
      BY <2>1, <2>2 DEF Noted, With, Less, Restrict
  <1>11. CASE NoteBundle \/ ForgetBundle
    <2>1. DOMAIN bundles' \subseteq Keys /\ indexed' \in BOOLEAN
      <3>1. Bundled \in FoundBundles
        BY DEF FoundBundles
      <3> QED
        BY <1>10, <1>11, <3>1 DEF NoteBundle, ForgetBundle, BundlesBecome, TypeOK
    <2>2. step' = "idle" /\ torn' \subseteq Keys /\ UNCHANGED <<index, files, stops>>
      BY <1>11 DEF NoteBundle, ForgetBundle, TypeOK
    <2> QED
      BY <2>1, <2>2 DEF TypeOK, Fits
  <1>12. CASE NoteBundleStops \/ ForgetBundleStops
    <2>1. op.key \in Keys
      BY <1>12 DEF NoteBundleStops, ForgetBundleStops, Fits, Ops
    <2>2. CASE Stopped({op.key}) /\ UNCHANGED <<index, files, bundles, indexed>>
      BY <2>1, <2>2 DEF Stopped, TypeOK, Fits
    <2>3. CASE \E all : DOMAIN all \subseteq Keys /\ BundlesStop(all)
      <3>1. PICK all : DOMAIN all \subseteq Keys /\ BundlesStop(all)
        BY <2>3
      <3>2. /\ DOMAIN bundles' \subseteq Keys /\ indexed' \in BOOLEAN
            /\ Differ(Bundled, Bundled') \subseteq Keys
        BY <3>1, BundlesStopTypes
      <3>3. Stopped({op.key} \union Differ(Bundled, Bundled')) /\ UNCHANGED <<index, files>>
        BY <3>1 DEF BundlesStop
      <3>4. step' = "idle" /\ torn' \subseteq Keys /\ stops' \in 0..MaxStops
        BY <2>1, <3>2, <3>3 DEF Stopped, TypeOK
      <3> QED
        BY <3>2, <3>3, <3>4 DEF TypeOK, Fits
    <2>4. \/ Stopped({op.key}) /\ UNCHANGED <<index, files, bundles, indexed>>
          \/ \E all : DOMAIN all \subseteq Keys /\ BundlesStop(all)
      <3>1. CASE NoteBundleStops
        BY <1>10, <3>1 DEF NoteBundleStops
      <3>2. CASE ForgetBundleStops
        BY <1>10, <3>2 DEF ForgetBundleStops
      <3> QED
        BY <1>12, <3>1, <3>2
    <2> QED
      BY <2>2, <2>3, <2>4
  <1>13. ASSUME NEW k \in Keys, Drop(k)
         PROVE  TypeOK' /\ Fits'
    <2>1. /\ op' \in Op /\ step' = "dropIndex" /\ stops' \in 0..MaxStops
          /\ op'.read \subseteq DOMAIN index
      BY <1>13, NothingIsContent, ReadingsAreKeys, CountedTypes DEF Drop, TypeOK, Ops
    <2>2. DOMAIN files' \subseteq Safes \X Types /\ \A p \in DOMAIN files' : files'[p] \in Contents
      BY <1>13 DEF Drop, TypeOK, Less, Restrict
    <2> QED
      BY <1>13, <2>1, <2>2 DEF Drop, TypeOK, Fits
  <1>14. CASE UNCHANGED vars
    BY <1>14 DEF vars, TypeOK, Fits, Bytes
  <1>15. ASSUME Next
         PROVE  TypeOK' /\ Fits'
    <2>1. CASE \E k \in Keys, t \in Types, data \in Contents, extend \in BOOLEAN :
                 Write(k, t, data, extend)
      BY <1>1, <2>1
    <2>2. CASE \E read \in Readings, asked \in SUBSET Keys : List(read, asked) \/ ListStops(read, asked)
      BY <1>9, <2>2
    <2> QED
      BY <1>2, <1>3, <1>5, <1>6, <1>7, <1>8, <1>11, <1>12, <1>13, <1>15, <2>1, <2>2 DEF Next
  <1> QED
    BY <1>14, <1>15

\* Type correctness of the store: what is filed stays within the names and
\* contents there are, whatever stopped half-way or was misread.
THEOREM TypeCorrect == Spec => []TypeOK
  <1>1. Init => TypeOK /\ Fits
    <2>1. MaxStops \in Nat
      BY StoreAssumption
    <2>2. Init => TypeOK
      <3>1. DOMAIN << >> = {}
        OBVIOUS
      <3>2. SUFFICES ASSUME Init
                     PROVE  TypeOK
        OBVIOUS
      <3>3. /\ DOMAIN index = {} /\ DOMAIN files = {} /\ DOMAIN bundles = {} /\ indexed \in BOOLEAN
            /\ step = "idle" /\ torn = {} /\ stops = 0
        BY <3>1, <3>2 DEF Init
      <3>4. stops \in 0..MaxStops
        BY <2>1, <3>3
      <3> QED
        BY <3>3, <3>4 DEF TypeOK
    <2>3. Init => Fits
      BY DEF Init, Fits
    <2> QED
      BY <2>2, <2>3
  <1>2. TypeOK /\ Fits /\ [Next]_vars => TypeOK' /\ Fits'
    BY FitsStep
  <1> QED
    BY <1>1, <1>2, PTL DEF Spec

=============================================================================
