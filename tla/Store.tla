------------------------------- MODULE Store --------------------------------
(***************************************************************************)
(* One directory of an application's store (display/store.go) and the      *)
(* index of the bundles in it (display/bundleindex.go): the files, the     *)
(* index that says which key each belongs to, and the bundles.             *)
(*                                                                         *)
(* An operation runs alone, on the desktop's thread, and reaches the disk  *)
(* in steps: bytes, index, bundles.  It may stop at any of them, with an   *)
(* error or because the desktop ended; what is on the disk is the same.  A *)
(* file being rewritten is left with the first of its lines, the last of   *)
(* them perhaps cut short.                                                 *)
(*                                                                         *)
(* A read that fails stops nothing: a file that will not open is taken for *)
(* one that is not there, and an index read half-way for a shorter one.    *)
(* The operation goes on, and writes back what it saw.                     *)
(*                                                                         *)
(* Bytes are pieces; a hash is the content it is of (sha256 tells contents *)
(* apart).                                                                 *)
(***************************************************************************)
EXTENDS Naturals, Sequences, FiniteSets, Functions

CONSTANTS
  Keys,       \* what the application calls its items
  Safes,      \* bound: the names there are to file them under
  Types,      \* the types an item may be
  Psl,        \* the one of them a bundle has
  Pieces,     \* what items are made of
  MaxPieces,  \* bound: how long an item gets
  MaxStops,   \* bound: how many operations stop half-way, or misread
  Rank,       \* the order of the keys in a file
  Shorter,    \* what a key may read as when its line is cut
  BundleOf,   \* the bundle that content is under a key, where it is one
  NoHash      \* not worked out

Contents == UNION {[1..n -> Pieces] : n \in 0..MaxPieces}
Hashes == Contents \union {NoHash}

ASSUME StoreAssumption ==
  /\ Psl \in Types /\ MaxPieces \in Nat /\ MaxStops \in Nat
  /\ Rank \in [Keys -> Nat] /\ Shorter \in [Keys -> SUBSET Keys]
  /\ DOMAIN BundleOf \subseteq Keys \X Contents
  /\ NoHash \notin Seq(Pieces)

Items == [safe : Safes, typ : Types, hash : Hashes]

VARIABLES
  index,      \* the index: key to item
  files,      \* the files: name and type to content
  bundles,    \* the bundle index: key to bundle
  indexed,    \* whether the bundle index is there at all
  step,       \* idle, or the step the operation is at
  op,         \* the operation: its key, the item, what it writes, the keys
              \* it read of the index and whether it could list the directory
  torn,       \* history: the keys that a stop or a misreading left in doubt
  stops       \* how many of those there were (for the bound)

vars == <<index, files, bundles, indexed, step, op, torn, stops>>

PathOf(it) == <<it.safe, it.typ>>

\* sized, ReadFile: what is in the file, which is nothing where there is none
Bytes(it) == IF PathOf(it) \in DOMAIN files THEN files[PathOf(it)] ELSE << >>

With(f, x, y) == [z \in DOMAIN f \union {x} |-> IF z = x THEN y ELSE f[z]]
Less(f, x) == Restrict(f, DOMAIN f \ {x})

-----------------------------------------------------------------------------
(* Bundles *)

\* bundleOf: the item is a psl whose content is a bundle under this key
IsBundle(k, it) ==
  it.typ = Psl /\ PathOf(it) \in DOMAIN files /\ <<k, files[PathOf(it)]>> \in DOMAIN BundleOf

\* rebuildBundlesLocked
Rebuilt ==
  [k \in {j \in DOMAIN index : IsBundle(j, index[j])} |-> BundleOf[<<k, Bytes(index[k])>>]]

\* bundlesLocked: as written down, or built again where that is gone
Bundled == IF indexed THEN bundles ELSE Rebuilt

MayFail == stops < MaxStops

\* what an operation finds of them: those; or, where the bundle index, the index
\* or an item's own file will not open, some of what building it again gives
FoundBundles ==
  {Bundled} \union (IF MayFail THEN {Restrict(Rebuilt, S) : S \in SUBSET DOMAIN Rebuilt} ELSE {})

-----------------------------------------------------------------------------
(* A file that was being rewritten *)

\* what is left of it: the lines up to n, and the next one cut, or not there
Left(f, n, cut) ==
  LET whole == {k \in DOMAIN f : Rank[k] < n}
      next == {k \in DOMAIN f : Rank[k] = n /\ cut \in Shorter[k]}
  IN [k \in whole \union (IF next = {} THEN {} ELSE {cut}) |->
        IF k = cut /\ next # {} THEN f[CHOOSE j \in next : TRUE] ELSE f[k]]

\* the keys that reads otherwise for
Differ(f, g) ==
  {k \in DOMAIN f \union DOMAIN g :
     ~(k \in DOMAIN f /\ k \in DOMAIN g /\ f[k] = g[k])}

NoOp == << >>

Stopped(keys) ==
  /\ step' = "idle" /\ op' = NoOp
  /\ stops < MaxStops /\ stops' = stops + 1 /\ torn' = torn \union keys

-----------------------------------------------------------------------------
(* put and append *)

\* readLocked: the keys it reads, all of them or the first lines' only
Readings ==
  {DOMAIN index} \union
    (IF MayFail THEN {{k \in DOMAIN index : Rank[k] < n} : n \in 0..Cardinality(Keys)} ELSE {})

\* Mutant of Taken: only what the index names is taken.
TakenByIndex(read, listed) == {index[k].safe : k \in read}

\* Mutant of Taken: only what has a file is taken.
TakenByFile(read, listed) == IF listed THEN {p[1] : p \in DOMAIN files} ELSE {}

\* freeNameLocked: another item read, or another file, answers to it; the files
\* are not looked at where the directory cannot be listed
Taken(read, listed) ==
  {index[k].safe : k \in read} \union (IF listed THEN {p[1] : p \in DOMAIN files} ELSE {})

\* Mutant of Hashed: the hash an item had survives an append.
HashedOnce(data, extend, it) == IF extend THEN it.hash ELSE data

\* the hash once data is written: settled by a put, cleared by an append
Hashed(data, extend, it) == IF extend THEN NoHash ELSE data

\* what was misread, or not removed, counts against the bound
Counted(well) == IF well THEN UNCHANGED stops ELSE MayFail /\ stops' = stops + 1

\* The operation is under way; whoever else is filed under its name is in doubt.
Begins(k, it, data, extend, read, listed, removed) ==
  /\ step = "idle" /\ step' = "bytes"
  /\ extend => Len(Bytes(it)) + Len(data) <= MaxPieces
  /\ op' = [key |-> k, item |-> it, data |-> data, extend |-> extend,
            read |-> read, listed |-> listed]
  /\ torn' = torn \union {j \in DOMAIN index \ {k} : index[j].safe = it.safe}
  /\ Counted(read = DOMAIN index /\ listed /\ removed)
  /\ UNCHANGED <<index, bundles, indexed>>

\* write, to the bytes, of a key it does not find: the key gets a name
WriteNew(k, t, data, extend) ==
  \E read \in Readings, listed \in BOOLEAN :
    /\ k \notin read
    /\ \E s \in Safes \ Taken(read, listed) :
         Begins(k, [safe |-> s, typ |-> t, hash |-> NoHash], data, extend, read, listed, TRUE)
    /\ UNCHANGED files

\* write, to the bytes, of a key it finds: another piece, or all of it again.
\* An append of another type is refused.
WriteHeld(k, t, data, extend) ==
  \E read \in Readings :
    /\ k \in read /\ index[k].typ = t
    /\ Begins(k, index[k], data, extend, read, TRUE, TRUE)
    /\ UNCHANGED files

\* A put of another type removes the file there was; nobody looks whether it could.
WriteRetyped(k, t, data) ==
  \E read \in Readings, removed \in BOOLEAN :
    /\ k \in read /\ index[k].typ # t
    /\ Begins(k, [index[k] EXCEPT !.typ = t], data, FALSE, read, TRUE, removed)
    /\ files' = IF removed THEN Less(files, PathOf(index[k])) ELSE files

Write(k, t, data, extend) ==
  \/ WriteNew(k, t, data, extend)
  \/ WriteHeld(k, t, data, extend)
  \/ ~extend /\ WriteRetyped(k, t, data)

\* the bytes as they are once n pieces are written
Written(n) ==
  With(files, PathOf(op.item),
       (IF op.extend THEN Bytes(op.item) ELSE << >>) \o SubSeq(op.data, 1, n))

WriteBytes ==
  /\ step = "bytes" /\ step' = "index"
  /\ files' = Written(Len(op.data))
  /\ op' = [op EXCEPT !.item.hash = Hashed(op.data, op.extend, op.item)]
  /\ UNCHANGED <<index, bundles, indexed, torn, stops>>

\* The file will not open, or not all of the data goes into it.
WriteBytesStops ==
  /\ step = "bytes"
  /\ \/ UNCHANGED files
     \/ \E n \in 0..Len(op.data) : files' = Written(n)
  /\ Stopped({op.key})
  /\ UNCHANGED <<index, bundles, indexed>>

\* what it read, with its item
IndexOf == With(Restrict(index, op.read), op.key, op.item)

WriteIndex ==
  /\ step = "index" /\ step' = "note"
  /\ index' = IndexOf /\ torn' = torn \union (DOMAIN index \ DOMAIN index')
  /\ UNCHANGED <<files, bundles, indexed, op, stops>>

IndexStops(whole) ==
  /\ \/ UNCHANGED index
     \/ \E n \in 0..Cardinality(Keys), cut \in Keys : index' = Left(whole, n, cut)
  /\ UNCHANGED <<files, bundles, indexed>>

WriteIndexStops ==
  /\ step = "index"
  /\ IndexStops(IndexOf)
  /\ Stopped({op.key} \union Differ(index, index'))

\* writeBundlesLocked: a file that would say nothing is removed
BundlesBecome(all) == bundles' = all /\ indexed' = (all # << >>)

BundlesStop(all) ==
  /\ \/ UNCHANGED <<bundles, indexed>>
     \/ BundlesBecome(all)
     \/ /\ all # << >> /\ indexed' = TRUE
        /\ \E n \in 0..Cardinality(Keys), cut \in Keys : bundles' = Left(all, n, cut)
  /\ UNCHANGED <<index, files>>
  /\ Stopped({op.key} \union Differ(Bundled, Bundled'))

\* Mutant of Noted: an item that stops being a bundle keeps its entry.
NotedOnce(all, is) ==
  IF is THEN With(all, op.key, BundleOf[<<op.key, Bytes(op.item)>>]) ELSE all

\* noteBundleLocked: the bytes read back say which bundle the item is, if any
Noted(all, is) ==
  IF is THEN With(all, op.key, BundleOf[<<op.key, Bytes(op.item)>>]) ELSE Less(all, op.key)

\* nothing is written where it was not one and is not one
NothingToNote(all, is) == ~is /\ op.key \notin DOMAIN all

NoteBundle ==
  /\ step = "note" /\ step' = "idle" /\ op' = NoOp /\ torn' = torn \ {op.key}
  /\ LET is == IsBundle(op.key, op.item)
     IN IF NothingToNote(Bundled, is) THEN UNCHANGED <<bundles, indexed>>
                                      ELSE BundlesBecome(Noted(Bundled, is))
  /\ UNCHANGED <<index, files, stops>>

\* Some of it is not written, or was not read: not the item's own bytes either.
NoteBundleStops ==
  /\ step = "note"
  /\ \E all \in FoundBundles, is \in {IsBundle(op.key, op.item), FALSE} :
       \/ ~NothingToNote(all, is) /\ BundlesStop(Noted(all, is))
       \/ /\ NothingToNote(all, is) /\ Stopped({op.key})
          /\ UNCHANGED <<index, files, bundles, indexed>>

-----------------------------------------------------------------------------
(* drop *)

\* to the file: a key it does not find is dropped already, and a file that
\* cannot be removed leaves all as it is
Drop(k) ==
  \E read \in Readings :
    /\ step = "idle" /\ k \in read
    /\ files' = Less(files, PathOf(index[k]))
    /\ op' = [key |-> k, item |-> index[k], data |-> << >>, extend |-> FALSE,
              read |-> read, listed |-> TRUE]
    /\ step' = "dropIndex" /\ Counted(read = DOMAIN index)
    /\ UNCHANGED <<index, bundles, indexed, torn>>

Without == Less(Restrict(index, op.read), op.key)

DropIndex ==
  /\ step = "dropIndex" /\ step' = "forget"
  /\ index' = Without /\ torn' = torn \union (DOMAIN index \ (DOMAIN index' \union {op.key}))
  /\ UNCHANGED <<files, bundles, indexed, op, stops>>

DropIndexStops ==
  /\ step = "dropIndex"
  /\ IndexStops(Without)
  /\ Stopped({op.key} \union Differ(index, index'))

ForgetBundle ==
  /\ step = "forget" /\ step' = "idle" /\ op' = NoOp /\ torn' = torn \ {op.key}
  /\ IF op.key \in DOMAIN Bundled
     THEN BundlesBecome(Less(Bundled, op.key)) ELSE UNCHANGED <<bundles, indexed>>
  /\ UNCHANGED <<index, files, stops>>

ForgetBundleStops ==
  /\ step = "forget"
  /\ \E all \in FoundBundles :
       \/ op.key \in DOMAIN all /\ BundlesStop(Less(all, op.key))
       \/ /\ op.key \notin DOMAIN all /\ Stopped({op.key})
          /\ UNCHANGED <<index, files, bundles, indexed>>

-----------------------------------------------------------------------------
(* list and bundlesHashed *)

\* hashedLocked, of those of the items read whose files are read
Filled(read, hashed) ==
  [k \in read |->
     IF k \in hashed /\ index[k].hash = NoHash /\ PathOf(index[k]) \in DOMAIN files
     THEN [index[k] EXCEPT !.hash = files[PathOf(index[k])]] ELSE index[k]]

\* All items are hashed, or those found to be bundles, where their files will
\* open; what was read is written back when that gave any of them a hash.
Fills(read, hashed) ==
  step = "idle" /\ hashed \subseteq read /\ Filled(read, hashed) # Restrict(index, read)

List(read, hashed) ==
  /\ Fills(read, hashed)
  /\ index' = Filled(read, hashed) /\ torn' = torn \union (DOMAIN index \ read)
  /\ Counted(read = DOMAIN index)
  /\ UNCHANGED <<files, bundles, indexed, step, op>>

ListStops(read, hashed) ==
  /\ Fills(read, hashed)
  /\ IndexStops(Filled(read, hashed))
  /\ Stopped(Differ(index, index'))

-----------------------------------------------------------------------------
Init ==
  /\ index = << >> /\ files = << >> /\ bundles = << >> /\ indexed = FALSE
  /\ step = "idle" /\ op = NoOp /\ torn = {} /\ stops = 0

Next ==
  \/ \E k \in Keys, t \in Types, data \in Contents, extend \in BOOLEAN : Write(k, t, data, extend)
  \/ \E k \in Keys : Drop(k)
  \/ \E read \in Readings, hashed \in SUBSET Keys : List(read, hashed) \/ ListStops(read, hashed)
  \/ WriteBytes \/ WriteBytesStops
  \/ WriteIndex \/ WriteIndexStops
  \/ NoteBundle \/ NoteBundleStops
  \/ DropIndex \/ DropIndexStops
  \/ ForgetBundle \/ ForgetBundleStops

Spec == Init /\ [][Next]_vars

-----------------------------------------------------------------------------
(* Properties *)

TypeOK ==
  /\ DOMAIN index \subseteq Keys /\ \A k \in DOMAIN index : index[k] \in Items
  /\ DOMAIN files \subseteq Safes \X Types /\ \A p \in DOMAIN files : files[p] \in Contents
  /\ DOMAIN bundles \subseteq Keys /\ indexed \in BOOLEAN
  /\ step \in {"idle", "bytes", "index", "note", "dropIndex", "forget"}
  /\ torn \subseteq Keys /\ stops \in 0..MaxStops

\* No two keys are filed under one name, whatever stopped half-way or would not
\* open, and whatever was lost with it: no later write or drop of one reaches
\* the bytes of another.
OneFileEach ==
  \A j, k \in DOMAIN index : j # k => index[j].safe # index[k].safe

\* A key that held nothing starts from nothing, though a lost or a misread index
\* leaves files behind that no key names; but where the directory cannot be
\* listed as well (freeNameLocked goes by the index alone then).
NewStartsEmpty ==
  step = "bytes" /\ op.key \notin op.read /\ op.listed => PathOf(op.item) \notin DOMAIN files

\* An item that is listed is there, and the hash it is listed with is the hash of
\* its bytes, unless a stop or a misreading left that key in doubt and no write
\* of it has completed since: an upload is not skipped for a copy that is not
\* there.
HashIsTrue ==
  step = "idle" =>
    \A k \in DOMAIN index \ torn :
      PathOf(index[k]) \in DOMAIN files /\ index[k].hash \in {NoHash, files[PathOf(index[k])]}

\* The bundles found are the items that are bundles, each as its bytes say, for
\* every key that no stop and no misreading left in doubt.
BundlesAgree ==
  step = "idle" =>
    \A k \in Keys \ torn :
      IF k \in DOMAIN index /\ IsBundle(k, index[k])
      THEN k \in DOMAIN Bundled /\ Bundled[k] = BundleOf[<<k, Bytes(index[k])>>]
      ELSE k \notin DOMAIN Bundled

\* "so being wrong here costs an upload silently SKIPPED -- which is why it is
\* settled inside the same lock as the write that invalidates it, and never
\* outside" (store.go, storeItem.hash).
HashIsSettled ==
  step = "idle" =>
    \A k \in DOMAIN index : index[k].hash \in {NoHash, Bytes(index[k])}
=============================================================================
