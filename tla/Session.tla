------------------------------ MODULE Session -------------------------------
(***************************************************************************)
(* One connection's session (protocol/session.go), the emission filter of  *)
(* its bind context (protocol/registry.go) and the adoption of what its    *)
(* batches build (display/display.go, execute).  A batch runs on the       *)
(* desktop's thread from its first statement to its reply, so nothing else *)
(* happens in between; between batches a person uses what is on screen.    *)
(*                                                                         *)
(* Objects are windows and the parts built inside them.  A statement fails *)
(* wherever it may: the batch stops there, with what it did already done.  *)
(***************************************************************************)
EXTENDS Naturals, Sequences, FiniteSets

CONSTANTS
  Ids,        \* the objects there may be, each built once
  Windows,    \* those of them that are windows
  Names,      \* what a statement may be keyed with
  NoName,     \* a statement without a key
  Nobody,     \* no object; as the target of a subscription, all of them
  MultiWindow,\* whether the application declared multiwindow
  MaxBatches, \* bound: how many batches the application sends
  MaxSets,    \* bound: how many sets there are in them
  MaxSubs     \* bound: how many subscriptions it holds at a time

ASSUME SessionAssumption ==
  /\ IsFiniteSet(Ids) /\ Windows \subseteq Ids /\ Nobody \notin Ids
  /\ NoName \notin Names
  /\ MultiWindow \in BOOLEAN /\ {MaxBatches, MaxSets} \subseteq Nat /\ MaxSubs \in Nat

Types == {"main", "normal", "dialog"}
Events == {"window_closing", "window_closed", "changed"}

\* what a subscription that names no event is to
AllEvents == "all events"

\* What an object can raise; a subscription to anything else is refused.
Raises(id) == IF id \in Windows \union {Nobody} THEN Events ELSE {"changed"}

VARIABLES
  phase,     \* idle | running | adopting | left: what the desktop does of it
  batches,   \* how many batches there were (for the bound)
  sets,      \* how many sets (for the bound)
  objects,   \* the object table
  keys,      \* the key table: what a path names
  stack,     \* the news under way, outermost first: id and path of each
  created,   \* the windows built and not yet adopted, in order
  suppress,  \* how deep emission is suppressed
  subs,      \* the subscriptions: target and event
  type,      \* the type of each window
  owner,     \* the owner each window asks for, and from its adoption on has
  made,      \* the objects ever built
  shown,     \* the application's windows, which the window manager has too
  slot,      \* the application's main window, once set
  deciding,  \* the windows whose close is being decided
  closed,    \* the windows that have closed
  said       \* the events sent by the last step

vars == <<phase, batches, sets, objects, keys, stack, created, suppress, subs, type, owner,
          made, shown, slot, deciding, closed, said>>

\* a path is the name of a top-level new and the names under it
Paths == (Names \X {NoName}) \union (Names \X Names)
NoPath == <<NoName, NoName>>

-----------------------------------------------------------------------------
(* Emission *)

Subscribed(id, event) == ({id, Nobody} \X {event, AllEvents}) \intersect subs # {}

\* EmitEvent, at a depth of suppression
Emitted(id, event, depth) ==
  IF depth = 0 /\ Subscribed(id, event) THEN {<<id, event>>} ELSE {}

\* Mutant of Suppressed: the batch's own doings are emitted as others are.
SuppressedNot(depth) == depth

Suppressed(depth) == depth + 1

\* Mutant of Announcing: what follows from an answer is suppressed with it.
AnnouncingNot(depth) == Suppressed(depth)

\* announcing: emission is open, whatever the depth
Announcing(depth) == 0

\* a batch that stops has unwound every suppression it was in
Unwound == 0

-----------------------------------------------------------------------------
(* Windows *)

\* Mutant of Close: the application's list keeps the window.
CloseKept(w, depth) ==
  /\ closed' = closed \union {w}
  /\ shown' = shown
  /\ said' = IF w \in closed THEN {} ELSE Emitted(w, "window_closed", depth)

\* Window.Close, once nobody is asked: a window that has closed is closed, and
\* nobody who holds it hears of it a second time.
Close(w, depth) ==
  /\ closed' = closed \union {w}
  /\ shown' = IF w \in closed THEN shown ELSE shown \ {w}
  /\ said' = IF w \in closed THEN {} ELSE Emitted(w, "window_closed", depth)

\* Window.Close of a window that is there to be asked about: put to the
\* application where it listens, and done where not.
AttemptClose(w) ==
  IF w \notin closed /\ suppress = 0 /\ Subscribed(w, "window_closing")
  THEN /\ deciding' = deciding \union {w}
       /\ said' = Emitted(w, "window_closing", suppress)
       /\ UNCHANGED <<shown, closed>>
  ELSE Close(w, suppress) /\ UNCHANGED deciding

\* What was built and is still to be adopted
Waiting == {created[i] : i \in DOMAIN created}

\* A window's type and owner may be set when it is built and at any time after.
\* The owner asked for is read at its adoption and never again.
Described(id) ==
  IF id \in Windows
  THEN /\ \E t \in Types : type' = [type EXCEPT ![id] = t]
       /\ IF id \in Waiting \/ id \notin made
          THEN \E o \in (objects \intersect Windows) \union {owner[id], Nobody} :
                 owner' = [owner EXCEPT ![id] = o]
          ELSE UNCHANGED owner
  ELSE UNCHANGED <<type, owner>>

\* SetOwner: past the overlays, from the window asked for to what owns it.  A walk
\* that ends meets no window twice.
Past(w) ==
  LET at[n \in 0..Cardinality(Windows)] ==
        IF n = 0 THEN owner[w]
        ELSE LET v == at[n - 1]
             IN IF v \notin Windows \ {w} \/ type[v] # "dialog" THEN v
                ELSE IF v \in Waiting THEN Nobody ELSE owner[v]
  IN at[Cardinality(Windows)]

\* A ring of overlays is walked for ever.
Walks(w) == owner[w] \in objects /\ Past(w) \in Windows \ {w} /\ type[Past(w)] = "dialog"

\* resolveOwnerWindow: an owner the session no longer holds is none.
OwnerOf(w) ==
  IF owner[w] \in objects /\ Past(w) \in Windows \ {w} THEN Past(w) ELSE Nobody

HasMain(w) == slot # Nobody \/ \E v \in shown \ {w} : type[v] = "main"

\* gateWindow: the first window is the main one
GatedType(w) == IF type[w] = "normal" /\ ~HasMain(w) THEN "main" ELSE type[w]

Rejected(w) ==
  \/ GatedType(w) = "main" /\ HasMain(w)
  \/ GatedType(w) = "normal" /\ ~MultiWindow
  \/ GatedType(w) = "dialog" /\ OwnerOf(w) = Nobody

-----------------------------------------------------------------------------
(* A batch *)

Init ==
  /\ phase = "idle" /\ batches = 0 /\ sets = 0
  /\ objects = {} /\ keys = << >> /\ stack = << >> /\ created = << >>
  /\ suppress = 0 /\ subs = {}
  /\ type = [w \in Windows |-> "normal"] /\ owner = [w \in Windows |-> Nobody]
  /\ made = {} /\ shown = {} /\ slot = Nobody /\ deciding = {} /\ closed = {}
  /\ said = {}

BatchBegins ==
  /\ phase = "idle" /\ batches < MaxBatches
  /\ phase' = "running" /\ batches' = batches + 1 /\ said' = {}
  /\ UNCHANGED <<sets, objects, keys, stack, created, suppress, subs, type, owner, made,
                 shown, slot, deciding, closed>>

\* Mutant of Kept: what a failed batch built is let go of.
KeptNot == << >>

\* what is built stays for the next adoption
Kept == created

\* Any statement may be refused.  The batch ends there.
BatchFails ==
  /\ phase = "running"
  /\ phase' = "idle" /\ stack' = << >> /\ suppress' = Unwound /\ created' = Kept /\ said' = {}
  /\ UNCHANGED <<batches, sets, objects, keys, subs, type, owner, made, shown, slot,
                 deciding, closed>>

\* new: the object is in the table before its properties are applied, which
\* emit what they change.  Parts are built inside a window.
New(id, name) ==
  /\ phase = "running" /\ id \notin made
  /\ IF id \in Windows THEN stack = << >> ELSE Len(stack) = 1
  /\ LET depth == IF stack = << >> THEN Suppressed(suppress) ELSE suppress
         path == IF stack = << >> THEN <<name, NoName>>
                 ELSE IF name # NoName /\ stack[1].path # NoPath THEN <<stack[1].path[1], name>>
                 ELSE NoPath
     IN /\ suppress' = depth
        /\ stack' = Append(stack, [id |-> id, path |-> path])
        /\ said' = Emitted(id, "changed", depth)
  /\ made' = made \union {id} /\ objects' = objects \union {id}
  /\ created' = IF id \in Windows THEN Append(created, id) ELSE created
  /\ Described(id)
  /\ UNCHANGED <<phase, batches, sets, keys, subs, shown, slot, deciding, closed>>

Named(path, id) == [p \in DOMAIN keys \union {path} |-> IF p = path THEN id ELSE keys[p]]

\* the end of a new, or of a set: its key, and its place in what it was built
\* inside.  The key is there even if the place is refused (BatchFails).  What was
\* set has the key it was found by already.
NewEnds ==
  /\ phase = "running" /\ stack # << >>
  /\ LET top == stack[Len(stack)]
     IN /\ keys' = IF top.path = NoPath THEN keys ELSE Named(top.path, top.id)
        /\ stack' = SubSeq(stack, 1, Len(stack) - 1)
        /\ suppress' = IF Len(stack) = 1 THEN suppress - 1 ELSE suppress
  /\ said' = {}
  /\ UNCHANGED <<phase, batches, sets, objects, created, subs, type, owner, made, shown,
                 slot, deciding, closed>>

\* between statements: the targets a statement may name, by id or by a key
Between == phase = "running" /\ stack = << >>

\* set, whose target is found by its id or by a key, and whose blocks build
\* parts under that key: a third level of keys is left out.
Set(id, path) ==
  /\ Between /\ id \in objects
  /\ sets < MaxSets /\ sets' = sets + 1
  /\ path = NoPath \/ (path \in DOMAIN keys /\ keys[path] = id /\ path[2] = NoName)
  /\ stack' = <<[id |-> id, path |-> path]>>
  /\ suppress' = Suppressed(suppress)
  /\ said' = Emitted(id, "changed", Suppressed(suppress))
  /\ Described(id)
  /\ UNCHANGED <<phase, batches, objects, keys, created, subs, made, shown, slot,
                 deciding, closed>>

\* Mutant of Forgotten: the object goes, its keys stay.
ForgottenNot(id) == objects' = objects \ {id} /\ keys' = keys

\* forget: the object, and every key that referenced it
Forgotten(id) ==
  /\ objects' = objects \ {id}
  /\ keys' = [p \in {q \in DOMAIN keys : keys[q] # id} |-> keys[p]]

\* destroy, which asks nobody and is not suppressed: a window closes, and what a
\* part was taken out of may tell of its change (a strip whose tab goes).
Destroy(id) ==
  /\ Between /\ id \in objects
  /\ Forgotten(id)
  /\ IF id \in Windows THEN Close(id, suppress)
     ELSE /\ said' \in {{}} \union {Emitted(o, "changed", suppress) : o \in objects \ {id}}
          /\ UNCHANGED <<shown, closed>>
  /\ UNCHANGED <<phase, batches, sets, stack, created, suppress, subs, type, owner, made,
                 slot, deciding>>

\* key=path, key=id
Surface(name, id) ==
  /\ Between /\ id \in objects
  /\ keys' = Named(<<name, NoName>>, id) /\ said' = {}
  /\ UNCHANGED <<phase, batches, sets, objects, stack, created, suppress, subs, type,
                 owner, made, shown, slot, deciding, closed>>

Subscribe(id, event) ==
  /\ Between /\ id \in objects \union {Nobody} /\ event \in Raises(id) \union {AllEvents}
  /\ Cardinality(subs) < MaxSubs
  /\ subs' = subs \union {<<id, event>>} /\ said' = {}
  /\ UNCHANGED <<phase, batches, sets, objects, keys, stack, created, suppress, type,
                 owner, made, shown, slot, deciding, closed>>

\* unsub, of one event, of all an object's, or of all there are, where it takes
\* anything away
Unsubscribe(id, event) ==
  /\ Between /\ id \in objects \union {Nobody} /\ event \in Raises(id) \union {AllEvents}
  /\ subs' = IF event # AllEvents THEN subs \ {<<id, event>>}
             ELSE IF id = Nobody THEN {}
             ELSE {s \in subs : s[1] # id}
  /\ subs' # subs /\ said' = {}
  /\ UNCHANGED <<phase, batches, sets, objects, keys, stack, created, suppress, type,
                 owner, made, shown, slot, deciding, closed>>

\* do <decision> allow: what follows is announced, though `do` is suppressed
Allow(w) ==
  /\ Between /\ w \in deciding
  /\ deciding' = deciding \ {w}
  /\ Close(w, Announcing(Suppressed(suppress)))
  /\ UNCHANGED <<phase, batches, sets, objects, keys, stack, created, suppress, subs,
                 type, owner, made, slot>>

Deny(w) ==
  /\ Between /\ w \in deciding
  /\ deciding' = deciding \ {w} /\ said' = {}
  /\ UNCHANGED <<phase, batches, sets, objects, keys, stack, created, suppress, subs,
                 type, owner, made, shown, slot, closed>>

BatchRuns ==
  /\ Between
  /\ phase' = "adopting" /\ said' = {}
  /\ UNCHANGED <<batches, sets, objects, keys, stack, created, suppress, subs, type,
                 owner, made, shown, slot, deciding, closed>>

\* The windows built since the last adoption join the application, or are
\* rejected and told to close; one of them may be asked to be the main window.
Adopt(main) ==
  /\ phase = "adopting" /\ created # << >>
  /\ LET w == Head(created)
     IN /\ ~Walks(w)
        /\ type' = [type EXCEPT ![w] = GatedType(w)]
        /\ owner' = [owner EXCEPT ![w] = OwnerOf(w)]
        /\ IF Rejected(w)
           THEN AttemptClose(w) /\ UNCHANGED slot
           ELSE /\ shown' = shown \union {w} /\ said' = {}
                /\ slot' = IF main THEN w ELSE slot
                /\ UNCHANGED <<deciding, closed>>
  /\ created' = Tail(created)
  /\ UNCHANGED <<phase, batches, sets, objects, keys, stack, suppress, subs, made>>

BatchReplied ==
  /\ phase = "adopting" /\ created = << >>
  /\ phase' = "idle" /\ said' = {}
  /\ UNCHANGED <<batches, sets, objects, keys, stack, created, suppress, subs, type,
                 owner, made, shown, slot, deciding, closed>>

-----------------------------------------------------------------------------
(* The person, the deadline and the departure *)

PersonChanges(id) ==
  /\ phase = "idle" /\ id \in made
  /\ said' = Emitted(id, "changed", suppress)
  /\ UNCHANGED <<phase, batches, sets, objects, keys, stack, created, suppress, subs,
                 type, owner, made, shown, slot, deciding, closed>>

PersonCloses(w) ==
  /\ phase = "idle" /\ w \in shown \ (closed \union deciding)
  /\ AttemptClose(w)
  /\ UNCHANGED <<phase, batches, sets, objects, keys, stack, created, suppress, subs,
                 type, owner, made, slot>>

\* Nobody answered, and a person forced it.
Forced(w) ==
  /\ phase = "idle" /\ w \in deciding
  /\ deciding' = deciding \ {w}
  /\ Close(w, Announcing(suppress))
  /\ UNCHANGED <<phase, batches, sets, objects, keys, stack, created, suppress, subs,
                 type, owner, made, slot>>

\* teardown: what is asked is settled unsaid, and every window closes
Leave ==
  /\ phase = "idle"
  /\ phase' = "left" /\ deciding' = {}
  /\ closed' = closed \union shown /\ shown' = shown \intersect closed /\ said' = {}
  /\ UNCHANGED <<batches, sets, objects, keys, stack, created, suppress, subs, type,
                 owner, made, slot>>

Next ==
  \/ BatchBegins \/ BatchFails \/ NewEnds \/ BatchRuns \/ BatchReplied \/ Leave
  \/ \E main \in BOOLEAN : Adopt(main)
  \/ \E id \in Ids :
       \/ PersonChanges(id) \/ Destroy(id)
       \/ \E path \in Paths \union {NoPath} : Set(id, path)
       \/ \E name \in Names \union {NoName} : New(id, name)
       \/ \E name \in Names : Surface(name, id)
  \/ \E id \in Ids \union {Nobody}, event \in Events \union {AllEvents} :
       Subscribe(id, event) \/ Unsubscribe(id, event)
  \/ \E w \in Windows :
       Allow(w) \/ Deny(w) \/ PersonCloses(w) \/ Forced(w)

Spec == Init /\ [][Next]_vars

-----------------------------------------------------------------------------
(* Properties *)

TypeOK ==
  /\ phase \in {"idle", "running", "adopting", "left"}
  /\ batches \in 0..MaxBatches /\ sets \in 0..MaxSets
  /\ objects \subseteq made /\ made \subseteq Ids
  /\ DOMAIN keys \subseteq Paths
  /\ Len(stack) <= 2 /\ Waiting \subseteq Windows
  /\ suppress \in Nat
  /\ subs \subseteq (Ids \union {Nobody}) \X (Events \union {AllEvents})
  /\ type \in [Windows -> Types] /\ owner \in [Windows -> Windows \union {Nobody}]
  /\ shown \subseteq Windows /\ slot \in Windows \union {Nobody}
  /\ deciding \subseteq Windows /\ closed \subseteq Windows

\* A key names an object the session holds, however it was keyed, re-keyed,
\* surfaced, nested, and whatever failed or was destroyed since: a statement
\* never reaches an object through a name that outlived it.
KeysNameObjects == \A p \in DOMAIN keys : keys[p] \in objects

\* A window that was built is on the screen, has closed, or is still to be
\* adopted, whatever became of the batch that built it.  Only a rejection may let
\* go of one that has not closed, and never in silence: an application that asked
\* to be asked is asked in that step whether it may close (display.go:866 says
\* that a rejected window is closed).
Known == shown \union closed \union Waiting

WindowsAreKept ==
  [][\A w \in Known \union (made' \intersect Windows) :
       w \notin made \/ w \in Known =>
         w \in Known' \/ (w \in deciding' /\ <<w, "window_closing">> \in said')]_vars

\* A window that closes is told to an application that listens, also when it
\* closes inside the answer that allowed it ("window_closed is the only thing
\* that tells it", decisions.go).
EveryCloseIsTold ==
  [][\A w \in closed' \ closed :
       phase' # "left" /\ Subscribed(w, "window_closed") => <<w, "window_closed">> \in said']_vars

\* What a batch builds and sets comes back at nobody as an event, also while a
\* window is half-way built.  Destroying a part is not suppressed, and may be
\* heard of by what held it.
NothingEchoes ==
  [][phase = "running" /\ objects \subseteq objects' =>
       \A id \in Ids : <<id, "changed">> \notin said']_vars

\* A closed window is among the application's windows only if it was adopted
\* closed: destroyed in the batch that built it, or before a batch that failed
\* was followed by one that did not.
ClosedIsGoneUnlessAdopted ==
  [][(shown' \intersect closed') \ (shown \intersect closed) \subseteq Waiting]_vars

\* "a rejected window is closed (which emits its window_closed event so the
\* client learns it did not open)" (display.go, execute).
RejectedIsTold ==
  [][\A w \in closed' \ closed : phase = "adopting" => <<w, "window_closed">> \in said']_vars
=============================================================================
