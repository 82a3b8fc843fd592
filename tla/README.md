# A verification of KittyTK in TLA+

KittyTK is a user-interface toolkit whose applications reach the display only over
a wire: an application and the desktop that shows it may be two processes on two
machines. What is hard in it is not drawing but conversation: who has been asked,
who has answered, who has left, and what happens when those cross. These modules
model that conversation.

Parse a module with `tlasany M.tla`, check a run with `tlc -config X.cfg M`, check
the proofs with `tlapm M.tla`. `PROJECT.json` lists every run with its properties,
the source lines each definition stands for, for every checked property a mutation
of the model that breaks it, the hazards the properties are for, the disagreements
found and the theorems proved.

## 1. Inventory

All that touches a window or a trinket runs on one thread, the desktop's, which
drains functions posted to it. A connection has a reader and a writer goroutine on
the display's side; the application's library has a reader, and a goroutine per
kind of thing the display says.

| Part | State it keeps | Operations | What is hard | What makes it correct |
|---|---|---|---|---|
| Decisions (`protocol/decisions.go`) | per connection the questions held open; per question its callback, its timer, its number of waits | ask, allow, deny, waiting, run out, connection gone | a timer's posted run races the answer and the extension; settling re-enters | one verdict per question; a deadline never lost, a superseded one never obeyed |
| Window close and quit (`objects/window`, `objects/trinkets/desktop.go`, `dialog.go`) | closed, deciding, the permission of the close handler; the quits waiting; the force-close dialogs and who waits on them | close, answer, deadline, dialog's answer, destroy, quit, disconnect | deep synchronous recursion: an answer closes a window, whose observers resume a quit, which closes others | no window closes without leave; a waiting quit waits for something; a refusal is final |
| Queries (`source/application.go`, `client/query.go`, `display/appsources.go`) | outstanding scopes, those not yet named, the application's queries, each answer's held-back record | read, let go, reply, refuse, record, flush, finish, destroy | replies carry no question; letting go crosses the answer | own records, in order, once; no query left behind |
| Transport (`client/remote.go`, `display/display.go`) | two sockets' ends, the writer's lock, a channel per lane, the outbound queue, gone and written | exec, send, read, route, run a batch, say, write, hang up | channels that fill, ends that close at any moment | a batch gets its own reply; what is said arrives in order or not at all; everybody stops |
| Session and binding (`protocol/session.go`, `registry.go`) | keys, objects, subscriptions, the suppression counter, what a batch built | execute, subscribe, emit, forget | batches that fail half-way; echoes | what a failed batch built is accounted for; no wire change echoes |
| Window manager (`objects/window/manager.go`) | z-order, active and previous window, cycle order, three kinds of modal stack | add, remove, activate, focus, raise, cycle, minimise, show and close a modal | stale references, stacks with different owners | overlays above owners; a blocked window can be unblocked; the keyboard does not go to a blocked or a closed window |
| Tear-off (`objects/window/tearoff.go`, `desktop_tearoff.go`) | surfaces and the windows on them | tear, re-dock, close | two surfaces, one modal | as above, across surfaces |
| Admission (`display/auth.go`, `prompt.go`, `known.go`) | the rules, the prompt on screen and those queued | admit, answer, time out | several connections waiting for one person | a decision made is a decision applied |
| Store (`display/store.go`) | an index file, a file per item, an index of the bundles | put, append, drop, list, read | a stop between two writes, or inside one | an item is never filed over another; a hash or a bundle written down is that of the bytes, but for the items a stop or a misreading left in doubt |
| Wire language (`wire/`) | none | parse, encode | quoting, nesting | they are inverses |
| Data views (`treesource.go`, `listsource.go`) | spines and caches over queries | window, extend, invalidate | answers for a view that has moved on | the screen shows one sequence |
| Layout, keys, focus, trinkets, backends, host programs, the Python and C libraries | see `PROJECT.json` | | drawing, input, configuration | |

How they meet: the transport carries batches to the session, which makes windows and
calls their handlers; a window's close handler puts a decision, whose `do` comes
back through the transport; the window's observers report to the desktop's quit; a
view's reads become queries, batches of the other direction, answered with
statements that are no batch at all; a connection's end reaches the decisions, the
windows and the queries, in that order.

## 2. Plan

The modules, in the order of how much of the program rests on them. Each takes its
sets as CONSTANTS under a named assumption, has one action per operation, and no
RECURSIVE operator, so that it can be proved about.

1. `Decisions`, and `Verdicts`, what it promises. *Done, with proofs.*
2. `WindowClose`, which composes `Decisions` with windows, quits, dialogs and the
   thread's call stack. *Done, with proofs.*
3. `Queries`, and `Answers`, what a source promises. *Done, with proofs, but for places,
   totals, joined records, staleness and nested arrivals.*
4. `Transport`: one connection, end to end. *Done, with proofs.*
5. `WindowManager`: activation, overlays, the modal stacks, the cycle order, what the
   menu bar and the dock remember. *Done on one surface, with proofs; left are torn-off
   windows, MDI children and drags.*
6. `Session`: batches that fail half-way, destroys, subscriptions, suppression, the
   adoption of windows. *Done for one connection, with proofs; left are templates and
   `ask`.*
7. `Store`: an item's bytes, its index and the bundles around a stop. *Done for one
   directory, with proofs; left are the handles.*
8. `Admission`: the rules and the queue of prompts.
9. `Arrivals`: the coalescing of nested notices in `source/application.go`.

Every safety property and every action property that a run finds to hold is the
subject of a theorem of section 6. Worth proving next: the invariants of `Admission` and
`Arrivals` once they are written, and those of `WindowManager` again when windows can be
torn off to surfaces of their own.

## 3. The modules and the code

**Verdicts** says what a decision promises, **Decisions** how
`protocol/decisions.go` keeps it. `open` is the `decisions` map of a BindContext and
`told` records the calls of a decision's callback. The timer is three facts:
`armed`, how many waits the question was given; `ticking`, whether the timer of the
latest runs; `posted`, the runs on their way to the desktop's thread. Stopping a
timer does not recall a posted run, which is why `Stale` exists. `Leave` and
`SettleHeld` are the halves of `Undecided`: the table is taken under the lock, and
each decision is settled after it.

**WindowClose** models a thread that calls itself. `stack` is its call stack, one
record per call to be finished, and each kind of frame has its actions: an
`attemptClose` consults the handler, closes children, then closes; `settle` closes,
then reports; `CloseDecided` takes down the dialog, whose waiters are settled in
turn; `resumeQuit` begins a sweep. Nothing else begins until the stack is empty,
which is what the desktop's thread guarantees. `allowing` is the flag of that name in
the handler of `window_protocol.go`; `deciding`, `closed`, `quitWanted`,
`appQuitWanted` and `forceClose` are fields of those names; `cause` is history. The
questions are those of `Decisions`, instantiated.

**Answers** says what a reader of an application's records is promised; **Queries**
is both halves of the mechanism and the two streams between them. A question is its
place in the order asked, a name the wire does not carry; `named` is the number a
reply gave it and `number` the one the application minted, and they ought to agree.
The display's handlers run on the desktop's thread and are one action each.
Readers let go at any time, and several sources of one connection may have questions
out at once: then a reply may name the wrong one. `InOneLine` says of a state that all
questions waiting for their reply are of one source and none of them has been let go;
it is the hypothesis of what is said of records, and of nothing else. An application may
mint a number for a question it then refuses, its scope being unreadable (`TakeNew`).

**Transport** is one connection. A goroutine of the application is where it stands
(`at`), a batch is its number, a reply the number of the batch it answers -- which
nothing on the wire carries, so that `Exec` returning the right one is something to
be checked. A `lane` is a thing the display says unasked (events, answers, its own
batches), with its channel and goroutine; one in `Serving` answers with a `Send`, one
in `Asking` may `Exec` from its handler. `writeMu` is held by `Exec` until it is
answered. On the display's side `out`, `gone` and `written` are the fields of those
names, and `hangUp` is its three steps. A socket closed over unread input may take
back what was on its way, as sockets do; of the batches that had come, the display goes
on reading those its scanner holds (`CloseSocket`).

**WindowManager** is one desktop surface. Everything there runs on the desktop's
thread, so a step is a whole handler; what makes the handlers hard is that each is
several methods of the manager in a row, one feeding the next. So the manager is one
record, `m`, each method an operator from a manager to a manager under the method's
name (`Activate`, `EndCycle`, `RestoreWindow`, `Removed`), and an action composes
them as the handler calls them. The lists that only ever gain, lose or move a window
to the end -- z-order, cycle order, modal stacks -- are orders, sets of pairs, which
say exactly what a list without repetition says and can be reasoned about without
indices. The three kinds of modal stack are one order of registration, cut by owner
and application as `registerModalLocked` cuts it. A window's type may be set after it was
adopted (`SetType`, of the windows in `Retypes`), which the stacks take no notice of; its
owner is settled at adoption, for `owner=` only stores an id that is read then. A window
of `Doomed` may be adopted when it has closed already, as one built and destroyed in one
batch is. `previous` is what the menu bar
remembers, `entries` the dock's, `pressed` the press under way; they are where a
closed window survives. Where the pointer is and what covers what is geometry: a
press may fall on any window on the screen, and a release finds it uppermost or not.

**Session** is one connection's session, its emission filter and the adoption of
windows. A batch is a sequence of steps, for any of them may fail and leave the
others done; nothing else runs in between, which `phase` says. `stack` holds the
`new`s under way with the key path of each, `created` is the factory's list of what
is yet to be adopted, `suppress` the counter of that name, `said` the events of the
last step. A `set` describes again and may build parts in what it sets; a `destroy` may be
of a window or of a part. A person acts between batches. The window's own close is that of
`WindowClose` seen from the application: asked about if it listens, happening if not. So
is the close of a window the adoption rejects (`Adopt`).

**Store** is a directory. An operation is its steps on the disk (bytes, index, bundle
index), any of which may stop, by an error or because the desktop ended; a file that
was being rewritten is left with a first part of its lines, the last perhaps cut
short. Nor does every read succeed: an index that will not open is taken for an absent one
and one read half-way for a shorter one (`Readings`), a bundle index that will not open is
built again from what does (`FoundBundles`), a directory that cannot be listed names no
file (`Taken`), and a file that a change of type leaves behind may not go
(`WriteRetyped`). The operation goes on and writes back what it saw. `torn` is history:
the keys left in doubt, taken out again when an operation on them completes. They are the
key of an operation that stopped, the keys whose lines the rewritten index or bundle
index lost or reads otherwise, and the keys that a new one, named while the index or the
directory was misread, shares its name with. A hash is the content it is of.

`PROJECT.json` maps every definition to its lines. What the definitions leave out
inside those lines is formatting, tracing, geometry and the content of records.

## 4. The runs

| Run | Instance | What it shows |
|---|---|---|
| `decisions` | 2 questions, 2 connections, 3 waits | every order of answers, extensions, timers, posts and departures; also that every timed question and every question of a departed connection settles |
| `window_close` | 2 applications with a window each, 3 questions | closes, quits, dialogs answered or dismissed by their [x], destroys, disconnections in every order |
| `close_family` | a window and its child, 2 questions of 2 waits, the child's subscription coming and going, a desktop that ends with its last window | permissions that do not outlive their close; an exit with nothing open |
| `close_live` | 1 window, 2 questions of 2 waits | every close comes to an end, whatever is extended, unless the person dismisses its dialog by the [x] |
| `queries` | 2 sources, a sequence on each, 2 questions of at most 2 records, in the states of `InOneLine` | the promise of Answers is kept |
| `queries_crossed` | 2 sources, readers that let go at any time, records of at most 1 | destroys name held queries, no more queries are left than were let go unnamed, an ended scope stays ended, every scope ends |
| `transport` | a thread and a lane that both `Exec`, 2 batches, 3 statements unasked, channel, queue and socket of 1 | own replies, order, the hang-up, and that everything stops unless the reader is caught |
| `window_manager` | a main window with a palette and a modal of its own, a modal of the application that may be adopted closed, two prompts, which can be minimized; any 3 of the 6 opened; the main window's modal may have its type set again | overlays stay above owners, modals block only what can be unblocked, an answer closes its own prompt, and how a closed or a blocked window may get the keyboard |
| `session` | 2 windows and a part, 1 name, 3 batches with 1 `set`, 1 subscription at a time | keys, windows and events through failed batches, destroys and rejections |
| `store` | 2 keys, one the start of the other, 2 types, 3 names, contents of at most 1 piece, 2 stops or misreadings | names, hashes and bundles around stops at any step and reads that fail |

Two runs end in a violation, and are the first two disagreements of section 7:
`app_quit` and `window_gone`.

Why these bounds are enough. Two of a thing is what a crossing needs: two questions
for a mix-up of replies, two windows for a quit that waits on one and reaches the
other, two senders for one lock. Three windows make a modal, what it blocks and what
is exempt from it, and opening any three of six covers each pair of kinds. Three
batches are one that fails, one that adopts what it left, and one after; a `set` and a
subscription are enough for each to be there at the wrong moment. Two stops are one while
the other is being made good, of which either may be a read that failed; the names suffice
for each key and a file nobody owns any more, and one piece tells a file from an empty one
and a bundle from neither. A third wait adds a timer that is stale twice over.
In `close_family` and `close_live` two waits make an extension and a deadline that is
stale; in `window_close` one wait is enough, the timers being `Decisions`' own subject. In
`transport` a channel of one is full as soon as a handler is slow, and of three statements
the handler has one, the channel one, and the reader the one it cannot hand on: that is the
reader caught, which the run reaches. A queue and a socket of one fill while the
application does not read. The bounds are constants (`MaxIds`,
`MaxWaits`, `MaxScopes`, `MaxRecords`, `MaxCalls`, `MaxSaid`, `MaxTraffic`, `MaxOpened`,
`MaxBatches`, `MaxSets`, `MaxSubs`, `MaxPieces`, `MaxStops`) that appear as guards
of the actions that count, and stand for no limit of the code; `Room`, `OutRoom` and
`SocketRoom` do stand for one (256, 64, 1024, a socket's buffer), scaled down.

The constraint of `queries` is `InOneLine` itself: the run looks no further than a state
in which a reply could be taken by the wrong scope, and the theorem about it has the same
hypothesis. `queries_crossed` has no constraint.

The two larger close runs use a VIEW that forgets the past of settled questions, on
which no action and no property of those runs depends.

`window_manager`, `session` and `store` use symmetry, of values their modules only
compare, and check no liveness. Each module states its types in a `TypeOK`; runs spend their time
on the other properties, and the types of what is proved about are part of its
inductive invariant.

Deadlock is checked in `window_manager` only, where a menu can always be opened.
Elsewhere an application may leave, a desktop ends, and when the
bounded counts (or, in the store, the names) are used up the model rightly stops. That nobody waits for ever is
stated as liveness instead.

## 5. Fairness

`Decisions`: a started timer fires, a posted function runs, and the loop of
`Undecided` finishes. `WindowClose`: the thread goes on with what it began, timers
fire, and a posted deadline gets its turn however busy the thread is (strong
fairness: a post waits in a queue while the thread is not idle, it is not
re-enabled by luck); and a person who is asked answers in the end, an assumption
about people without which no dialog ever closes. Nothing is assumed of
applications. `Queries`: both ends read what arrives, and an application that takes
up a question ends its answer, which is what a fill function is asked to do.
`Transport`: every goroutine runs and the desktop drains its posts; nobody has to
send, speak, close or hang up. Go's mutex is fair enough for that, the number of
senders being finite. The window manager, the session and the store promise nothing
about time and have no fairness.

## 6. What is proved

Each theorem is of the specification of its module and holds for every value of the
constants that satisfies the module's named assumption; where one needs more, it says
so in an ASSUME of its own and below.

`DecisionsProofs` proves, for any sets of ids and connections and any number of
waits:

- `InductiveInvariant`: `IInv == TypeOK /\ Consistent /\ WaitIsCounted` holds.
  `WaitIsCounted` is not inductive by itself: that extending a question loses no
  deadline needs that a posted run's number never exceeds the waits given, and is
  smaller while a timer runs, which is `Consistent`.
- `TypeCorrect`, `ConsistentAlways` and `DeadlineNeverLost`, its parts.
- `AnswerWinsOverAnOldTimer`: the action property `OnlyTheLastWaitDecides`.
- `KeepsThePromise`: `Decisions` implements `Verdicts`; the initial states map to
  initial states, and each step to a step or a stutter.

`WindowCloseProofs` proves the seven safety and action properties of the close runs and
their types, for any windows, families and applications. `QuestionsAreDecisions` comes
first: what this module does to questions is a behaviour of `Decisions`, so that its
invariant holds of them and is part of `Typed`, with the types of the call stack. The
thread's recursion is what the proofs are about, and each invariant says of every call
still on the stack what is true until it returns; `Becomes(F)` (the call on top gives
way to the calls F) and `Begun` close the steps that concern none of them.

- `PermissionIsForOneClose`, by `Permitted`: permission is there only for the window the
  thread closes next.
- `ListenersAreHeard`, by `Leaves`: past the question there is a call only of a window
  whose close was allowed or forced in this very turn of the thread.
- `NoIsFinal`, by `Refusing`: all that a refusal leaves on the stack is its own end.
- `QuitIsAwaited`, by `Undecided` (a closed window is not being decided) and `Pending`: a
  quit that waits has a window that is asked, or the thread has yet to come to it.
- `SomebodyIsAsked`, by `EveryoneAsked`: a window being decided has a question open, a
  dialog with somebody waiting on it, on the screen or dismissed by its [x], or an answer in
  the thread's hands. The dismissed dialog is the property's one exception, in which nobody
  is asked any more (section 7).
- `DialogIsAboutSomething`, by `HeardFirst` and `AboutSomething`.
- `NothingIsLost`, by `Swept`: a call that waits is waiting for the close above it on the
  stack, and what it has not closed yet is on its list. It assumes `Family`, that a window and its
  parent belong to one application: `SetParentWindow` asks for no such thing, and nothing
  but the tests calls it.

`QueriesProofs` has three inductive invariants. `Kept` is of any sources and any readers:
a number is in one place, the reply that says it, the scope that reads under it or the
destroy that gives it up (`Once`), and questions come in the order they were put
(`Outstanding`, `Taken`, `Coming`). From it come `TypeCorrect`, `OnlyKnownDestroys` (no
destroy is answered with an error) and `TheEndIsTheEnd`.

`Counted` is of any sources and any readers too, and is why `QueriesAreWanted` holds
though replies name the wrong scopes: which question a reply names cannot be said, but how
many there are can. Every question refused to a scope was turned down by the application
or is an error on its way (`Refusals`), and a query is lost only as its reply finds nobody
waiting: every scope asked for is then named, refused or let go unnamed, so that there are
as many of the last as there are queries lost (`FewLost`).

`Orderly` adds what holds under `InOneLine`: an answer names no question, and that it is
taken by the scope it is for is a fact about two queues at once, the answers on their way
back and behind them the questions still on their way out. `InTurn` says that there is a
reading of the queues under which answers come oldest first and every scope that waits has
its answer or its question under way; `NamedTrue` that a scope's name is its own question's
number; `Stream` that between the records a scope has and those the application sent, the
rest are on their way, each once and in order. From it comes `ThePromiseIsKept`, that
`Queries` implements `Answers` step by step as long as `InOneLine` holds; it is a theorem
of `Spec /\ []InOneLine`, for any sources and readers, and without that hypothesis it is
false, as section 7 says.

`TransportProofs` proves, for any goroutines, lanes, capacities and numbers of
batches:

- `ReplyIsOwnAlways`: Exec returns the reply to what it sent. By itself the property
  says nothing of the lines under way, which carry no batch number in the code, so
  the inductive invariant `IInv` does. `Pipeline`: until the reader has ended, the batch of
  whoever holds the writer, or its reply, is in one place at most of socket, desktop,
  queue, socket and channel, and no other batch is in any; while nobody holds the
  writer there is none at all. `Writer` ties the lock to the one goroutine that
  awaits; `Replies` and `Ended` carry what is left once the reader has gone: a reply
  on the channel is the holder's, and nothing is sent any more. The lemmas on lines
  say what appending, taking the head and cutting short leave of a sequence that
  holds one reply at most; `FarStep` and `NearStep` close the steps of the display
  and of the goroutines that move no batch.
- `TypeCorrect`, with the bounds of every channel, queue and socket.
- `EverythingInOrder`, by `Ordered`: lane by lane, what the handlers were given, what is in
  the channel, what the reader holds, what is in the socket and in the queue follow each
  other in the order said, and nothing of what was said before the connection was given
  up (`Bound`) is missing ahead of anything that got as far as the socket (`Lined`); while
  the socket is open the rest of it is queued behind (`Coming`).
- `QueuedGoes`, by `Unhurried`: in a connection that only its own hang-up ends, the reader
  stops after the socket, the socket after the writer, the writer after what was queued,
  and until then each reply and the goodbye are somewhere on the way.

`WindowManagerProofs` proves, for any windows, kinds, owners and applications that
satisfy `WindowManagerAssumption`, and however many are opened, all six properties of
the run and the types. The inductive invariant is `Good(m)`: the orders are chains (orders
every non-empty part of which has a first and a last), the z-order has every overlay above
its owner (unless the type of one of the two was set again), what is managed is in the
cycle order, a window minimized and managed has an entry in the dock, an owner was added
before what it owns, and the modal stacks are the managed windows adopted as modals, open
or closed before they were adopted. The proof follows the code's shape: each method is shown to keep `Good` and
to be a `Moves` -- the keyboard goes to nobody or, unless it is blocked, to one of a
set of windows, and the cycle order gains no more than that set and the dock -- and
`MovesTwice` composes two methods to a handler. `Quiet` gathers the actions that open and
close nothing. For `WayOutAlways`, the top modal of the widest scope in which any is open
is never blocked (`OneIsFree`) as long as no modal's type was set again; it may be one that
was adopted closed, and then what it blocks stays blocked (section 7). That `CHOOSE` of a last or a neighbouring element is what
it is meant to be is `EndsOf` and `NeighbourOf`.

`SessionProofs` proves all five properties of its run, and the types, for any objects,
names and batches under `SessionAssumption`. `IInv` adds to `KeysNameObjects` what the properties lean on
in the middle of a `new` or a `set`: the frames of the stack name objects of the table (so that
the key at the end of one names something), and the suppression is one exactly while a
top-level one is under way (so that nothing echoes, and nothing stays suppressed
after it). `WindowsAreKeptAlways` is of the steps: the one step that lets go of a window
that is open is an adoption that rejects it and asks about it.

`StoreProofs` proves all four of its properties, and the types (for which `Fits` says that
a write in hand has room), for any keys, names, types, contents and number of stops, under `StoreAssumption`, which leaves open
what a cut line reads as and what content is a bundle. `Filing` (names are apart, also the one an operation is
about to use, from those it read and from those not in doubt) carries the first two: an
operation that misread the index may pick a name somebody has, but writes back an index
that somebody is not in. `HashesHold` and `BundlesHold` say of every
unfinished operation which item it may have spoiled so far, and need `Filing` for the
step that writes one item's bytes and must leave alone those of every other that is not in
`torn`.

Only model-checked, on the instances of section 4: what is promised in the end
(`TimedSettles`, `DepartedSettles`, `EveryCloseResolves`, `EveryScopeEnds`,
`EveryCallReturns`, `EverybodyLeaves`), since a proof of liveness under fairness needs
ENABLED and is beyond the prover; their safe halves -- somebody is asked, a deadline is
never lost, every query is wanted, nobody but the holder awaits a reply -- are among
the theorems. And the disagreements of section 7, which are counterexamples.

## 7. Where the code and its comments disagree

- **An application's quit is forgotten** (`app_quit`). It waits for a window to be
  decided, and is looked up by that window among the application's windows, a list
  the closing window has left by then.
- **A closed window gets the keyboard** (`window_gone`). The window the menu bar
  remembers, and the dock's entry of a minimized window, outlive the window; dismissing
  the bar or clicking the entry activates it, and puts it in the cycle order for good.
  A window that was adopted closed gets both as any new window does (below).
  `GhostsAreRemembered` shows that there is no fourth way.

The others have no run of their own. Each is a property of its module, and TLC finds
it violated when it takes the place of the properties of the configuration named:
`MCWindowClose.cfg` for the first two; `MCQueriesCrossed.cfg`; `MCTransport.cfg`;
`MCSession.cfg`; `MCStore.cfg`.

- **A window that is gone counts as a refusal** (`WindowClose.GoneWindowResumesQuit`).
  Taking down its dialog, or settling its question because its application left, reports
  the close as refused before it is reported as done, and the desktop's quit is given
  up, though `window_protocol.go:355` says it carries on.
- **A dialog closed by its [x] is never answered** (`WindowClose.DialogCanBeAnswered`);
  its entry stays, and a later close joins a dialog that is not there
  (`desktop.go:1148`). The window stays marked as being decided, nobody is asked about it,
  and quits wait on it for ever: the one case that `DecidingIsAsked` and
  `EveryCloseResolves` except.
- **A reply names the wrong scope** (`Queries.OwnRecords`) when a scope was let go before
  its own reply came: the next one is filled with its records
  (`source/application.go:382`). With two sources on one connection the reply may be
  taken by the source that did not ask (`display/appsources.go:204`).
- **A handler that executes can stop the reader** (`Transport.ReaderStaysFree`) once its
  lane's channel is full: the reader waits to hand on one line more, and the handler for a
  reply behind that line. Its Exec never returns, and the reader is not freed by the socket
  closing, for it is not reading; `client/remote.go:212-214` says that a goroutine of its own
  spares the reader this, and so it does, up to the channel's 256 or 64 lines. It is the
  one case that `EveryCallReturns` and `EverybodyLeaves` except.
- **A rejected window is not always told** (`Session.RejectedIsTold`): its closing says
  so to a subscriber, and an application that has had no reply yet can subscribe only to
  all, or by a key in the batch that built it (`display/display.go:862`). One whose
  `window_closing` was subscribed to so is not closed at all: its close is put to the application, and the window, which
  nobody has adopted, is in no list any more (`display/display.go:866-869` closes it and goes
  on; `WindowsAreKept` names the case).
- **A stop can leave a hash that is not of its bytes** (`Store.HashIsSettled`): a `put`
  that stopped between bytes and index is listed with the old hash until it is written
  again, which is what `storeItem.hash` says must not happen. `HashIsTrue` and
  `BundlesAgree` therefore except the keys in `torn`, and show that the doubt spreads to no
  other.

Met while modelling, and true of the modules as of the code:

- A new window stays above a modal that is already active, though `AddWindow` means to
  bring the modal back over it (`manager.go:1031`): `ActivateWindow` returns early. And
  letting go of a press raises the pressed window above a modal opened in between.
- The keyboard of a window that closes goes to the last of the z-order, minimized or
  blocked as that may be (`manager.go:1094`); `BlockedOnlyInherits` shows that this is
  the only way a blocked window gets it.
- What a failed batch built is adopted by the next one that succeeds: an application
  that tries again has two, and is told nothing of the first but, where it may have one
  main window, the rejection of the second. A window built and destroyed in one batch is
  adopted closed (`ClosedIsGoneUnlessAdopted` names exactly these cases): nobody looks
  whether it is open (`display.go:855`, `application.go:181`, `manager.go:944`). It is
  activated and takes its place in the orders, and if it is a modal it is registered, its
  close being over before there is an observer of it (`manager.go:1545`), so that what it
  blocks stays blocked. `ModalsAreManaged` and `WayOut`
  count it among the modals.
- Setting a modal's type again takes it off no stack (`window_protocol.go:91`). Its
  place among the overlays goes, and modals with their types set so can block each other in
  a ring; `OverlayAboveOwner` and `WayOut` except windows whose type was set.
- A dialog whose owner is a dialog whose owner is the first makes `SetOwner` walk for ever
  (`window_type.go:104`): `Adopt` waits for the walk to end (`Walks`), and the thread with
  it.
- Destroying a part is not suppressed as `new`, `set` and `do` are, and a strip whose tab
  is destroyed may tell the application of its own statement (`session.go:230`);
  `NothingEchoes` leaves those steps out.
- Re-keying a window leaves its parts' paths on the old part; destroying it leaves their
  objects in the table. A main window that was set stays in `SetMainWindow`'s slot when
  it closes (`application.go:327`).
- A drop that stopped at the bundle index is not made good by dropping again; a bundle
  index cut short is believed; an index line cut short may file an item under the
  shorter key; files of a lost index are nobody's, and their names stay taken.
- An index that will not open is an empty one, and the next write puts back an index of its
  own item (`store.go:451`); a bundle index that will not open is built again and written
  over the one there was (`bundleindex.go:154`); the file that a change of type could not
  remove stays (`store.go:302`). Where the directory cannot be listed either, a new key may
  be filed under the name of a file that is there and start from its bytes, which is the
  exception `NewStartsEmpty` makes (`op.listed`).
- A scope let go before its reply leaves its query at the application for good, though
  `finishWith` says "The query is destroyed with it" (`source/application.go:526`) and calls
  such letting go ordinary. `EveryQueryIsWanted` shows that there are no more of them than
  scopes let go so, whichever queries they are. Beside them the application holds the query
  of a question it refused after giving it a number (`client/query.go:338`), which nothing
  names or destroys.
- A quit resumed by one window's close asks a second time about another that is being asked
  about already, though `desktop.go:5444` says that trying again "asks nobody twice".

## 8. What is not modelled

The contents of records, the geometry of windows, all drawing and all input. The
handshake. Of queries:
places, totals, joined records, staleness, and the notices that nest. Of windows:
MDI children, those torn off to surfaces of their own, dragging, resizing,
maximising, popups and solo mode. Of the session: aliases, templates, `ask` and
`describe`, the types of values, a third level of keys; and of two connections' sessions
that one thread serves, only one, so that what another connection's batch may raise in this
one while it is suppressed is not covered. Of the store: the handles of `store_objects.go`, reading in slices,
and which of the kept and the cached directory an item belongs to, each being a
directory of its own. Admission, which needs a clock and a queue of prompts, is the
next in the plan; the prompt's effect on the windows is `AnswerModal`. Places where the program runs
another's code (an application's handlers, a person) are choices: they may do
anything their interface allows. The parser and the encoder are functions on text
that the repository's tests cover by example; layout and key tables are sequential
code with no state that interacts. The Python and C libraries have threads of their
own and would need models of their own.
