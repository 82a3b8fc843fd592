---------------------------- MODULE WindowManager ---------------------------
(***************************************************************************)
(* The window manager (objects/window/manager.go) of one desktop surface:  *)
(* which window is on top, which has the keyboard, in what order the cycle *)
(* keys walk them, and which a modal blocks -- under the presses, keys,    *)
(* menus and dock clicks of a person and the windows that applications     *)
(* open and close.  Everything runs on the desktop's thread, one handler   *)
(* at a time, and a handler is the composition of the manager's methods it *)
(* calls: each method is an operator from a manager to a manager.          *)
(*                                                                         *)
(* A list of windows that only ever gains, loses or moves to the end is an *)
(* order: the set of pairs <<x, y>> with x before y, or equal to it.       *)
(***************************************************************************)
EXTENDS Naturals, FiniteSets

CONSTANTS
  Windows,   \* the windows there may be; each is opened and closed once
  Nobody,    \* no window, no application
  Dock,      \* the dock's place in the cycle order (nil, in the code)
  Kind,      \* Kind[w]: the window's type when it is adopted
  App,       \* App[w]: the application it was stamped with, if any
  Owner,     \* Owner[w]: the window it floats above, if any (resolved)
  Minimizes, \* the windows without the NoMinimize flag
  Doomed,    \* the windows whose application may destroy them before they are adopted
  Retypes,   \* the windows whose application may set their type again
  MaxOpened  \* bound: how many of them are opened in one behaviour

Kinds == {"main", "dialog", "palette", "modal"}

\* The desktop's own prompts are not an application's to destroy or to set.
ASSUME WindowManagerAssumption ==
  /\ IsFiniteSet(Windows)
  /\ Nobody \notin Windows
  /\ Dock \notin Windows \union {Nobody}
  /\ Kind \in [Windows -> Kinds]
  /\ DOMAIN App = Windows
  /\ Minimizes \subseteq Windows
  /\ Doomed \union Retypes \subseteq {w \in Windows : App[w] # Nobody}
  /\ MaxOpened \in Nat
  /\ Owner \in [Windows -> Windows \union {Nobody}]

VARIABLE m    \* the manager, and the dock and menu bar it speaks to

vars == <<m>>

-----------------------------------------------------------------------------
(* Orders *)

Members(r) == {p[1] : p \in r}

IsOrder(r) ==
  /\ r \subseteq Members(r) \X Members(r)
  /\ \A x, y \in Members(r) : <<x, y>> \in r \/ <<y, x>> \in r
  /\ \A x, y \in Members(r) : <<x, y>> \in r /\ <<y, x>> \in r => x = y
  /\ \A x, y, z \in Members(r) : <<x, y>> \in r /\ <<y, z>> \in r => <<x, z>> \in r

Among(r, S) == {p \in r : p[1] \in S /\ p[2] \in S}
Without(r, x) == {p \in r : p[1] # x /\ p[2] # x}

AtEnd(r, x) == Without(r, x) \union ((Members(r) \union {x}) \X {x})

\* What is in S goes to the end, keeping its order.
Lifted(r, S) == {p \in r : p[1] \in S => p[2] \in S}
                  \union ((Members(r) \ S) \X (Members(r) \intersect S))

Last(r) == CHOOSE x \in Members(r) : \A y \in Members(r) : <<y, x>> \in r
First(r) == CHOOSE x \in Members(r) : \A y \in Members(r) : <<x, y>> \in r
Before(r, x) == IF x = First(r) THEN Last(r) ELSE Last({p \in r : p[2] # x /\ <<p[2], x>> \in r})
After(r, x) == IF x = Last(r) THEN First(r) ELSE First({p \in r : p[1] # x /\ <<x, p[1]>> \in r})

Top(r) == IF r = {} THEN Nobody ELSE Last(r)

-----------------------------------------------------------------------------
(* The z-order *)

IsOverlay(s, w) == s.kind[w] \in {"dialog", "palette", "modal"}

OverlaysOf(s, o) == {w \in Windows : IsOverlay(s, w) /\ Owner[w] = o}

BringToFront(z, w) == Lifted(z, {w})
RaiseOverlays(s, z, o) == Lifted(z, OverlaysOf(s, o))

\* A window, with what belongs to it above it.
RaiseGroup(s, o) == RaiseOverlays(s, BringToFront(s.z, o), o)

\* Mutant of RaiseWithOverlays: a window is raised by itself, whatever it is.
RaiseAlone(s, w) == BringToFront(s.z, w)

\* raiseWithOverlaysLocked: a window brings its overlays, a palette its whole
\* group, a dialog or a modal nobody.
RaiseWithOverlays(s, w) ==
  CASE s.kind[w] = "palette" /\ Owner[w] # Nobody -> BringToFront(RaiseGroup(s, Owner[w]), w)
    [] IsOverlay(s, w) /\ ~(s.kind[w] = "palette" /\ Owner[w] # Nobody) -> BringToFront(s.z, w)
    [] s.kind[w] = "main" -> RaiseGroup(s, w)

-----------------------------------------------------------------------------
(* What blocks a window: the three kinds of modal stack are parts of the   *)
(* order in which modals were registered, told apart by owner and          *)
(* application.                                                            *)

SystemModals == {w \in Windows : Owner[w] = Nobody /\ App[w] = Nobody}
AppModals(a) == {w \in Windows : Owner[w] = Nobody /\ App[w] = a}
OwnedModals(o) == {w \in Windows : Owner[w] = o}

TopSystemModal(s) == Top(Among(s.modals, SystemModals))
TopAppModal(s, a) == IF a = Nobody THEN Nobody ELSE Top(Among(s.modals, AppModals(a)))
TopOwnedModal(s, o) == IF o = Nobody THEN Nobody ELSE Top(Among(s.modals, OwnedModals(o)))

\* Mutant of Exempt: only what the modal owns is exempt from it.
ExemptOverlay(w, top) == Owner[w] = top

\* modalExempt, of a modal that is there
Exempt(w, top) == w = top \/ Owner[w] = top

BlockedByOwned(s, w) == {t \in {TopOwnedModal(s, w), TopOwnedModal(s, Owner[w])} :
                           t # Nobody /\ ~Exempt(w, t)}
BlockedByApp(s, w) == {t \in {TopAppModal(s, App[w])} : t # Nobody /\ ~Exempt(w, t)}
BlockedBySystem(s, w) == {t \in {TopSystemModal(s)} : t # Nobody /\ ~Exempt(w, t)}

Blocked(s, w) ==
  /\ w # Nobody
  /\ BlockedByOwned(s, w) \union BlockedByApp(s, w) \union BlockedBySystem(s, w) # {}

\* TopModalBlocking: the nearest scope first.
Blocker(s, w) ==
  IF BlockedByOwned(s, w) # {} THEN BlockedByOwned(s, w)
  ELSE IF BlockedByApp(s, w) # {} THEN BlockedByApp(s, w)
  ELSE BlockedBySystem(s, w)

-----------------------------------------------------------------------------
(* The manager's methods.  s is the manager before.                        *)

\* endCycleSession: what the run landed on becomes the most recent.
EndCycle(s) ==
  IF ~s.cycling THEN s
  ELSE [s EXCEPT !.cycling = FALSE,
                 !.cycle = IF s.active # Nobody THEN AtEnd(s.cycle, s.active)
                           ELSE IF s.dock THEN AtEnd(s.cycle, Dock)
                           ELSE s.cycle]

\* Mutant of Activate: a blocked window is not turned away.
ActivateAnybody(s, w, promote) ==
  IF w = s.active THEN s
  ELSE [s EXCEPT !.active = w,
                 !.z = RaiseWithOverlays(s, w),
                 !.cycle = IF promote THEN AtEnd(s.cycle, w) ELSE s.cycle,
                 !.bar = FALSE,
                 !.dock = FALSE]

\* activate: nothing for the active window, nor for a blocked one.
Activate(s, w, promote) ==
  IF w = s.active \/ Blocked(s, w) THEN s
  ELSE [s EXCEPT !.active = w,
                 !.z = RaiseWithOverlays(s, w),
                 !.cycle = IF promote THEN AtEnd(s.cycle, w) ELSE s.cycle,
                 !.bar = FALSE,
                 !.dock = FALSE]

ActivateWindow(s, w) == Activate(EndCycle(s), w, TRUE)

\* FocusWindow: the keyboard alone; neither the order nor the bar is touched.
FocusWindow(s, w) ==
  LET e == EndCycle(s)
  IN IF w = e.active \/ Blocked(e, w) THEN e ELSE [e EXCEPT !.active = w]

\* DeactivateActiveWindow, RestorePreviousActiveWindow: the menu bar borrows
\* the keyboard and gives it back.
DeactivateActive(s) ==
  IF s.active = Nobody THEN s
  ELSE [s EXCEPT !.previous = s.active, !.active = Nobody]

RestorePrevious(s) ==
  LET r == [s EXCEPT !.previous = Nobody]
  IN IF s.previous = Nobody THEN r ELSE ActivateWindow(r, s.previous)

\* RestoreWindow, and what the desktop does of it in its dock
RestoreWindow(s, w) ==
  LET r == ActivateWindow([s EXCEPT !.minimized = @ \ {w}], w)
  IN [r EXCEPT !.entries = @ \ {w}]

BringToAttention(s, w) ==
  IF w \in s.minimized THEN RestoreWindow(s, w) ELSE ActivateWindow(s, w)

RaiseTopModalOver(s, w) ==
  LET top == TopSystemModal(s)
  IN IF top \in {Nobody, w} \union s.minimized THEN s ELSE ActivateWindow(s, top)

Registered(s, w) ==
  IF s.kind[w] = "modal" THEN [s EXCEPT !.modals = AtEnd(@, w)] ELSE s

\* AddWindow: on top and in the cycle order, whatever follows.
Added(s, w) ==
  LET placed == [s EXCEPT !.z = AtEnd(@, w), !.cycle = AtEnd(@, w)]
  IN RaiseTopModalOver(ActivateWindow(Registered(placed, w), w), w)

\* Mutant of Removed: it keeps its place in the cycle order, and the keyboard.
RemovedKept(s, w) == [s EXCEPT !.z = Without(@, w)]

\* RemoveWindow: the keyboard goes to the last of the z-order, as it is.
Removed(s, w) ==
  LET r == [s EXCEPT !.z = Without(@, w), !.cycle = Without(@, w)]
  IN IF s.active = w THEN [r EXCEPT !.active = Top(r.z)] ELSE r

\* Mutant of Closed: the modal's close is not observed.
ClosedUnseen(s, w) == [Removed(s, w) EXCEPT !.closed = @ \union {w}]

\* A window that closes leaves the manager, then the modal stacks; the menu
\* bar, the dock and a press under way may still remember it.
Closed(s, w) ==
  LET r == Removed(s, w)
  IN [r EXCEPT !.modals = Without(@, w), !.closed = @ \union {w}]

-----------------------------------------------------------------------------
Init ==
  m = [z |-> {}, cycle |-> {}, cycling |-> FALSE, active |-> Nobody,
       previous |-> Nobody, modals |-> {}, pressed |-> Nobody,
       minimized |-> {}, entries |-> {}, dock |-> FALSE, bar |-> FALSE,
       closed |-> {}, kind |-> Kind, retyped |-> {}]

Managed(s) == Members(s.z)
Known(s) == Managed(s) \union s.closed

\* Closed, and managed all the same: its close came before there was a manager
\* to tell, and there is no other.
AdoptedClosed(s) == Managed(s) \intersect s.closed

\* Closing hides a window.
OnScreen(s) == Managed(s) \ (s.minimized \union s.closed)

\* An application, or the desktop itself, puts a window up.  Its owner is what
\* the one it named resolves to, closed or not, and that is never an overlay.
\* A window built and destroyed in one batch is adopted like any other.
AddWindow(w) ==
  /\ w \notin Known(m)
  /\ Cardinality(Known(m)) < MaxOpened
  /\ Owner[w] # Nobody => Owner[w] \in Known(m) /\ ~IsOverlay(m, Owner[w])
  /\ \/ m' = Added(m, w)
     \/ w \in Doomed /\ m' = Added([m EXCEPT !.closed = @ \union {w}], w)

\* An application or a person closes a window (WindowClose says when it may).
\* One that has closed is closed, and nothing is told again.
CloseWindow(w) ==
  /\ w \in Managed(m) \ m.closed
  /\ m' = Closed(m, w)

\* The application sets a window's type again: neither its place nor its modal
\* stack is looked at.
SetType(w, k) ==
  /\ w \in Retypes \intersect Known(m)
  /\ k # m.kind[w]
  /\ m' = [m EXCEPT !.kind[w] = k, !.retyped = @ \union {w}]

\* Mutant of TakesInput: what is seen can be pressed, blocked or not.
SeenTakesInput(s, w) == w \in OnScreen(s)

\* HandleKeyPress, HandleMousePress: what a person can reach
TakesInput(s, w) == w \in OnScreen(s) /\ ~Blocked(s, w)

\* The person answers one of the desktop's own prompts, which closes the top
\* of the system stack.
AnswerModal(w) ==
  /\ w \in SystemModals \intersect Members(m.modals)
  /\ TakesInput(m, w)
  /\ m' = Closed(m, TopSystemModal(m))

MinimizeWindow(w) ==
  /\ w \in OnScreen(m) \intersect Minimizes
  /\ m' = [m EXCEPT !.minimized = @ \union {w}, !.entries = @ \union {w}]

ClickDock(w) ==
  /\ w \in m.entries
  /\ m' = RestoreWindow(m, w)

\* A press on a title bar or an edge: what an earlier press waited for is
\* forgotten, unless the window cannot be moved.
PressTitle(w) ==
  /\ w \in OnScreen(m)
  /\ ~Blocked(m, w)
  /\ \E p \in {Nobody, m.pressed} : m' = [ActivateWindow(m, w) EXCEPT !.pressed = p]

\* A press on a window's content: it is raised on release, if at all.
PressContent(w) ==
  /\ w \in OnScreen(m)
  /\ ~Blocked(m, w)
  /\ m' = [FocusWindow(m, w) EXCEPT !.pressed = w]

\* A press on a blocked window surfaces a modal, and may start a drag.
PressBlocked(w) ==
  /\ w \in OnScreen(m)
  /\ Blocked(m, w)
  /\ LET top == TopSystemModal(m)
     IN \E p \in {Nobody, m.pressed} :
          IF top \in m.minimized
          THEN m' = [RestoreWindow(m, top) EXCEPT !.pressed = p]
          ELSE \E t \in Blocker(m, w) : m' = [BringToAttention(m, t) EXCEPT !.pressed = p]

\* HandleMouseRelease: raised if still on top where the pointer is.
Release ==
  /\ m.pressed # Nobody
  /\ \/ m' = [m EXCEPT !.pressed = Nobody]
     \/ /\ m.pressed \in OnScreen(m)
        /\ m' = [m EXCEPT !.pressed = Nobody, !.z = RaiseWithOverlays(m, m.pressed)]

\* The Window menu, or a close that was refused, shows a window.
SurfaceWindow(w) ==
  /\ w \in Managed(m)
  /\ m' = BringToAttention(m, w)

OpenMenu == m' = [DeactivateActive(m) EXCEPT !.bar = TRUE]

DismissMenu ==
  /\ m.bar
  /\ m' = RestorePrevious([m EXCEPT !.bar = FALSE])

\* NotifyModifiersReleased, a key the window takes, or the idle lock-in
EndRun ==
  /\ m.cycling
  /\ m' = EndCycle(m)

\* What a cycle run walks: windows not minimized, and the dock if not empty.
Walk(s) ==
  LET shown == {x \in Members(s.cycle) : x = Dock \/ x \notin s.minimized}
      r == Among(s.cycle, IF s.entries = {} THEN shown \ {Dock} ELSE shown)
  IN IF s.entries # {} /\ Dock \notin shown THEN AtEnd(r, Dock) ELSE r

\* Where a run stands: the end, if nowhere else.
Standing(s) ==
  LET here == IF s.dock THEN Dock ELSE s.active
  IN IF here \in Members(Walk(s)) THEN here ELSE Last(Walk(s))

CycleTo(x) ==
  IF x = Dock
  THEN m' = [m EXCEPT !.cycling = TRUE, !.active = Nobody, !.dock = TRUE]
  ELSE m' = Activate([m EXCEPT !.cycling = TRUE, !.dock = FALSE], x, FALSE)

CycleWindows ==
  \/ /\ Walk(m) # {}
     /\ \/ CycleTo(Before(Walk(m), Standing(m)))
        \/ CycleTo(After(Walk(m), Standing(m)))
  \/ /\ Walk(m) = {}
     /\ m' = [m EXCEPT !.cycling = TRUE]

Next ==
  \/ \E w \in Windows :
       \/ AddWindow(w) \/ CloseWindow(w) \/ AnswerModal(w)
       \/ MinimizeWindow(w) \/ ClickDock(w) \/ SurfaceWindow(w)
       \/ PressTitle(w) \/ PressContent(w) \/ PressBlocked(w)
       \/ \E k \in Kinds : SetType(w, k)
  \/ Release \/ OpenMenu \/ DismissMenu \/ EndRun \/ CycleWindows

Spec == Init /\ [][Next]_vars

-----------------------------------------------------------------------------
(* Properties *)

\* The z-order is an order of the open windows and of those adopted closed; the
\* cycle order has them all, and whatever else it has is the dock or a window
\* that has closed.
TypeOK ==
  /\ IsOrder(m.z) /\ IsOrder(m.cycle) /\ IsOrder(m.modals)
  /\ Known(m) \subseteq Windows
  /\ AdoptedClosed(m) \subseteq Doomed
  /\ Managed(m) \subseteq Members(m.cycle)
  /\ Members(m.cycle) \subseteq Known(m) \union {Dock}
  /\ {m.active, m.previous, m.pressed} \subseteq Known(m) \union {Nobody}
  /\ m.minimized \union m.entries \subseteq Known(m)
  /\ {m.cycling, m.dock, m.bar} \subseteq BOOLEAN
  /\ m.kind \in [Windows -> Kinds]
  /\ m.retyped \subseteq Retypes

\* A dialog, a palette or a modal is above the window it belongs to, whichever
\* of them was raised, pressed, restored or cycled to last, unless the type of
\* one of the two was set after it was adopted.
OverlayAboveOwner ==
  \A w \in Managed(m) :
    /\ IsOverlay(m, w) /\ Owner[w] \in Managed(m)
    /\ {w, Owner[w]} \intersect m.retyped = {}
    => <<Owner[w], w>> \in m.z

\* What is on the modal stacks is exactly the windows adopted as modals that are
\* still managed, open or adopted closed: a modal that closes blocks nothing,
\* and one whose type is set again does not get away.
ModalsAreManaged == Members(m.modals) = {w \in Managed(m) : Kind[w] = "modal"}

\* Modals never block each other in a ring, unless the type of one was set
\* again: while some window is blocked, some modal is not, and it is on the
\* desktop, in its dock, or one that was adopted closed.
WayOut ==
  /\ \E w \in Managed(m) : Blocked(m, w)
  /\ Members(m.modals) \intersect m.retyped = {}
  => \E t \in Members(m.modals) :
       ~Blocked(m, t) /\ t \in OnScreen(m) \union m.entries \union AdoptedClosed(m)

\* The person's answer to a prompt closes that prompt and no other, though
\* what closes is the top of a stack.
AnswerClosesOwn ==
  [][\A w \in Windows : AnswerModal(w) => m'.closed = m.closed \union {w}]_vars

\* A closed window has the keyboard or a place in the cycle order only because
\* it is adopted closed, or again out of the menu bar's memory of it or out of
\* its entry in the dock.
Ghosts(s) == s.closed \intersect ({s.active} \union Members(s.cycle))
GhostsAreRemembered ==
  [][Ghosts(m') \subseteq Ghosts(m) \union {m.previous} \union m.entries
                            \union (AdoptedClosed(m') \ AdoptedClosed(m))]_vars

\* A blocked window gets the keyboard only by inheriting it from a window
\* that closes, never by being raised, restored, pressed or cycled to.
BlockedOnlyInherits ==
  [][m'.active # m.active /\ Blocked(m', m'.active) => m.active \in m'.closed \ m.closed]_vars

\* "nothing left for showing it again to mean" (window.go, attemptClose): a
\* closed window never has the keyboard.
ClosedIsGone == m.active \notin m.closed

=============================================================================
