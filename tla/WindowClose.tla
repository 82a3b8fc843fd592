----------------------------- MODULE WindowClose ----------------------------
(***************************************************************************)
(* How a window closes when its application has a say, and what waits on   *)
(* it: the window's close handler and observers                            *)
(* (objects/window/window_protocol.go, window.go), the desktop's quit, its *)
(* per-application quit and its "did not respond" dialog                   *)
(* (objects/trinkets/desktop.go, dialog.go), and the teardown of a         *)
(* connection (display/display.go), over the questions of Decisions.tla.   *)
(*                                                                         *)
(* All of it runs on the desktop's thread, but one call reaches deep: an   *)
(* answer closes a window, whose observers report to the desktop, which    *)
(* takes a dialog down, which settles another close, which resumes a quit  *)
(* that closes other windows.  `stack` is that thread's call stack, one    *)
(* frame per call still to be finished and one action per kind of frame;   *)
(* nothing else may begin on the thread until it is empty (Idle).          *)
(***************************************************************************)
EXTENDS Naturals, Sequences, FiniteSets

CONSTANTS
  Windows, Apps, Nobody,
  Owner,               \* Owner[w]: the application whose window w is
  ParentOf,            \* ParentOf[w]: the window w is a child of, or Nobody
  MaxIds,              \* bound: the decisions that can be minted
  MaxWaits,            \* bound: the waits one decision is given
  Fickle,              \* the windows whose subscription comes and goes
  DesktopEnvironment,  \* does the desktop outlive its last window?
  PersonUsesCloseBox   \* may a person close a dialog by its own [x]?

ASSUME WindowCloseAssumption ==
  /\ Nobody \notin Windows \union Apps
  /\ Owner \in [Windows -> Apps]
  /\ ParentOf \in [Windows -> Windows \union {Nobody}]
  /\ MaxIds \in Nat
  /\ MaxWaits \in Nat \ {0}
  /\ Fickle \subseteq Windows
  /\ DesktopEnvironment \in BOOLEAN
  /\ PersonUsesCloseBox \in BOOLEAN

VARIABLES
  \* the questions, as in Decisions
  asker, open, told, within, armed, ticking, posted, gone,
  about,          \* about[d]: the window decision d is about, or Nobody
  \* the windows
  closed,         \* Window.closed
  deciding,       \* Window.deciding
  allowing,       \* the handlers whose `allowing` is set
  bound,          \* the windows whose close handler is installed
  listening,      \* the windows whose window_closing is subscribed to
  inApp,          \* the windows still in their Application's list
  \* the desktop
  apps,           \* Desktop.applications
  quitWanted, appQuitWanted, exited,
  forceClose,     \* the windows Desktop.forceClose holds a dialog about
  shown,          \* those whose dialog is on the screen
  waiters,        \* waiters[w]: how many closes wait on that dialog
  \* the thread
  stack, ret,     \* its call stack, and what the last Close returned
  cause           \* history: what the thread is in the middle of handling

questions == <<asker, open, told, within, armed, ticking, posted, gone>>
windows == <<closed, deciding, allowing, bound, listening, inApp>>
quits == <<apps, quitWanted, appQuitWanted, exited>>
dialogs == <<forceClose, shown, waiters>>
thread == <<stack, ret, cause>>
vars == <<questions, about, windows, quits, dialogs, thread>>

\* virtualIDSource counts.
Ids == 1..MaxIds

D == INSTANCE Decisions WITH Conns <- Apps, NoConn <- Nobody

-----------------------------------------------------------------------------
\* The thread.
Idle == stack = <<>>

NoCause == [kind |-> "none", who |-> Nobody]

Frame(op, who) == [op |-> op, who |-> who, at |-> Nobody, todo |-> {}]
SweepFrame(op, who, at, todo) == [op |-> op, who |-> who, at |-> at, todo |-> todo]

Top == Head(stack)
Running(op) == stack # <<>> /\ Top.op = op

Resume(rest, value) ==
  /\ stack' = rest
  /\ ret' = IF rest = <<>> THEN "none" ELSE value
  /\ cause' = IF rest = <<>> THEN NoCause ELSE cause

\* The call on top goes on as `frames`; or it returns.
Continue(frames) == Resume(frames \o Tail(stack), "none")
Return(value) == Resume(Tail(stack), value)

\* The thread takes up something new.
Begin(kind, who, frames) ==
  /\ stack' = frames
  /\ ret' = "none"
  /\ cause' = IF frames = <<>> THEN NoCause ELSE [kind |-> kind, who |-> who]

Ready == Idle /\ ~exited

-----------------------------------------------------------------------------
\* Window.attemptClose.
Children(w) == {c \in Windows \ closed : ParentOf[c] = w}

Listening(w) == w \in listening /\ Owner[w] \notin gone

\* A window that has closed is closed, and nothing is asked about it again.
CloseAgain ==
  /\ Running("close")
  /\ Top.who \in closed
  /\ Return("yes")
  /\ UNCHANGED <<questions, about, windows, quits, dialogs>>

Attempting(w) == Running("close") /\ Top.who = w /\ w \notin closed

\* Mutant of ClosePermitted: the permission is not used up.
PermissionIsKept(w) ==
  /\ Attempting(w)
  /\ w \in bound \intersect allowing
  /\ Continue(<<SweepFrame("children", w, Nobody, Children(w))>>)
  /\ UNCHANGED <<questions, about, windows, quits, dialogs>>

\* The handler lets through, once, the close it was told to.
ClosePermitted(w) ==
  /\ Attempting(w)
  /\ w \in bound \intersect allowing
  /\ allowing' = allowing \ {w}
  /\ Continue(<<SweepFrame("children", w, Nobody, Children(w))>>)
  /\ UNCHANGED <<questions, about, closed, deciding, bound, listening, inApp,
                 quits, dialogs>>

\* Nobody to consult: no handler, or nobody listening.
CloseUnasked(w) ==
  /\ Attempting(w)
  /\ w \in bound => w \notin allowing /\ ~Listening(w)
  /\ Continue(<<SweepFrame("children", w, Nobody, Children(w))>>)
  /\ UNCHANGED <<questions, about, windows, quits, dialogs>>

Consulting(w) == Attempting(w) /\ w \in bound \ allowing /\ Listening(w)

\* The application is asked, which is not yet a close.
CloseAsks(w) ==
  /\ Consulting(w)
  /\ \E d \in Ids :
       /\ \A e \in 1..(d - 1) : asker[e] # Nobody
       /\ D!Ask(d, Owner[w], TRUE)
       /\ about' = [about EXCEPT ![d] = w]
  /\ deciding' = deciding \union {w}
  /\ Return("no")
  /\ UNCHANGED <<closed, allowing, bound, listening, inApp, quits, dialogs>>

\* Bound: with every id spent the handler refuses, as a host's own may.
CloseRefused(w) ==
  /\ Consulting(w)
  /\ \A d \in Ids : asker[d] # Nobody
  /\ Return("no")
  /\ UNCHANGED <<questions, about, windows, quits, dialogs>>

\* Children close first; one that does not close cancels this close too.
CloseChildren ==
  /\ Running("children")
  /\ \/ /\ ret = "no"
        /\ Return("no")
     \/ /\ ret # "no"
        /\ Top.todo = {}
        /\ Continue(<<Frame("closed", Top.who)>>)
     \/ /\ ret # "no"
        /\ \E c \in Top.todo :
             Continue(<<Frame("close", c),
                        SweepFrame("children", Top.who, Nobody, Top.todo \ {c})>>)
  /\ UNCHANGED <<questions, about, windows, quits, dialogs>>

\* Closed before anything is told; then the observers, in the order they were
\* registered: the wire binding's, then the application's.
CloseHappens ==
  /\ Running("closed")
  /\ LET w == Top.who IN
     /\ closed' = closed \union {w}
     /\ deciding' = deciding \ {w}
     /\ Continue((IF w \in deciding THEN <<Frame("decidedClosed", w)>> ELSE <<>>)
                   \o <<Frame("forget", w)>>)
  /\ UNCHANGED <<questions, about, allowing, bound, listening, inApp, quits, dialogs>>

ForgetWindow ==
  /\ Running("forget")
  /\ inApp' = inApp \ {Top.who}
  /\ Return("yes")
  /\ UNCHANGED <<questions, about, closed, deciding, allowing, bound, listening,
                 quits, dialogs>>

-----------------------------------------------------------------------------
\* The close handler's settle.
SettleAllowed ==
  /\ Running("allow")
  /\ LET w == Top.who IN
     /\ deciding' = deciding \ {w}
     /\ allowing' = allowing \union {w}
     /\ Continue(<<Frame("close", w), Frame("closing", w)>>)
  /\ UNCHANGED <<questions, about, closed, bound, listening, inApp, quits, dialogs>>

\* What happened is reported, not what was allowed.
SettleReports ==
  /\ Running("closing")
  /\ Continue(<<Frame(IF ret = "yes" THEN "decidedClosed" ELSE "decidedOpen", Top.who)>>)
  /\ UNCHANGED <<questions, about, windows, quits, dialogs>>

SettleRefused ==
  /\ Running("refuse")
  /\ deciding' = deciding \ {Top.who}
  /\ Continue(<<Frame("decidedOpen", Top.who)>>)
  /\ UNCHANGED <<questions, about, closed, allowing, bound, listening, inApp,
                 quits, dialogs>>

\* MessageBox.tellThem: everyone waiting on the dialog about w gets the answer.
TellThem(w, op) == [i \in 1..waiters[w] |-> Frame(op, w)]

\* Mutant of Callback: nothing follows when nobody said.
SilenceIsDropped(d, v) ==
  CASE v = "allowed" -> <<Frame("allow", about[d])>>
    [] v = "denied"  -> <<Frame("refuse", about[d])>>
    [] v = "unsaid"  -> <<>>

\* The handler's callback, as the frames it goes on with.
Callback(d, v) ==
  LET w == about[d] IN
  CASE v = "allowed" -> <<Frame("allow", w)>>
    [] v = "denied"  -> <<Frame("refuse", w)>>
    [] v = "unsaid"  -> IF w \in deciding THEN <<Frame("unanswered", w)>> ELSE <<>>

\* Nobody said.  A connection that left did not fail to answer; otherwise the
\* person is asked, and a question already up is joined (AskForceClose).
Unanswered ==
  /\ Running("unanswered")
  /\ LET w == Top.who IN
     \/ /\ Owner[w] \in gone
        /\ Continue(<<Frame("refuse", w)>>)
        /\ UNCHANGED dialogs
     \/ /\ Owner[w] \notin gone
        /\ waiters' = [waiters EXCEPT ![w] = @ + 1]
        /\ forceClose' = forceClose \union {w}
        /\ shown' = IF w \in forceClose THEN shown ELSE shown \union {w}
        /\ Continue(<<>>)
  /\ UNCHANGED <<questions, about, windows, quits>>

-----------------------------------------------------------------------------
\* Mutant of CloseDecided: the dialog about a settled close is left up.
DialogIsLeftUp(op, next) ==
  /\ Running(op)
  /\ Continue(<<Frame(next, Top.who)>>)
  /\ UNCHANGED <<questions, about, windows, quits, dialogs>>

\* Desktop.CloseDecided: first the dialog about the window comes down, and its
\* waiters are told that nobody forced anything (dismissForceClose) ...
CloseDecided(op, next) ==
  /\ Running(op)
  /\ LET w == Top.who IN
     /\ forceClose' = forceClose \ {w}
     /\ shown' = shown \ {w}
     /\ waiters' = [waiters EXCEPT ![w] = 0]
     /\ Continue((IF w \in forceClose THEN TellThem(w, "refuse") ELSE <<>>)
                   \o <<Frame(next, w)>>)
  /\ UNCHANGED <<questions, about, windows, quits>>

\* ... then a quit that waited goes on, or is over.
ResumeQuits ==
  /\ Running("resume")
  /\ LET w == Top.who
         mine == Owner[w] \in appQuitWanted /\ w \in inApp IN
     Continue((IF mine THEN <<Frame("quitApp", Owner[w])>> ELSE <<>>)
                \o (IF quitWanted THEN <<Frame("quit", Nobody)>> ELSE <<>>))
  /\ UNCHANGED <<questions, about, windows, quits, dialogs>>

\* Mutant of AbandonQuits: a refusal ends the application's quit alone.
DesktopQuitOutlivesNo ==
  /\ Running("abandon")
  /\ appQuitWanted' =
       IF Top.who \in inApp THEN appQuitWanted \ {Owner[Top.who]} ELSE appQuitWanted
  /\ Continue(<<>>)
  /\ UNCHANGED <<questions, about, windows, apps, quitWanted, exited, dialogs>>

AbandonQuits ==
  /\ Running("abandon")
  /\ quitWanted' = FALSE
  /\ appQuitWanted' =
       IF Top.who \in inApp THEN appQuitWanted \ {Owner[Top.who]} ELSE appQuitWanted
  /\ Continue(<<>>)
  /\ UNCHANGED <<questions, about, windows, apps, exited, dialogs>>

\* Desktop.quitApplication and Desktop.QuitWithCode: a snapshot of the windows,
\* each closed in turn, stopping at the first that does not.
AppWindows(a) == {w \in inApp : Owner[w] = a}

SweepBegins ==
  /\ \/ /\ Running("quitApp")
        /\ Continue(<<SweepFrame("sweepApp", Top.who, Nobody, AppWindows(Top.who))>>)
     \/ /\ Running("quit")
        /\ Continue(<<SweepFrame("sweep", Nobody, Nobody, Windows \ closed)>>)
  /\ UNCHANGED <<questions, about, windows, quits, dialogs>>

SweepCloses(op) ==
  /\ Running(op)
  /\ ret # "no"
  /\ \E w \in Top.todo :
       Continue(<<Frame("close", w), SweepFrame(op, Top.who, w, Top.todo \ {w})>>)
  /\ UNCHANGED <<questions, about, windows, quits, dialogs>>

\* A window still deciding is not a refusal: the quit is remembered.
QuitAppStops ==
  /\ Running("sweepApp")
  /\ ret = "no"
  /\ appQuitWanted' = IF Top.at \in deciding
                        THEN appQuitWanted \union {Top.who}
                        ELSE appQuitWanted \ {Top.who}
  /\ Continue(<<>>)
  /\ UNCHANGED <<questions, about, windows, apps, quitWanted, exited, dialogs>>

QuitStops ==
  /\ Running("sweep")
  /\ ret = "no"
  /\ quitWanted' = (Top.at \in deciding)
  /\ Continue(<<>>)
  /\ UNCHANGED <<questions, about, windows, apps, appQuitWanted, exited, dialogs>>

QuitAppDone ==
  /\ Running("sweepApp")
  /\ ret # "no"
  /\ Top.todo = {}
  /\ appQuitWanted' = appQuitWanted \ {Top.who}
  /\ apps' = apps \ {Top.who}
  /\ exited' = (exited \/ (/\ ~DesktopEnvironment
                           /\ \A a \in apps' : AppWindows(a) = {}))
  /\ Continue(<<>>)
  /\ UNCHANGED <<questions, about, windows, quitWanted, dialogs>>

\* Mutant of QuitDone: the end of the list is taken for everything closed.
QuitDoneAtTheEnd ==
  /\ Running("sweep")
  /\ Top.todo = {}
  /\ quitWanted' = FALSE
  /\ exited' = TRUE
  /\ Continue(<<>>)
  /\ UNCHANGED <<questions, about, windows, apps, appQuitWanted, dialogs>>

QuitDone ==
  /\ Running("sweep")
  /\ ret # "no"
  /\ Top.todo = {}
  /\ quitWanted' = FALSE
  /\ exited' = TRUE
  /\ Continue(<<>>)
  /\ UNCHANGED <<questions, about, windows, apps, appQuitWanted, dialogs>>

-----------------------------------------------------------------------------
\* conn.teardown: what the connection owed comes back unsaid, its windows are
\* closed, the application comes off the desktop.
TeardownSettles ==
  /\ Running("undecided")
  /\ \/ \E d \in open :
          /\ asker[d] = Top.who
          /\ D!SettleHeld(d)
          /\ Continue(Callback(d, "unsaid") \o <<Top>>)
     \/ /\ \A d \in open : asker[d] # Top.who
        /\ Continue(<<SweepFrame("teardown", Top.who, Nobody, AppWindows(Top.who))>>)
        /\ UNCHANGED questions
  /\ UNCHANGED <<about, windows, quits, dialogs>>

TeardownCloses ==
  /\ Running("teardown")
  /\ \E w \in Top.todo :
       Continue(<<Frame("close", w),
                  SweepFrame("teardown", Top.who, Nobody, Top.todo \ {w})>>)
  /\ UNCHANGED <<questions, about, windows, quits, dialogs>>

TeardownRemoves ==
  /\ Running("teardown")
  /\ Top.todo = {}
  /\ apps' = apps \ {Top.who}
  /\ Continue(<<>>)
  /\ UNCHANGED <<questions, about, windows, quitWanted, appQuitWanted, exited, dialogs>>

-----------------------------------------------------------------------------
\* One step of the desktop's thread within the call it is in.
ThreadStep ==
  \/ CloseAgain
  \/ \E w \in Windows :
       ClosePermitted(w) \/ CloseUnasked(w) \/ CloseAsks(w) \/ CloseRefused(w)
  \/ CloseChildren \/ CloseHappens \/ ForgetWindow
  \/ SettleAllowed \/ SettleReports \/ SettleRefused \/ Unanswered
  \/ CloseDecided("decidedClosed", "resume") \/ CloseDecided("decidedOpen", "abandon")
  \/ ResumeQuits \/ AbandonQuits
  \/ SweepBegins \/ SweepCloses("sweepApp") \/ SweepCloses("sweep")
  \/ QuitAppStops \/ QuitStops \/ QuitAppDone \/ QuitDone
  \/ TeardownSettles \/ TeardownCloses \/ TeardownRemoves

-----------------------------------------------------------------------------
\* What the thread takes up when it is idle.

\* A person, a key or the host closes a window.
CloseWindow(w) ==
  /\ Ready
  /\ w \notin closed
  /\ Begin("close", w, <<Frame("close", w)>>)
  /\ UNCHANGED <<questions, about, windows, quits, dialogs>>

QuitDesktop ==
  /\ Ready
  /\ Begin("quit", Nobody, <<Frame("quit", Nobody)>>)
  /\ UNCHANGED <<questions, about, windows, quits, dialogs>>

QuitApplication(a) ==
  /\ Ready
  /\ a \in apps
  /\ Begin("quitApp", a, <<Frame("quitApp", a)>>)
  /\ UNCHANGED <<questions, about, windows, quits, dialogs>>

\* A batch of the application's: do <d> allow | deny, do <d> waiting.
AnswerClose(d, v) ==
  /\ Ready
  /\ D!Answer(d, v)
  /\ Begin(v, about[d], Callback(d, v))
  /\ UNCHANGED <<about, windows, quits, dialogs>>

KeepAsking(d) ==
  /\ Ready
  /\ D!StillAsking(d)
  /\ UNCHANGED <<about, windows, quits, dialogs, thread>>

\* destroy <w>: the handler goes first, so nobody is asked about w itself.
DestroyWindow(w) ==
  /\ Ready
  /\ w \in bound
  /\ Owner[w] \notin gone
  /\ bound' = bound \ {w}
  /\ Begin("destroy", w, <<Frame("close", w)>>)
  /\ UNCHANGED <<questions, about, closed, deciding, allowing, listening, inApp,
                 quits, dialogs>>

\* sub | unsub <w> window_closing.
Subscribe(w) ==
  /\ Ready
  /\ w \in Fickle
  /\ Owner[w] \notin gone
  /\ listening' = (listening \union {w}) \ (listening \intersect {w})
  /\ UNCHANGED <<questions, about, closed, deciding, allowing, bound, inApp,
                 quits, dialogs, thread>>

\* The timer goroutine's run waits for the thread, so a timer that fires during
\* a call has fired just before it.
DeadlinePasses(d) ==
  /\ Ready
  /\ D!TimerFires(d)
  /\ UNCHANGED <<about, windows, quits, dialogs, thread>>

DeadlineArrives(d, n) ==
  /\ Ready
  /\ D!RanOut(d, n)
  /\ Begin("ranOut", about[d], IF d \in open \ open' THEN Callback(d, "unsaid") ELSE <<>>)
  /\ UNCHANGED <<about, windows, quits, dialogs>>

\* The connection is gone: its teardown begins.
Disconnect(a) ==
  /\ Ready
  /\ D!Leave(a)
  /\ Begin("disconnect", a, <<Frame("undecided", a)>>)
  /\ UNCHANGED <<about, windows, quits, dialogs>>

\* The person answers the dialog about w (MessageBox.done).
PersonAnswers(w, yes) ==
  /\ Ready
  /\ w \in shown
  /\ forceClose' = forceClose \ {w}
  /\ shown' = shown \ {w}
  /\ waiters' = [waiters EXCEPT ![w] = 0]
  /\ Begin(IF yes THEN "forced" ELSE "notForced", w,
           TellThem(w, IF yes THEN "allow" ELSE "refuse"))
  /\ UNCHANGED <<questions, about, windows, quits>>

\* Its title bar's [x] closes the dialog's window and calls nobody.
PersonClosesDialog(w) ==
  /\ Ready
  /\ PersonUsesCloseBox
  /\ w \in shown
  /\ shown' = shown \ {w}
  /\ UNCHANGED <<questions, about, windows, quits, forceClose, waiters, thread>>

-----------------------------------------------------------------------------
Init ==
  /\ D!Init
  /\ about = [d \in Ids |-> Nobody]
  /\ closed = {} /\ deciding = {} /\ allowing = {}
  /\ bound = Windows /\ inApp = Windows
  /\ listening \in {L \in SUBSET Windows : Windows \ L \subseteq Fickle}
  /\ apps = Apps
  /\ quitWanted = FALSE /\ appQuitWanted = {} /\ exited = FALSE
  /\ forceClose = {} /\ shown = {}
  /\ waiters = [w \in Windows |-> 0]
  /\ stack = <<>> /\ ret = "none" /\ cause = NoCause

Next ==
  \/ ThreadStep
  \/ \E w \in Windows : CloseWindow(w)
  \/ QuitDesktop
  \/ \E a \in Apps : QuitApplication(a)
  \/ \E d \in Ids, v \in {"allowed", "denied"} : AnswerClose(d, v)
  \/ \E d \in Ids : KeepAsking(d)
  \/ \E w \in Windows : DestroyWindow(w)
  \/ \E w \in Windows : Subscribe(w)
  \/ \E d \in Ids : DeadlinePasses(d)
  \/ \E d \in Ids, n \in 1..MaxWaits : DeadlineArrives(d, n)
  \/ \E a \in Apps : Disconnect(a)
  \/ \E w \in Windows, yes \in BOOLEAN : PersonAnswers(w, yes)
  \/ \E w \in Windows : PersonClosesDialog(w)

Spec == Init /\ [][Next]_vars

\* The thread runs what it is given, timers fire, what they post has its turn
\* however busy the thread is, and a person who is asked answers.  Nothing is
\* assumed of the applications.
Fairness ==
  /\ WF_vars(ThreadStep)
  /\ \A d \in Ids : SF_vars(DeadlinePasses(d))
  /\ \A d \in Ids, n \in 1..MaxWaits : SF_vars(DeadlineArrives(d, n))
  /\ \A w \in Windows : SF_vars(\E yes \in BOOLEAN : PersonAnswers(w, yes))

FairSpec == Spec /\ Fairness

-----------------------------------------------------------------------------
Ops == {"close", "children", "closed", "forget", "allow", "closing", "refuse",
        "unanswered", "decidedClosed", "decidedOpen", "resume", "abandon",
        "quitApp", "sweepApp", "quit", "sweep", "undecided", "teardown"}

FrameType == [op : Ops, who : Windows \union Apps \union {Nobody},
              at : Windows \union {Nobody}, todo : SUBSET Windows]

TypeOK ==
  /\ D!TypeOK
  /\ about \in [Ids -> Windows \union {Nobody}]
  /\ closed \subseteq Windows /\ deciding \subseteq Windows
  /\ allowing \subseteq Windows /\ bound \subseteq Windows
  /\ listening \subseteq Windows /\ inApp \subseteq Windows
  /\ apps \subseteq Apps /\ appQuitWanted \subseteq Apps
  /\ quitWanted \in BOOLEAN /\ exited \in BOOLEAN
  /\ forceClose \subseteq Windows /\ shown \subseteq forceClose
  /\ waiters \in [Windows -> Nat]
  /\ stack \in Seq(FrameType)
  /\ ret \in {"none", "yes", "no"}
  /\ cause.who \in Windows \union Apps \union {Nobody}

-----------------------------------------------------------------------------
\* A quit that is waiting waits for something that will come: some window that
\* is still open is being decided.  A quit remembered for no window would be
\* carried out, or not, when some unrelated window closed an hour later.
QuitWaitsOnSomebody ==
  Idle /\ ~exited /\ quitWanted => deciding \ closed # {}

\* The windows whose dialog was closed by its own [x]: it is off the screen, and
\* the desktop still holds it, with everyone who waits for its answer.
Dismissed == forceClose \ shown

\* A window marked as deciding is one somebody is being asked about: its
\* application holds a question, or the person has a dialog in front of them, or
\* closed that dialog by its [x].  (The mark alone would park every quit for
\* ever, as it does in that last case.)
DecidingIsAsked ==
  Idle => \A w \in deciding :
            \/ \E d \in open : about[d] = w
            \/ w \in shown \union Dismissed /\ waiters[w] > 0

\* "A question about nothing": a dialog is up only about a window that is open
\* and still undecided, whatever order the answers to its questions came in.
NoQuestionAboutNothing ==
  Idle => forceClose \subseteq deciding \ closed

\* Permission to close is for one close: nothing is left of it when the call
\* that gave it returns, not even one a child window stopped.
NoStandingPermission ==
  Idle => (allowing \intersect bound) \subseteq closed

\* A desktop that ends has nothing open on it.
ExitLosesNothing == exited => closed = Windows

\* An application that listens is heard: a window of its own closes only while
\* the thread handles an allow about THAT window, or the person's forcing it.
\* Neither a quit resumed by another window, nor a second dialog, nor an answer
\* given earlier, closes it.
ClosedByLeave ==
  [][\A w \in closed' \ closed :
       w \in bound /\ Listening(w) =>
         cause.kind \in {"allowed", "forced"} /\ cause.who = w]_vars

\* A refusal is final: handling one closes no window, and leaves no quit of the
\* desktop waiting.
RefusalIsFinal ==
  [][cause.kind \in {"denied", "notForced"} =>
       /\ closed' = closed
       /\ exited' = exited
       /\ Idle' => ~quitWanted']_vars

\* Every close comes to an end: the application answers, or its time runs out,
\* however often it is extended, and the person does, or it leaves.  Only a
\* person who closes the dialog by its [x] may leave it without an end.
EveryCloseResolves ==
  \A w \in Windows : w \in deciding ~> w \notin deciding \/ w \in Dismissed \/ exited

-----------------------------------------------------------------------------
\* What comments of the source say, and the code does not do.

\* "Remembered instead, and CloseDecided tries it again when the answer lands":
\* an application's waiting quit waits for one of its windows.
AppQuitWaitsOnSomebody ==
  Idle /\ ~exited =>
    \A a \in appQuitWanted \intersect apps :
      \E w \in deciding \ closed : Owner[w] = a

\* "It IS closed, whoever closed it, so a sweep waiting on this window carries on
\* rather than treating it as a refusal": a window destroyed, or closed because
\* its application "disconnects and has it closed for it", gives up no quit,
\* except by the refusal of another window the resumed sweep comes to.
GoneWindowResumesQuit ==
  [][cause.kind \in {"destroy", "disconnect"} /\ quitWanted /\ ~quitWanted' =>
       exited' \/ Running("sweep")]_vars

\* "Answered once, whichever way it goes, and No for a dialog dismissed without
\* a choice": a question the desktop holds is on the screen to be answered.
DialogCanBeAnswered == Idle => Dismissed = {}
=============================================================================
