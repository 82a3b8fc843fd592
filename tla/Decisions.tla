------------------------------ MODULE Decisions -----------------------------
(***************************************************************************)
(* A question the display holds open (protocol/decisions.go): the table of *)
(* decisions of each connection, the deadline each one is held to, and the *)
(* four ways one ends -- allowed, denied, ran out, or its connection gone. *)
(*                                                                         *)
(* Two threads touch a decision.  Everything but the timer runs on the     *)
(* desktop's thread, one handler at a time, so a handler is one action.    *)
(* The timer goroutine only posts: TimerFires is its action, and RanOut is *)
(* the posted run arriving on the desktop's thread, possibly after the     *)
(* wait it belonged to was superseded or the decision settled.             *)
(***************************************************************************)
EXTENDS Naturals, Sequences

CONSTANTS
  Ids,       \* the ids virtualIDSource mints
  Conns,     \* the connections, one BindContext each
  NoConn,    \* the asker of an id not minted yet
  MaxWaits   \* bound: how many waits one decision is ever given

ASSUME DecisionsAssumption ==
  /\ NoConn \notin Conns
  /\ MaxWaits \in Nat \ {0}

VARIABLES
  asker,     \* asker[d]: the BindContext d was minted in, or NoConn
  open,      \* the decisions whose `then` is still held (and so addressable)
  told,      \* told[d]: the verdicts `then` was called with, in order
  within,    \* the decisions minted with a deadline (within > Whenever)
  armed,     \* armed[d]: how many waits have been started
  ticking,   \* the decisions with a timer running
  posted,    \* <<d, n>>: the timer of wait n of d has fired and posted its run
  gone       \* the connections torn down (BindContext.gone)

vars == <<asker, open, told, within, armed, ticking, posted, gone>>

Verdict == {"allowed", "denied", "unsaid"}
Waits == 1..MaxWaits

Init ==
  /\ asker = [d \in Ids |-> NoConn]
  /\ open = {}
  /\ told = [d \in Ids |-> <<>>]
  /\ within = {}
  /\ armed = [d \in Ids |-> 0]
  /\ ticking = {}
  /\ posted = {}
  /\ gone = {}

-----------------------------------------------------------------------------
\* Mutant of Arm: the running timer is stopped and no other started.
ArmStopsOnly(d) ==
  /\ armed' = [armed EXCEPT ![d] = @ + 1]
  /\ ticking' = ticking \ {d}

\* arm: the wait is counted and its timer replaces the one running, if any.
\* A timer already posted is out of Stop's reach and stays in `posted`.
Arm(d) ==
  /\ armed' = [armed EXCEPT ![d] = @ + 1]
  /\ ticking' = ticking \union {d}

\* Mutant of Settle: the callback is called and left in place.
SettleKeepsThen(d, v) ==
  /\ d \in open
  /\ told' = [told EXCEPT ![d] = Append(@, v)]
  /\ ticking' = ticking \ {d}
  /\ UNCHANGED open

\* settle: the callback is taken out, so it runs once; the timer is stopped.
Settle(d, v) ==
  /\ d \in open
  /\ open' = open \ {d}
  /\ told' = [told EXCEPT ![d] = Append(@, v)]
  /\ ticking' = ticking \ {d}

\* Deciding, on a connection that is there to be asked (and, in the callers,
\* listening): a fresh id, held in the table, its first wait started.
Ask(d, c, timed) ==
  /\ asker[d] = NoConn
  /\ c \notin gone
  /\ asker' = [asker EXCEPT ![d] = c]
  /\ open' = open \union {d}
  /\ IF timed
       THEN Arm(d) /\ within' = within \union {d}
       ELSE UNCHANGED <<armed, ticking, within>>
  /\ UNCHANGED <<told, posted, gone>>

\* do <d> allow | deny.  An id no longer open is not found by the session, and
\* a connection torn down runs no more batches.
Answer(d, v) ==
  /\ asker[d] \notin gone
  /\ Settle(d, v)
  /\ UNCHANGED <<asker, within, armed, posted, gone>>

\* do <d> waiting: buys another wait of a decision that has a deadline.
StillAsking(d) ==
  /\ d \in open \intersect within
  /\ asker[d] \notin gone
  /\ armed[d] < MaxWaits
  /\ Arm(d)
  /\ UNCHANGED <<asker, open, told, within, posted, gone>>

\* Mutant of TimerFires: the timer runs out and its run is not posted.
TimerLost(d) ==
  /\ d \in ticking
  /\ ticking' = ticking \ {d}
  /\ UNCHANGED <<asker, open, told, within, armed, posted, gone>>

\* Mutant of TimerFires: the waits are numbered from nought.
TimerCountsFromNought(d) ==
  /\ d \in ticking
  /\ ticking' = ticking \ {d}
  /\ posted' = posted \union {<<d, armed[d] - 1>>}
  /\ UNCHANGED <<asker, open, told, within, armed, gone>>

\* The timer goroutine: it carries the number of its wait to the desktop.
TimerFires(d) ==
  /\ d \in ticking
  /\ ticking' = ticking \ {d}
  /\ posted' = posted \union {<<d, armed[d]>>}
  /\ UNCHANGED <<asker, open, told, within, armed, gone>>

\* Mutant of Stale: a run is taken at its word, whichever wait it is of.
NeverStale(d, n) == FALSE

Stale(d, n) == n # armed[d]

\* ranOut on the desktop's thread: nobody said, unless the wait was superseded;
\* settling a decision already settled finds no callback and does nothing.
RanOut(d, n) ==
  /\ <<d, n>> \in posted
  /\ posted' = posted \ {<<d, n>>}
  /\ IF d \in open /\ ~Stale(d, n)
       THEN Settle(d, "unsaid")
       ELSE UNCHANGED <<open, told, ticking>>
  /\ UNCHANGED <<asker, within, armed, gone>>

\* Undecided, first half: the connection is gone for good.
Leave(c) ==
  /\ c \notin gone
  /\ gone' = gone \union {c}
  /\ UNCHANGED <<asker, open, told, within, armed, ticking, posted>>

\* Mutant of SettleHeld: only the questions somebody is timing come back.
SettleTimedOnly(d) ==
  /\ asker[d] \in gone
  /\ d \in within
  /\ Settle(d, "unsaid")
  /\ UNCHANGED <<asker, within, armed, posted, gone>>

\* Undecided, second half: each decision it still held comes back unsaid.
SettleHeld(d) ==
  /\ asker[d] \in gone
  /\ Settle(d, "unsaid")
  /\ UNCHANGED <<asker, within, armed, posted, gone>>

-----------------------------------------------------------------------------
Next ==
  \/ \E d \in Ids, c \in Conns, timed \in BOOLEAN : Ask(d, c, timed)
  \/ \E d \in Ids, v \in {"allowed", "denied"} : Answer(d, v)
  \/ \E d \in Ids : StillAsking(d)
  \/ \E d \in Ids : TimerFires(d)
  \/ \E d \in Ids, n \in Waits : RanOut(d, n)
  \/ \E c \in Conns : Leave(c)
  \/ \E d \in Ids : SettleHeld(d)

Spec == Init /\ [][Next]_vars

\* What the code's scheduling gives: a running timer fires, a posted function
\* runs, and Undecided goes through everything it took out of the table.
Fairness ==
  /\ \A d \in Ids : WF_vars(TimerFires(d))
  /\ \A d \in Ids : WF_vars(SettleHeld(d))
  /\ \A d \in Ids, n \in Waits : WF_vars(RanOut(d, n))

FairSpec == Spec /\ Fairness

-----------------------------------------------------------------------------
TypeOK ==
  /\ asker \in [Ids -> Conns \union {NoConn}]
  /\ open \subseteq Ids
  /\ told \in [Ids -> Seq(Verdict)]
  /\ within \subseteq Ids
  /\ armed \in [Ids -> 0..MaxWaits]
  /\ ticking \subseteq Ids
  /\ posted \subseteq Ids \X Waits
  /\ gone \subseteq Conns

\* A deadline is never lost: while a timed question is open, either the timer of
\* its LATEST wait is running or that wait has run out and is on its way to the
\* desktop.  Extending a question, or a run that finds itself stale, must not
\* leave it with nothing counting.
WaitIsCounted ==
  \A d \in open \intersect within :
    d \in ticking \/ <<d, armed[d]>> \in posted

\* What the two rest on.  An id not minted has no past; a question still open has
\* told nobody; a running timer is of a wait that was started; and what a timer
\* has posted is of that wait only when it is no longer running.
Consistent ==
  /\ \A d \in Ids : asker[d] = NoConn =>
       d \notin open \union within /\ told[d] = <<>> /\ armed[d] = 0
  /\ \A d \in open : told[d] = <<>>
  /\ \A d \in ticking : armed[d] > 0
  /\ \A p \in posted :
       p[2] <= armed[p[1]] /\ (p[1] \in ticking => p[2] < armed[p[1]])

\* A person answers just as the display runs out of patience, and the answer
\* wins: while its connection is there, a question comes back unsaid only when
\* the last wait it was given has run out, never on an older one's timer.
OnlyTheLastWaitDecides ==
  [][\A d \in Ids :
       /\ d \in open
       /\ told'[d] = <<"unsaid">>
       /\ asker[d] \notin gone
       => d \notin ticking /\ <<d, armed[d]>> \in posted]_vars

\* A question with a deadline is settled, and so is every question a departed
\* connection owed: nobody waits for ever on either.
TimedSettles == \A d \in Ids : d \in open \intersect within ~> d \notin open
DepartedSettles == \A d \in Ids : d \in open /\ asker[d] \in gone ~> d \notin open

\* The promise: exactly one verdict each, and nothing asked of a connection that
\* has left.
V == INSTANCE Verdicts
OneVerdict == V!Spec
=============================================================================
