------------------------------- MODULE Queries -------------------------------
(***************************************************************************)
(* A view reading an application's own records: the display's half         *)
(* (source/application.go, fed by display/appsources.go), the              *)
(* application's half (client/query.go), and the connection between them.  *)
(*                                                                         *)
(* Everything the display does here it does on the desktop's thread --     *)
(* display.go posts what an application says there -- so a handler is one  *)
(* action.  The application runs the display's batches one at a time, and  *)
(* answers a scope over as long as it takes, several of them side by side. *)
(* Each way the statements arrive in the order they were written.          *)
(*                                                                         *)
(* A question is named q, its place in the order the questions were put;   *)
(* that name crosses no wire.  A number n is the application's.            *)
(***************************************************************************)
EXTENDS Naturals, Sequences, FiniteSets, SequencesExt, FiniteSetsExt

CONSTANTS
  Sources,       \* the names this connection's trinkets read (conn.sources.ends)
  Sets,          \* the sequences opened on them (appSet)
  SourceOf,      \* the source each sequence is of
  NoSet,
  MaxScopes,     \* bound: how many scopes are ever asked for
  MaxRecords     \* bound: how many records answer one

ASSUME QueriesAssumption ==
  /\ SourceOf \in [Sets -> Sources]
  /\ NoSet \notin Sets
  /\ MaxScopes \in Nat /\ MaxRecords \in Nat

Scopes == 1..MaxScopes
Numbers == 1..MaxScopes

VARIABLES
  asked,     \* how many scopes have been asked for
  setOf,     \* setOf[q]: the sequence q is a scope of
  live,      \* the scopes still outstanding (opening and appSet.live)
  named,     \* named[q]: the number a reply gave it (appScope.id), 0 before
  got,       \* got[q]: what reached its sink, as <<question, place>>
  ended,     \* ended[q]: how its sink was told it ended (appScope.done)
  closed,    \* the sequences let go
  toApp,     \* the batches on their way to the application
  toDisplay, \* the statements on their way back
  served,    \* the names the application provides (Conn.sources)
  minted,    \* the last number minted (Conn.lastHostedID)
  number,    \* number[q]: the number the question is answered under, 0 if it is not
  queries,   \* the numbers the application holds a query under (Conn.queries)
  fate,      \* fate[q]: where the application's answer stands
  made,      \* made[q]: how many records it has produced (Fill.records)
  waiting    \* the questions with a record held back (Fill.waiting)

display == <<asked, setOf, live, named, got, ended, closed>>
app == <<served, minted, number, queries, fate, made, waiting>>
vars == <<display, toApp, toDisplay, app>>

Init ==
  /\ asked = 0
  /\ setOf = [q \in Scopes |-> NoSet]
  /\ live = {}
  /\ named = [q \in Scopes |-> 0]
  /\ got = [q \in Scopes |-> <<>>]
  /\ ended = [q \in Scopes |-> "no"]
  /\ closed = {}
  /\ toApp = <<>> /\ toDisplay = <<>>
  /\ served = {}
  /\ minted = 0
  /\ number = [q \in Scopes |-> 0]
  /\ queries = {}
  /\ fate = [q \in Scopes |-> "none"]
  /\ made = [q \in Scopes |-> 0]
  /\ waiting = {}

-----------------------------------------------------------------------------
\* The display's half.

New(q) == [verb |-> "new", of |-> q]
Destroy(n) == [verb |-> "destroy", of |-> n]

Of(t) == {q \in live : setOf[q] = t}
Unnamed(s) == {q \in live : named[q] = 0 /\ SourceOf[setOf[q]] = s}
Addressed(n) == {q \in live : named[q] = n}

\* Mutant of FirstUnnamed: the newest question is taken to be the one answered.
LastUnnamed(s) == Max(Unnamed(s))

\* name1 and refused: the first scope of the source still waiting to be named.
FirstUnnamed(s) == Min(Unnamed(s))

\* Mutant of Forget: the scope is left in the source's tables.
ForgetNothing(Q) == UNCHANGED live

Forget(Q) == live' = live \ Q

\* Mutant of Destroys: what was let go is not destroyed.
DestroyNone(Q) == <<>>

\* The questions S, oldest first.
InOrder(S) ==
  CHOOSE s \in [1..Cardinality(S) -> S] : \A i, j \in DOMAIN s : i < j => s[i] < s[j]

\* The destroys that finishWith sends for the scopes Q, in order.
Destroys(Q) ==
  LET numbered == InOrder({q \in Q : named[q] # 0})
  IN  [i \in DOMAIN numbered |-> Destroy(named[numbered[i]])]

\* finishWith: the scopes Q are told how they ended, those not told before, are
\* forgotten, and their queries destroyed where they have a number.
FinishWith(Q, how) ==
  LET over == {q \in Q : ended[q] = "no"}
  IN  /\ Forget(over)
      /\ ended' = [q \in Scopes |-> IF q \in over THEN how ELSE ended[q]]
      /\ toApp' = toApp \o Destroys(over)

\* appSet.Read: the whole question goes out in one batch.
Read(t) ==
  /\ t \notin closed
  /\ asked < MaxScopes
  /\ asked' = asked + 1
  /\ setOf' = [setOf EXCEPT ![asked + 1] = t]
  /\ live' = live \union {asked + 1}
  /\ toApp' = Append(toApp, New(asked + 1))
  /\ UNCHANGED <<named, got, ended, closed, toDisplay, app>>

\* appSet.Close: the sequence, and every scope of it still unanswered.
CloseSet(t) ==
  /\ t \notin closed
  /\ closed' = closed \union {t}
  /\ FinishWith(Of(t), "closed")
  /\ UNCHANGED <<asked, setOf, named, got, toDisplay, app>>

\* The sources that would take a reply or an error: conn.inbound offers it to
\* each in a map's order, and the first with a scope unnamed takes it.
Takers == {s \in Sources : Unnamed(s) # {}}

Arrives(verb) ==
  /\ toDisplay # <<>>
  /\ Head(toDisplay).verb = verb
  /\ toDisplay' = Tail(toDisplay)

\* A reply names a query -- or, answering a destroy, names nothing.
TakeReply ==
  /\ Arrives("reply")
  /\ LET n == Head(toDisplay).n
     IN  IF n = 0 \/ Takers = {}
           THEN UNCHANGED named
           ELSE \E s \in Takers : named' = [named EXCEPT ![FirstUnnamed(s)] = n]
  /\ UNCHANGED <<asked, setOf, live, got, ended, closed, toApp, app>>

\* Mutant of Refuse: a refusal reaches nobody.
RefuseNobody == UNCHANGED <<live, ended, toApp>>

Refuse ==
  IF Takers = {}
    THEN UNCHANGED <<live, ended, toApp>>
    ELSE \E s \in Takers : FinishWith({FirstUnnamed(s)}, "refused")

TakeError ==
  /\ Arrives("error")
  /\ Refuse
  /\ UNCHANGED <<asked, setOf, named, got, closed, app>>

\* A record, the end of the answer, or the last record with the end riding on
\* it: taken in that order by the scope the number names, if there is one.
TakeResult ==
  /\ Arrives("result")
  /\ LET r == Head(toDisplay)
     IN  \/ /\ Addressed(r.n) = {}
            /\ UNCHANGED <<live, got, ended, toApp>>
         \/ \E q \in Addressed(r.n) :
              /\ got' = IF r.place = 0 THEN got
                          ELSE [got EXCEPT ![q] = Append(@, <<r.of, r.place>>)]
              /\ IF r.end = "" THEN UNCHANGED <<live, ended, toApp>>
                   ELSE FinishWith({q}, r.end)
  /\ UNCHANGED <<asked, setOf, named, closed, app>>

-----------------------------------------------------------------------------
\* The application's half.

Reply(n) == [verb |-> "reply", n |-> n]
Error == [verb |-> "error"]
Result(q, place, end) ==
  [verb |-> "result", n |-> number[q], of |-> q, place |-> place, end |-> end]

\* Conn.ProvideSource.
Provide(s) ==
  /\ s \notin served
  /\ served' = served \union {s}
  /\ UNCHANGED <<display, toApp, toDisplay, minted, number, queries, fate, made, waiting>>

\* The reply that names the query of q, and the question with it.
TakeUp(q) ==
  /\ number' = [number EXCEPT ![q] = minted + 1]
  /\ fate' = [fate EXCEPT ![q] = "open"]
  /\ toDisplay' = Append(toDisplay, Reply(minted + 1))

\* The error that answers q, and names nothing.
TurnDown(q) ==
  /\ fate' = [fate EXCEPT ![q] = "refused"]
  /\ toDisplay' = Append(toDisplay, Error)
  /\ UNCHANGED number

\* Conn.open, in a batch of its own.  A question about a source it does not serve
\* is refused.  Any other is minted a number and held as a query, and the reply
\* carrying the number goes out ahead of any record -- unless the scope it asks
\* for is one ParseScope or ParseExtend will not have: then the number is never
\* said, and the query stays.  The name of the source and the scope are in the
\* statement, so setOf is read here for what it said.
TakeNew ==
  /\ toApp # <<>> /\ Head(toApp).verb = "new"
  /\ toApp' = Tail(toApp)
  /\ LET q == Head(toApp).of
     IN  IF SourceOf[setOf[q]] \in served
           THEN /\ minted' = minted + 1
                /\ queries' = queries \union {minted + 1}
                /\ \/ TakeUp(q)
                   \/ TurnDown(q)
           ELSE TurnDown(q) /\ UNCHANGED <<minted, queries>>
  /\ UNCHANGED <<display, served, made, waiting>>

\* Conn.inbound, a destroy: a batch is answered, with an error where it named
\* a query that is not held.
TakeDestroy ==
  /\ toApp # <<>> /\ Head(toApp).verb = "destroy"
  /\ toApp' = Tail(toApp)
  /\ LET n == Head(toApp).of
     IN  /\ queries' = queries \ {n}
         /\ toDisplay' = Append(toDisplay, IF n \in queries THEN Reply(0) ELSE Error)
  /\ UNCHANGED <<display, served, minted, number, fate, made, waiting>>

\* The held-back record goes out on its own.
SendHeld(q) ==
  toDisplay' = IF q \in waiting THEN Append(toDisplay, Result(q, made[q], "")) ELSE toDisplay

\* Fill.Record: the record is held back, and the one held before it released.
\* A destroy does not reach a Fill: it goes on answering.
Record(q) ==
  /\ fate[q] = "open"
  /\ made[q] < MaxRecords
  /\ SendHeld(q)
  /\ made' = [made EXCEPT ![q] = @ + 1]
  /\ waiting' = waiting \union {q}
  /\ UNCHANGED <<display, toApp, served, minted, number, queries, fate>>

\* Fill.Flush.
Flush(q) ==
  /\ q \in waiting
  /\ SendHeld(q)
  /\ waiting' = waiting \ {q}
  /\ UNCHANGED <<display, toApp, served, minted, number, queries, fate, made>>

\* The record the end rides on: the one held back, if one is.
LastOf(q) == IF q \in waiting THEN made[q] ELSE 0

\* Mutant of Finish: a query is dropped as soon as it is answered.
FinishDrops(q, how) ==
  /\ fate[q] = "open"
  /\ toDisplay' = Append(toDisplay, Result(q, LastOf(q), how))
  /\ waiting' = waiting \ {q}
  /\ fate' = [fate EXCEPT ![q] = how]
  /\ queries' = queries \ {number[q]}
  /\ UNCHANGED <<display, toApp, served, minted, number, made>>

\* Fill.finish, with Filled, Joined or Exhausted, or with Fail.  The query goes
\* on being held: what is answered is let go when the display destroys it.
Finish(q, how) ==
  /\ fate[q] = "open"
  /\ toDisplay' = Append(toDisplay, Result(q, LastOf(q), how))
  /\ waiting' = waiting \ {q}
  /\ fate' = [fate EXCEPT ![q] = how]
  /\ UNCHANGED <<display, toApp, served, minted, number, queries, made>>

-----------------------------------------------------------------------------
Endings == {"complete", "error"}

Next ==
  \/ \E t \in Sets : Read(t) \/ CloseSet(t)
  \/ TakeReply \/ TakeError \/ TakeResult
  \/ \E s \in Sources : Provide(s)
  \/ TakeNew \/ TakeDestroy
  \/ \E q \in Scopes : Record(q) \/ Flush(q) \/ \E how \in Endings : Finish(q, how)

\* Both ends go on reading what the connection brings them, and an application
\* that takes a question up ends its answer: Filled, Joined, Exhausted or Fail
\* is the whole of what a fill function is asked to come to.
Fairness ==
  /\ WF_vars(TakeReply \/ TakeError \/ TakeResult)
  /\ WF_vars(TakeNew \/ TakeDestroy)
  /\ \A q \in Scopes : WF_vars(\E how \in Endings : Finish(q, how))

Spec == Init /\ [][Next]_vars
FairSpec == Spec /\ Fairness

-----------------------------------------------------------------------------
ToApp == [verb : {"new", "destroy"}, of : Scopes]
ToDisplay ==
  [verb : {"reply"}, n : {0} \union Numbers] \union [verb : {"error"}] \union
  [verb : {"result"}, n : Numbers, of : Scopes, place : 0..MaxRecords,
   end : {""} \union Endings]

\* Every variable has its type; in particular a result is never written of a
\* question the application gave no number to.
TypeOK ==
  /\ asked \in 0..MaxScopes /\ minted \in 0..MaxScopes
  /\ setOf \in [Scopes -> Sets \union {NoSet}]
  /\ live \subseteq Scopes
  /\ named \in [Scopes -> {0} \union Numbers]
  /\ number \in [Scopes -> {0} \union Numbers]
  /\ got \in [Scopes -> Seq(Scopes \X (1..MaxRecords))]
  /\ ended \in [Scopes -> {"no", "closed", "refused"} \union Endings]
  /\ closed \subseteq Sets
  /\ toApp \in Seq(ToApp) /\ toDisplay \in Seq(ToDisplay)
  /\ served \subseteq Sources
  /\ queries \subseteq Numbers
  /\ fate \in [Scopes -> {"none", "open", "refused"} \union Endings]
  /\ made \in [Scopes -> 0..MaxRecords]
  /\ waiting \subseteq Scopes

\* A destroy on its way to the application names a query that is held there,
\* and nothing else on its way does: an application answers any other with an
\* error, which the display would take for the refusal of a later question.
DestroyIsKnown ==
  \A i \in DOMAIN toApp :
    toApp[i].verb = "destroy" =>
      /\ toApp[i].of \in queries
      /\ \A j \in DOMAIN toApp : toApp[j] = toApp[i] => j = i

\* What a query of the application's is held for, when its question is answered:
\* a scope still reading under its number, a reply that has yet to say the number,
\* or a destroy under way.
Left ==
  {n \in queries :
     /\ \E q \in Scopes : number[q] = n
     /\ Addressed(n) = {}
     /\ ~Contains(toDisplay, Reply(n))
     /\ ~Contains(toApp, Destroy(n))}

\* The scopes whose readers let go before a reply had named them.
LetGoUnnamed == {q \in Scopes : ended[q] = "closed" /\ named[q] = 0}

\* finishWith says of a scope that ends that "the query is destroyed with it".
\* Where a scope is let go with no number to destroy, a reply may find nobody and
\* its query be left with the application for good; but there is never more than
\* one so left for each scope let go so, whichever scopes the replies name.  (The
\* query of a question turned down after it had a number is left as well; nothing
\* names it, and it is not counted.)
EveryQueryIsWanted == Cardinality(Left) <= Cardinality(LetGoUnnamed)

\* Records that were in flight when a reader let go, and whatever an application
\* goes on producing for it, never reach that reader; nor is it told twice.
EndIsTheEnd ==
  [][\A q \in Scopes : ended[q] # "no" => ended'[q] = ended[q] /\ got'[q] = got[q]]_vars

\* A scope is only ever given records of the question it asked: name1 has it
\* that "the number belongs to the oldest one still unnamed".
OwnRecords ==
  \A q \in Scopes : \A i \in DOMAIN got[q] : got[q][i][1] = q

\* Answers are taken by the scopes they are for while those that wait to be named
\* are all of one source, and none of them is let go.
InOneLine ==
  /\ \A p, q \in live :
       named[p] = 0 /\ named[q] = 0 => SourceOf[setOf[p]] = SourceOf[setOf[q]]
  /\ \A q \in Scopes : ended[q] = "closed" => named[q] # 0

\* So read, the sources of a connection keep the promise of Answers.
A == INSTANCE Answers WITH asked <- 1..asked
KeepsThePromise == A!Spec

\* A question put is over in the end, whoever answered it: the reader is not
\* left waiting for records that are never coming.
EveryScopeEnds == \A q \in Scopes : q \in live ~> ended[q] # "no"
=============================================================================
