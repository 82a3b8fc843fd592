--------------------------- MODULE DecisionsProofs --------------------------
(***************************************************************************)
(* Decisions.tla keeps its invariants, and the promise of Verdicts.tla,    *)
(* for any set of ids and of connections and any number of waits.          *)
(***************************************************************************)
EXTENDS Decisions, SequenceTheorems, TLAPS

IInv == TypeOK /\ Consistent /\ WaitIsCounted

\* Init and Next, as the three proofs below split them: the initial state
\* satisfies the inductive invariant.
LEMMA InitIInv == Init => IInv
  BY DecisionsAssumption DEF Init, IInv, TypeOK, Consistent, WaitIsCounted, Waits

\* One more verdict is a longer sequence of verdicts, and the first is alone.
LEMMA OneMore ==
  ASSUME NEW s \in Seq(Verdict), NEW v \in Verdict
  PROVE  Append(s, v) \in Seq(Verdict) /\ (s = <<>> => Append(s, v) = <<v>>)
  <1>1. Append(s, v) \in Seq(Verdict)
    BY AppendProperties
  <1>2. Append(<<>>, v) = <<v>>
    BY SMT
  <1> QED
    BY <1>1, <1>2

\* A question settled (whoever settles it) leaves the invariant standing: the
\* rest of the table is as it was, and nothing counts for a question that ended.
LEMMA SettleKeeps ==
  ASSUME IInv, NEW d \in Ids, NEW v \in Verdict, Settle(d, v),
         posted' \subseteq posted,
         \A e \in open \ {d} : <<e, armed[e]>> \in posted => <<e, armed[e]>> \in posted',
         UNCHANGED <<asker, within, armed, gone>>
  PROVE  IInv'
  <1>1. TypeOK'
    <2>1. Append(told[d], v) \in Seq(Verdict)
      BY OneMore DEF IInv, TypeOK
    <2>2. told' \in [Ids -> Seq(Verdict)]
      BY <2>1 DEF IInv, TypeOK, Settle
    <2> QED
      BY <2>2 DEF IInv, TypeOK, Settle
  <1>2. Consistent'
    BY DEF IInv, TypeOK, Consistent, Settle
  <1>3. WaitIsCounted'
    BY DEF IInv, TypeOK, WaitIsCounted, Settle
  <1> QED
    BY <1>1, <1>2, <1>3 DEF IInv

\* Another wait leaves it standing: what was posted belongs to an earlier one.
LEMMA ArmKeeps ==
  ASSUME IInv, NEW d \in Ids, armed[d] < MaxWaits, Arm(d),
         asker[d] # NoConn, d \in open,
         UNCHANGED <<asker, open, told, within, posted, gone>>
  PROVE  IInv'
  <1>1. TypeOK'
    BY DecisionsAssumption DEF IInv, TypeOK, Arm
  <1>2. Consistent'
    BY DecisionsAssumption DEF IInv, TypeOK, Consistent, Arm, Waits
  <1>3. WaitIsCounted'
    BY DEF IInv, TypeOK, WaitIsCounted, Arm
  <1> QED
    BY <1>1, <1>2, <1>3 DEF IInv

\* Every step keeps the inductive invariant.
LEMMA NextIInv == IInv /\ [Next]_vars => IInv'
  <1> SUFFICES ASSUME IInv, [Next]_vars
               PROVE  IInv'
    OBVIOUS
  <1>1. ASSUME NEW d \in Ids, NEW c \in Conns, NEW timed \in BOOLEAN, Ask(d, c, timed)
        PROVE  IInv'
    <2>1. armed[d] = 0 /\ told[d] = <<>> /\ d \notin within
      BY <1>1 DEF Ask, IInv, Consistent
    <2>2. /\ asker' = [asker EXCEPT ![d] = c] /\ open' = open \union {d}
          /\ told' = told /\ posted' = posted /\ gone' = gone
      BY <1>1 DEF Ask
    <2>3. CASE timed
      <3>1. Arm(d) /\ within' = within \union {d}
        BY <1>1, <2>3 DEF Ask
      <3>2. TypeOK'
        BY <2>1, <2>2, <3>1, DecisionsAssumption DEF Arm, IInv, TypeOK
      <3>3. Consistent'
        BY <2>1, <2>2, <3>1, DecisionsAssumption DEF Arm, IInv, TypeOK, Consistent, Waits
      <3>4. WaitIsCounted'
        BY <2>1, <2>2, <3>1 DEF Arm, IInv, TypeOK, WaitIsCounted
      <3> QED
        BY <3>2, <3>3, <3>4 DEF IInv
    <2>4. CASE ~timed
      <3>1. UNCHANGED <<armed, ticking, within>>
        BY <1>1, <2>4 DEF Ask
      <3>2. TypeOK'
        BY <2>2, <3>1 DEF IInv, TypeOK
      <3>3. Consistent'
        BY <2>1, <2>2, <3>1, DecisionsAssumption DEF IInv, TypeOK, Consistent
      <3>4. WaitIsCounted'
        BY <2>1, <2>2, <3>1 DEF IInv, TypeOK, WaitIsCounted
      <3> QED
        BY <3>2, <3>3, <3>4 DEF IInv
    <2> QED
      BY <2>3, <2>4
  <1>2. ASSUME NEW d \in Ids, NEW v \in {"allowed", "denied"}, Answer(d, v)
        PROVE  IInv'
    BY <1>2, SettleKeeps DEF Answer, Verdict
  <1>3. ASSUME NEW d \in Ids, StillAsking(d)
        PROVE  IInv'
    <2>1. asker[d] # NoConn
      BY <1>3 DEF StillAsking, IInv, Consistent
    <2> QED
      BY <1>3, <2>1, ArmKeeps DEF StillAsking
  <1>4. ASSUME NEW d \in Ids, TimerFires(d)
        PROVE  IInv'
    <2>1. armed[d] \in Waits
      BY <1>4 DEF TimerFires, IInv, TypeOK, Consistent, Waits
    <2>2. TypeOK'
      BY <1>4, <2>1 DEF TimerFires, IInv, TypeOK
    <2>3. Consistent'
      BY <1>4, <2>1 DEF TimerFires, IInv, TypeOK, Consistent, Waits
    <2>4. WaitIsCounted'
      BY <1>4 DEF TimerFires, IInv, TypeOK, WaitIsCounted
    <2> QED
      BY <2>2, <2>3, <2>4 DEF IInv
  <1>5. ASSUME NEW d \in Ids, NEW n \in Waits, RanOut(d, n)
        PROVE  IInv'
    <2>1. CASE d \in open /\ ~Stale(d, n)
      BY <1>5, <2>1, SettleKeeps DEF RanOut, Verdict
    <2>2. CASE ~(d \in open /\ ~Stale(d, n))
      <3>1. TypeOK'
        BY <1>5, <2>2 DEF RanOut, IInv, TypeOK
      <3>2. Consistent'
        BY <1>5, <2>2 DEF RanOut, IInv, TypeOK, Consistent
      <3>3. WaitIsCounted'
        BY <1>5, <2>2 DEF RanOut, Stale, IInv, TypeOK, WaitIsCounted
      <3> QED
        BY <3>1, <3>2, <3>3 DEF IInv
    <2> QED
      BY <2>1, <2>2
  <1>6. ASSUME NEW c \in Conns, Leave(c)
        PROVE  IInv'
    BY <1>6 DEF Leave, IInv, TypeOK, Consistent, WaitIsCounted
  <1>7. ASSUME NEW d \in Ids, SettleHeld(d)
        PROVE  IInv'
    BY <1>7, SettleKeeps DEF SettleHeld, Verdict
  <1>8. CASE UNCHANGED vars
    BY <1>8 DEF vars, IInv, TypeOK, Consistent, WaitIsCounted
  <1> QED
    BY <1>1, <1>2, <1>3, <1>4, <1>5, <1>6, <1>7, <1>8 DEF Next

\* The table of decisions is always well formed, and consistent.
THEOREM InductiveInvariant == Spec => []IInv
  BY InitIInv, NextIInv, PTL DEF Spec

\* The types hold of every reachable state.
THEOREM TypeCorrect == Spec => []TypeOK
  BY InductiveInvariant, PTL DEF IInv

\* protocol/decisions.go arm, settle: a question still open has told nobody, and
\* what a timer has posted is of its question's last wait only when that timer no
\* longer runs.
THEOREM ConsistentAlways == Spec => []Consistent
  BY InductiveInvariant, PTL DEF IInv

\* protocol/decisions.go arm, extend: no deadline is ever lost, however often a
\* question is extended and however late a superseded timer's run arrives.
THEOREM DeadlineNeverLost == Spec => []WaitIsCounted
  BY InductiveInvariant, PTL DEF IInv

-----------------------------------------------------------------------------
\* protocol/decisions.go ranOut: of a connection that is still there, a question
\* comes back unsaid only from the timer of the last wait it was given.
THEOREM AnswerWinsOverAnOldTimer == Spec => OnlyTheLastWaitDecides
  <1> DEFINE Decided(d) == /\ d \in open
                           /\ told'[d] = <<"unsaid">>
                           /\ asker[d] \notin gone
             LastWait(d) == d \notin ticking /\ <<d, armed[d]>> \in posted
  <1>1. ASSUME IInv, [Next]_vars, NEW d \in Ids, Decided(d)
        PROVE  LastWait(d)
    <2>1. told[d] = <<>> /\ told[d] \in Seq(Verdict)
      BY <1>1 DEF IInv, TypeOK, Consistent
    <2>2. told' # told
      BY <1>1, <2>1
    <2>3. ASSUME NEW e \in Ids, NEW v \in Verdict, Settle(e, v)
          PROVE  e = d /\ v = "unsaid"
      <3>1. e = d
        BY <1>1, <2>1, <2>3 DEF IInv, TypeOK, Settle
      <3>2. told'[d] = <<v>>
        BY <2>1, <2>3, <3>1, <1>1 DEF IInv, TypeOK, Settle
      <3> QED
        BY <1>1, <3>1, <3>2
    <2>4. PICK e \in Ids, n \in Waits : RanOut(e, n)
      <3>1. ASSUME NEW e \in Ids, NEW v \in {"allowed", "denied"}, Answer(e, v)
            PROVE  FALSE
        BY <2>3, <3>1 DEF Answer, Verdict
      <3>2. ASSUME NEW e \in Ids, SettleHeld(e)
            PROVE  FALSE
        BY <1>1, <2>3, <3>2 DEF SettleHeld, Verdict
      <3> QED
        BY <1>1, <2>2, <3>1, <3>2
           DEF Next, vars, Ask, StillAsking, TimerFires, Leave
    <2>5. e = d /\ ~Stale(e, n)
      BY <2>2, <2>3, <2>4 DEF RanOut, Verdict
    <2> QED
      BY <1>1, <2>4, <2>5 DEF RanOut, Stale, IInv, TypeOK, Consistent
  <1>2. IInv /\ [Next]_vars =>
          [\A d \in Ids :
             /\ d \in open
             /\ told'[d] = <<"unsaid">>
             /\ asker[d] \notin gone
             => d \notin ticking /\ <<d, armed[d]>> \in posted]_vars
    BY <1>1
  <1> QED
    BY <1>2, InductiveInvariant, PTL DEF Spec, OnlyTheLastWaitDecides

-----------------------------------------------------------------------------
\* A question settled is, of the promise, a caller told: once, and not by a
\* connection that has left.
LEMMA SettleTells ==
  ASSUME IInv, NEW d \in Ids, NEW v \in Verdict, Settle(d, v),
         v # "unsaid" => asker[d] \notin gone,
         UNCHANGED <<asker, gone>>
  PROVE  V!Tell(d, v)
  <1>1. asker[d] # NoConn /\ told[d] = <<>>
    BY DEF IInv, Consistent, Settle
  <1>2. Append(told[d], v) = <<v>>
    BY <1>1, OneMore DEF IInv, TypeOK
  <1> QED
    BY <1>1, <1>2 DEF Settle, V!Tell

\* The mechanism of protocol/decisions.go keeps the promise of a decision: asked
\* once, told exactly one verdict, and never an answer of a departed connection.
THEOREM KeepsThePromise == Spec => OneVerdict
  <1>1. Init => V!Init
    BY DEF Init, V!Init
  <1>2. IInv /\ [Next]_vars => [V!Next]_V!vars
    <2> SUFFICES ASSUME IInv, [Next]_vars
                 PROVE  [V!Next]_V!vars
      OBVIOUS
    <2>1. ASSUME NEW d \in Ids, NEW c \in Conns, NEW timed \in BOOLEAN, Ask(d, c, timed)
          PROVE  V!Put(d, c)
      BY <2>1 DEF Ask, V!Put
    <2>2. ASSUME NEW d \in Ids, NEW v \in {"allowed", "denied"}, Answer(d, v)
          PROVE  V!Tell(d, v)
      BY <2>2, SettleTells DEF Answer, Verdict
    <2>3. ASSUME NEW d \in Ids, SettleHeld(d)
          PROVE  V!Tell(d, "unsaid")
      BY <2>3, SettleTells DEF SettleHeld, Verdict
    <2>4. ASSUME NEW d \in Ids, NEW n \in Waits, RanOut(d, n)
          PROVE  V!Tell(d, "unsaid") \/ UNCHANGED V!vars
      BY <2>4, SettleTells DEF RanOut, Verdict, V!vars
    <2>5. ASSUME NEW d \in Ids, StillAsking(d) \/ TimerFires(d)
          PROVE  UNCHANGED V!vars
      BY <2>5 DEF StillAsking, TimerFires, V!vars
    <2>6. ASSUME NEW c \in Conns, Leave(c)
          PROVE  V!Leave(c)
      BY <2>6 DEF Leave, V!Leave
    <2>7. CASE UNCHANGED vars
      BY <2>7 DEF vars, V!vars
    <2> QED
      BY <2>1, <2>2, <2>3, <2>4, <2>5, <2>6, <2>7 DEF Next, Verdict, V!Next, V!Verdict
  <1> QED
    BY <1>1, <1>2, InductiveInvariant, PTL DEF Spec, OneVerdict, V!Spec
=============================================================================
