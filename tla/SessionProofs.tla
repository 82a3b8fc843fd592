----------------------------- MODULE SessionProofs ------------------------------
(***************************************************************************)
(* Session.tla keeps its key table true to its object table, loses no      *)
(* window that a batch built, tells of every close and echoes nothing, for *)
(* any objects, names, number of batches and number of subscriptions.      *)
(***************************************************************************)
EXTENDS Session, SequenceTheorems, TLAPS

\* A batch's news under way name objects of the table, and suppression is as
\* deep as the one outermost new; the rest is what the theorems state.
IInv ==
  /\ stack \in Seq([id : objects, path : Paths \union {NoPath}])
  /\ created \in Seq(Windows)
  /\ suppress = IF stack = << >> THEN 0 ELSE 1
  /\ phase # "running" => stack = << >>
  /\ KeysNameObjects
-----------------------------------------------------------------------------
(* Sequences *)

LEMMA AppendHas ==
  ASSUME NEW S, NEW s \in Seq(S), NEW x \in S
  PROVE  /\ Append(s, x) \in Seq(S) /\ Append(s, x) # << >>
         /\ {Append(s, x)[i] : i \in DOMAIN Append(s, x)} = {s[i] : i \in DOMAIN s} \union {x}
  <1> DEFINE t == Append(s, x)
  <1>1. /\ t \in Seq(S) /\ Len(t) = Len(s) + 1 /\ t[Len(s) + 1] = x /\ t # << >>
        /\ \A i \in 1..Len(s) : t[i] = s[i]
    OBVIOUS
  <1>2. DOMAIN s = 1..Len(s) /\ DOMAIN t = 1..(Len(s) + 1) /\ Len(s) \in Nat
    BY <1>1
  <1> HIDE DEF t
  <1>3. \A i \in DOMAIN t : t[i] \in {s[j] : j \in DOMAIN s} \union {x}
    BY <1>1, <1>2
  <1>4. \A i \in DOMAIN s : i \in DOMAIN t /\ t[i] = s[i]
    BY <1>1, <1>2
  <1>5. Len(s) + 1 \in DOMAIN t
    BY <1>2
  <1>6. {t[i] : i \in DOMAIN t} = {s[i] : i \in DOMAIN s} \union {x}
    BY <1>1, <1>3, <1>4, <1>5
  <1> QED
    BY <1>1, <1>6 DEF t

LEMMA HeadTailHave ==
  ASSUME NEW S, NEW s \in Seq(S), s # << >>
  PROVE  /\ Head(s) \in S /\ Tail(s) \in Seq(S)
         /\ Head(s) \in {s[i] : i \in DOMAIN s}
         /\ {s[i] : i \in DOMAIN s} = {Tail(s)[i] : i \in DOMAIN Tail(s)} \union {Head(s)}
  <1> DEFINE t == Tail(s)
  <1>1. /\ t \in Seq(S) /\ Len(t) = Len(s) - 1 /\ Head(s) = s[1] /\ Head(s) \in S
        /\ \A i \in 1..Len(t) : t[i] = s[i + 1]
        /\ Len(s) \in Nat \ {0}
    OBVIOUS
  <1>2. DOMAIN s = 1..Len(s) /\ DOMAIN t = 1..(Len(s) - 1)
    BY <1>1
  <1> HIDE DEF t
  <1>3. \A i \in DOMAIN t : i + 1 \in DOMAIN s /\ t[i] = s[i + 1]
    BY <1>1, <1>2
  <1>4. \A i \in DOMAIN s : i = 1 \/ (i - 1 \in DOMAIN t /\ t[i - 1] = s[i])
    <2>1. SUFFICES ASSUME NEW i \in DOMAIN s, i # 1
                   PROVE  i - 1 \in DOMAIN t /\ t[i - 1] = s[i]
      OBVIOUS
    <2>2. i - 1 \in DOMAIN t /\ (i - 1) + 1 = i
      BY <1>1, <1>2, <2>1
    <2> QED
      BY <1>3, <2>2
  <1>5. 1 \in DOMAIN s
    BY <1>1, <1>2
  <1>6. \A i \in DOMAIN s : s[i] \in {t[j] : j \in DOMAIN t} \union {Head(s)}
    BY <1>1, <1>4
  <1>7. \A i \in DOMAIN t : t[i] \in {s[j] : j \in DOMAIN s}
    BY <1>3
  <1>8. Head(s) \in {s[j] : j \in DOMAIN s}
    BY <1>1, <1>5
  <1>9. {s[i] : i \in DOMAIN s} = {t[i] : i \in DOMAIN t} \union {Head(s)}
    BY <1>6, <1>7, <1>8
  <1> QED
    BY <1>1, <1>8, <1>9 DEF t

\* What is on a stack without its top
LEMMA PoppedIs ==
  ASSUME NEW S, NEW s \in Seq(S), s # << >>
  PROVE  /\ SubSeq(s, 1, Len(s) - 1) \in Seq(S) /\ s[Len(s)] \in S
         /\ SubSeq(s, 1, Len(s) - 1) = << >> <=> Len(s) = 1
  <1>1. Len(s) \in Nat \ {0} /\ s \in [1..Len(s) -> S]
    OBVIOUS
  <1>2. \A i \in 1..(Len(s) - 1) : s[i] \in S
    BY <1>1
  <1>3. /\ SubSeq(s, 1, Len(s) - 1) \in Seq(S)
        /\ Len(SubSeq(s, 1, Len(s) - 1)) = IF 1 <= Len(s) - 1 THEN Len(s) - 1 - 1 + 1 ELSE 0
    BY <1>1, <1>2, SubSeqProperties
  <1>4. Len(SubSeq(s, 1, Len(s) - 1)) = Len(s) - 1
    BY <1>1, <1>3
  <1>5. SubSeq(s, 1, Len(s) - 1) = << >> <=> Len(SubSeq(s, 1, Len(s) - 1)) = 0
    BY <1>3, EmptySeq
  <1> QED
    BY <1>1, <1>3, <1>4, <1>5

LEMMA FirstIs ==
  ASSUME NEW S, NEW s \in Seq(S), s # << >>
  PROVE  s[1] \in S
  OBVIOUS

-----------------------------------------------------------------------------
(* The invariant *)

LEMMA InitIInv == Init => IInv
  BY DEF Init, IInv, KeysNameObjects

\* A name given to an object of the table keeps the key table true.
LEMMA NamedKeeps ==
  ASSUME KeysNameObjects, NEW path, NEW id \in objects
  PROVE  \A p \in DOMAIN Named(path, id) : Named(path, id)[p] \in objects
  BY DEF Named, KeysNameObjects

\* A window that closes leaves the application's list for the closed ones.
LEMMA CloseKeeps ==
  ASSUME NEW w, NEW depth, Close(w, depth)
  PROVE  shown \union closed \subseteq shown' \union closed'
  BY DEF Close

\* Outside a batch nothing is suppressed.
LEMMA NothingSuppressed ==
  ASSUME IInv, phase # "running"
  PROVE  suppress = 0
  BY DEF IInv

\* An attempt either asks, and says so, or closes.
LEMMA AttemptIs ==
  ASSUME suppress = 0, NEW w, AttemptClose(w)
  PROVE  /\ shown \union closed \subseteq shown' \union closed'
         /\ w \in closed' \/ (w \in deciding' /\ <<w, "window_closing">> \in said')
  <1>1. CASE w \notin closed /\ Subscribed(w, "window_closing")
    BY <1>1 DEF AttemptClose, Emitted
  <1>2. CASE ~(w \notin closed /\ Subscribed(w, "window_closing"))
    BY <1>2, CloseKeeps DEF AttemptClose, Close
  <1> QED
    BY <1>1, <1>2

LEMMA IInvStep ==
  ASSUME IInv, [Next]_vars
  PROVE  IInv'
  <1>1. ASSUME UNCHANGED <<stack, suppress, objects>>, phase' = "running" \/ stack = << >>
        PROVE  /\ stack' \in Seq([id : objects', path : Paths \union {NoPath}])
               /\ suppress' = IF stack' = << >> THEN 0 ELSE 1
               /\ phase' # "running" => stack' = << >>
    BY <1>1 DEF IInv
  <1>2. ASSUME UNCHANGED created PROVE created' \in Seq(Windows)
    BY <1>2 DEF IInv
  <1>3. ASSUME UNCHANGED <<keys, objects>>
        PROVE  KeysNameObjects'
    BY <1>3 DEF IInv, KeysNameObjects
  <1>4. CASE BatchBegins \/ BatchRuns \/ BatchReplied \/ Leave
    <2>1. UNCHANGED <<stack, suppress, objects, keys, created>>
      BY <1>4 DEF BatchBegins, BatchRuns, BatchReplied, Leave
    <2>2. phase' = "running" \/ stack = << >>
      BY <1>4 DEF BatchBegins, BatchRuns, BatchReplied, Leave, Between, IInv
    <2> QED
      BY <1>1, <1>2, <1>3, <2>1, <2>2 DEF IInv
  <1>5. CASE BatchFails
    <2>1. /\ stack' = << >> /\ suppress' = 0 /\ created' = created
          /\ UNCHANGED <<objects, keys>>
      BY <1>5 DEF BatchFails, Unwound, Kept
    <2> QED
      BY <1>2, <1>3, <2>1 DEF IInv
  <1>6. ASSUME NEW id \in Ids, NEW name \in Names \union {NoName}, New(id, name)
        PROVE  IInv'
    <2> DEFINE S == [id : objects', path : Paths \union {NoPath}]
               path == IF stack = << >> THEN <<name, NoName>>
                       ELSE IF name # NoName /\ stack[1].path # NoPath THEN <<stack[1].path[1], name>>
                       ELSE NoPath
    <2>1. /\ objects' = objects \union {id}
          /\ phase = "running" /\ UNCHANGED <<phase, keys>>
          /\ stack' = Append(stack, [id |-> id, path |-> path])
          /\ suppress' = IF stack = << >> THEN Suppressed(suppress) ELSE suppress
          /\ created' = IF id \in Windows THEN Append(created, id) ELSE created
      BY <1>6 DEF New
    <2>2. path \in Paths \union {NoPath}
      <3>1. CASE stack = << >>
        BY <3>1 DEF Paths, NoPath
      <3>2. CASE stack # << >> /\ name # NoName /\ stack[1].path # NoPath
        <4>1. stack[1] \in [id : objects, path : Paths \union {NoPath}]
          BY <3>2, FirstIs DEF IInv
        <4>2. stack[1].path \in Paths
          BY <3>2, <4>1
        <4>3. stack[1].path[1] \in Names
          BY <4>2 DEF Paths
        <4> QED
          BY <3>2, <4>3 DEF Paths
      <3> QED
        BY <3>1, <3>2
    <2>3. stack \in Seq(S)
      <3>1. [id : objects, path : Paths \union {NoPath}] \subseteq S
        BY <2>1
      <3>2. stack \in Seq([id : objects, path : Paths \union {NoPath}])
        BY DEF IInv
      <3> HIDE DEF S
      <3> QED
        BY <3>1, <3>2, SeqMonotonic
    <2>4. [id |-> id, path |-> path] \in S
      BY <2>1, <2>2
    <2>5. stack' \in Seq(S) /\ stack' # << >>
      BY <2>1, <2>3, <2>4, AppendHas
    <2>6. suppress' = 1
      BY <2>1 DEF IInv, Suppressed
    <2>7. KeysNameObjects'
      BY <2>1 DEF IInv, KeysNameObjects
    <2>8. created' \in Seq(Windows)
      BY <2>1, AppendHas DEF IInv
    <2> QED
      BY <2>1, <2>5, <2>6, <2>7, <2>8 DEF IInv
  <1>7. CASE NewEnds
    <2> DEFINE S == [id : objects, path : Paths \union {NoPath}]
               top == stack[Len(stack)]
    <2>1. /\ phase = "running" /\ stack # << >>
          /\ keys' = IF top.path = NoPath THEN keys ELSE Named(top.path, top.id)
          /\ stack' = SubSeq(stack, 1, Len(stack) - 1)
          /\ suppress' = IF Len(stack) = 1 THEN suppress - 1 ELSE suppress
          /\ UNCHANGED <<phase, objects, created>>
      BY <1>7 DEF NewEnds
    <2>2. stack' \in Seq(S) /\ top \in S /\ (stack' = << >> <=> Len(stack) = 1)
      BY <2>1, PoppedIs DEF IInv
    <2>3. KeysNameObjects'
      <3>1. top.id \in objects
        BY <2>2
      <3> QED
        BY <2>1, <3>1, NamedKeeps DEF IInv, KeysNameObjects
    <2>4. suppress' = IF stack' = << >> THEN 0 ELSE 1
      BY <2>1, <2>2 DEF IInv
    <2> QED
      BY <1>2, <2>1, <2>2, <2>3, <2>4 DEF IInv
  <1>15. ASSUME NEW id \in Ids, NEW path \in Paths \union {NoPath}, Set(id, path)
         PROVE  IInv'
    <2>1. /\ id \in objects /\ phase = "running" /\ stack = << >>
          /\ stack' = <<[id |-> id, path |-> path]>>
          /\ suppress' = suppress + 1
          /\ UNCHANGED <<phase, objects, keys, created>>
      BY <1>15 DEF Set, Between, Suppressed
    <2>2. /\ stack' \in Seq([id : objects', path : Paths \union {NoPath}])
          /\ stack' # << >>
      BY <2>1
    <2>3. suppress' = 1
      BY <2>1 DEF IInv
    <2> QED
      BY <1>2, <1>3, <2>1, <2>2, <2>3 DEF IInv
  <1>8. ASSUME NEW id \in Ids, PersonChanges(id)
        PROVE  IInv'
    BY <1>1, <1>2, <1>3, <1>8 DEF PersonChanges, IInv
  <1>9. ASSUME NEW id \in Ids, NEW name \in Names, Surface(name, id)
        PROVE  IInv'
    <2>1. /\ keys' = Named(<<name, NoName>>, id) /\ id \in objects /\ stack = << >>
          /\ UNCHANGED <<phase, objects, stack, created, suppress>>
      BY <1>9 DEF Surface, Between
    <2>2. KeysNameObjects'
      BY <2>1, NamedKeeps DEF IInv, KeysNameObjects
    <2> QED
      BY <1>1, <1>2, <2>1, <2>2 DEF IInv
  <1>10. ASSUME NEW id, NEW event, Subscribe(id, event) \/ Unsubscribe(id, event)
         PROVE  IInv'
    BY <1>1, <1>2, <1>3, <1>10 DEF Subscribe, Unsubscribe, Between, IInv
  <1>11. ASSUME NEW id \in Ids, Destroy(id)
         PROVE  IInv'
    <2>1. /\ stack = << >> /\ Forgotten(id)
          /\ UNCHANGED <<phase, stack, created, suppress>>
      BY <1>11 DEF Destroy, Between
    <2>2. KeysNameObjects'
      BY <2>1 DEF IInv, KeysNameObjects, Forgotten
    <2>3. created' \in Seq(Windows)
      BY <1>2, <2>1
    <2>4. stack' \in Seq([id : objects', path : Paths \union {NoPath}])
      BY <2>1
    <2> QED
      BY <2>1, <2>2, <2>3, <2>4 DEF IInv
  <1>12. ASSUME NEW w \in Windows, Allow(w) \/ Forced(w) \/ Deny(w) \/ PersonCloses(w)
         PROVE  IInv'
    <2>1. UNCHANGED <<phase, stack, suppress, objects, keys, created>>
      BY <1>12 DEF Allow, Forced, Deny, PersonCloses
    <2>2. stack = << >>
      BY <1>12 DEF Allow, Forced, Deny, PersonCloses, Between, IInv
    <2> QED
      BY <1>1, <1>2, <1>3, <2>1, <2>2 DEF IInv
  <1>13. ASSUME NEW main \in BOOLEAN, Adopt(main)
         PROVE  IInv'
    <2>1. /\ phase = "adopting" /\ created # << >> /\ created' = Tail(created)
          /\ UNCHANGED <<phase, objects, keys, stack, suppress>>
      BY <1>13 DEF Adopt
    <2>2. created' \in Seq(Windows)
      BY <2>1, HeadTailHave DEF IInv
    <2> QED
      BY <1>1, <1>3, <2>1, <2>2 DEF IInv
  <1>14. CASE UNCHANGED vars
    BY <1>1, <1>2, <1>3, <1>14 DEF vars, IInv
  <1> QED
    BY <1>4, <1>5, <1>6, <1>7, <1>8, <1>9, <1>10, <1>11, <1>12, <1>13, <1>14, <1>15
    DEF Next

LEMMA IInvAlways == Spec => []IInv
  <1>1. IInv /\ [Next]_vars => IInv'
    BY IInvStep
  <1> QED
    BY <1>1, InitIInv, PTL DEF Spec

-----------------------------------------------------------------------------
(* The theorems *)

\* A key never outlives its object (setKey, forget).
THEOREM KeysNameObjectsAlways == Spec => []KeysNameObjects
  <1>1. IInv => KeysNameObjects
    BY DEF IInv
  <1> QED
    BY <1>1, IInvAlways, PTL

\* Whatever fails, a window that was built stays shown, closed or to be adopted,
\* or the application is asked about it in that very step (Session.Execute,
\* display.execute, the close handler).
THEOREM WindowsAreKeptAlways == Spec => WindowsAreKept
  <1> DEFINE Stays(w) == w \notin made \/ w \in Known =>
                           w \in Known' \/ (w \in deciding' /\ <<w, "window_closing">> \in said')
  <1>1. IInv /\ [Next]_vars => [\A w \in Known \union (made' \intersect Windows) : Stays(w)]_vars
    <2> SUFFICES ASSUME IInv, Next, NEW w \in Known \union (made' \intersect Windows),
                        w \notin made \/ w \in Known
                 PROVE  w \in Known' \/ (w \in deciding' /\ <<w, "window_closing">> \in said')
      OBVIOUS
    <2>1. ASSUME UNCHANGED <<made, created>>, shown \union closed \subseteq shown' \union closed'
          PROVE  w \in Known'
      BY <2>1 DEF Known, Waiting
    <2>2. CASE BatchBegins \/ BatchRuns \/ BatchReplied \/ Leave \/ NewEnds \/ BatchFails
      <3>1. UNCHANGED <<made, created>> /\ shown \union closed \subseteq shown' \union closed'
        BY <2>2 DEF BatchBegins, BatchRuns, BatchReplied, Leave, NewEnds, BatchFails, Kept
      <3> QED
        BY <2>1, <3>1
    <2>3. ASSUME NEW id \in Ids, NEW name \in Names \union {NoName}, New(id, name)
          PROVE  w \in Known'
      <3>1. /\ made' = made \union {id} /\ UNCHANGED <<shown, closed>>
            /\ created' = IF id \in Windows THEN Append(created, id) ELSE created
        BY <2>3 DEF New
      <3>2. CASE id \in Windows
        <4>1. created \in Seq(Windows) /\ created' = Append(created, id)
          BY <3>1, <3>2 DEF IInv
        <4>2. {Append(created, id)[i] : i \in DOMAIN Append(created, id)}
                = {created[i] : i \in DOMAIN created} \union {id}
          BY <3>2, <4>1, AppendHas
        <4>3. Waiting' = Waiting \union {id}
          BY <4>1, <4>2 DEF Waiting
        <4> QED
          BY <3>1, <4>3 DEF Known
      <3>3. CASE id \notin Windows
        BY <3>1, <3>3 DEF Known, Waiting
      <3> QED
        BY <3>2, <3>3
    <2>4. ASSUME NEW id \in Ids,
                 \/ PersonChanges(id) \/ Destroy(id)
                 \/ \E path \in Paths \union {NoPath} : Set(id, path)
                 \/ \E name \in Names : Surface(name, id)
          PROVE  w \in Known'
      <3>1. UNCHANGED <<made, created>>
        BY <2>4 DEF PersonChanges, Destroy, Set, Surface
      <3>2. shown \union closed \subseteq shown' \union closed'
        BY <2>4, CloseKeeps DEF PersonChanges, Destroy, Set, Surface
      <3> QED
        BY <2>1, <3>1, <3>2
    <2>5. ASSUME NEW id, NEW event, Subscribe(id, event) \/ Unsubscribe(id, event)
          PROVE  w \in Known'
      BY <2>1, <2>5 DEF Subscribe, Unsubscribe
    <2>6. ASSUME NEW v \in Windows, Allow(v) \/ Deny(v) \/ PersonCloses(v) \/ Forced(v)
          PROVE  w \in Known'
      <3>1. UNCHANGED <<made, created>>
        BY <2>6 DEF Allow, Deny, PersonCloses, Forced
      <3>2. CASE Allow(v) \/ Deny(v) \/ Forced(v)
        BY <2>1, <3>1, <3>2, CloseKeeps DEF Allow, Deny, Forced
      <3>3. CASE PersonCloses(v)
        <4>1. suppress = 0
          BY <3>3 DEF PersonCloses, IInv
        <4> QED
          BY <2>1, <3>1, <3>3, <4>1, AttemptIs DEF PersonCloses
      <3> QED
        BY <2>6, <3>2, <3>3
    <2>7. ASSUME NEW main \in BOOLEAN, Adopt(main)
          PROVE  w \in Known' \/ (w \in deciding' /\ <<w, "window_closing">> \in said')
      <3> DEFINE h == Head(created)
      <3>1. /\ suppress = 0 /\ created # << >> /\ created' = Tail(created) /\ UNCHANGED made
            /\ AttemptClose(h) \/ (shown' = shown \union {h} /\ UNCHANGED closed)
        BY <2>7 DEF Adopt, IInv
      <3>2. Waiting = Waiting' \union {h}
        BY <3>1, HeadTailHave DEF IInv, Waiting
      <3>3. shown \union closed \subseteq shown' \union closed'
        BY <3>1, AttemptIs
      <3>4. \/ h \in shown' \union closed'
            \/ h \in deciding' /\ <<h, "window_closing">> \in said'
        BY <3>1, AttemptIs
      <3>5. w \in Known
        BY <3>1
      <3> QED
        BY <3>2, <3>3, <3>4, <3>5 DEF Known
    <2> QED
      BY <2>2, <2>3, <2>4, <2>5, <2>6, <2>7 DEF Next
  <1> QED
    BY <1>1, IInvAlways, PTL DEF Spec, WindowsAreKept

\* A close that does not come of leaving is told to whoever subscribed to it
\* (announcing, EmitEvent).
THEOREM EveryCloseIsToldAlways == Spec => EveryCloseIsTold
  <1>1. IInv /\ [Next]_vars =>
          [\A w \in closed' \ closed :
             phase' # "left" /\ Subscribed(w, "window_closed") => <<w, "window_closed">> \in said']_vars
    <2>1. SUFFICES ASSUME IInv, [Next]_vars, NEW w \in closed' \ closed, phase' # "left",
                          Subscribed(w, "window_closed")
                   PROVE  <<w, "window_closed">> \in said'
      OBVIOUS
    <2>2. ASSUME NEW v, Close(v, 0)
          PROVE  <<w, "window_closed">> \in said'
      BY <2>1, <2>2 DEF Close, Emitted
    <2>3. ASSUME NEW v, Destroy(v) \/ Allow(v) \/ Forced(v)
          PROVE  Close(v, 0)
      BY <2>1, <2>3 DEF Destroy, Allow, Forced, Between, Announcing, IInv
    <2>4. ASSUME NEW v, AttemptClose(v), suppress = 0
          PROVE  Close(v, 0)
      BY <2>1, <2>4 DEF AttemptClose
    <2>5. ASSUME NEW v, PersonCloses(v)
          PROVE  Close(v, 0)
      BY <2>1, <2>4, <2>5, NothingSuppressed DEF PersonCloses
    <2>6. ASSUME NEW main \in BOOLEAN, Adopt(main)
          PROVE  Close(Head(created), 0)
      <3>1. phase = "adopting" /\ suppress = 0
        BY <2>1, <2>6, NothingSuppressed DEF Adopt
      <3>2. AttemptClose(Head(created)) \/ UNCHANGED closed
        BY <2>6 DEF Adopt
      <3> QED
        BY <2>1, <2>4, <3>1, <3>2
    <2>7. \/ \E v : Destroy(v) \/ Allow(v) \/ Forced(v) \/ PersonCloses(v)
          \/ \E main \in BOOLEAN : Adopt(main)
      BY <2>1 DEF Next, vars, BatchBegins, BatchFails, NewEnds, BatchRuns, BatchReplied, Leave,
                  Set, PersonChanges, New, Surface, Subscribe, Unsubscribe, Deny
    <2> QED
      BY <2>2, <2>3, <2>5, <2>6, <2>7
  <1> QED
    BY <1>1, IInvAlways, PTL DEF Spec, EveryCloseIsTold

\* Nothing a batch sets comes back as a change (suppressed, EmitEvent).
THEOREM NothingEchoesAlways == Spec => NothingEchoes
  <1>1. IInv /\ [Next]_vars =>
          [phase = "running" /\ objects \subseteq objects' =>
             \A id \in Ids : <<id, "changed">> \notin said']_vars
    <2>1. SUFFICES ASSUME IInv, [Next]_vars, ~UNCHANGED vars, phase = "running",
                          objects \subseteq objects', NEW i \in Ids
                   PROVE  <<i, "changed">> \notin said'
      OBVIOUS
    <2>2. ASSUME NEW id, NEW name, New(id, name)
          PROVE  said' = {}
      BY <2>1, <2>2 DEF New, Emitted, Suppressed, IInv
    <2>3. ASSUME NEW id, NEW path, Set(id, path)
          PROVE  said' = {}
      BY <2>1, <2>3 DEF Set, Emitted, Suppressed, IInv, Between
    <2>4. ASSUME NEW w, Allow(w)
          PROVE  said' \subseteq {<<w, "window_closed">>}
      BY <2>4 DEF Allow, Close, Emitted
    <2>8. ASSUME NEW id, Destroy(id)
          PROVE  FALSE
      BY <2>1, <2>8 DEF Destroy, Forgotten
    <2>5. CASE \/ BatchFails \/ NewEnds \/ BatchRuns
               \/ \E id, name : Surface(name, id)
               \/ \E id, event : Subscribe(id, event) \/ Unsubscribe(id, event)
               \/ \E w : Deny(w)
      BY <2>5 DEF BatchFails, NewEnds, BatchRuns, Surface, Subscribe, Unsubscribe, Deny
    <2>6. \/ \E id, name : New(id, name)
          \/ \E id, path : Set(id, path)
          \/ \E id : Destroy(id)
          \/ \E w : Allow(w)
          \/ BatchFails \/ NewEnds \/ BatchRuns
          \/ \E id, name : Surface(name, id)
          \/ \E id, event : Subscribe(id, event) \/ Unsubscribe(id, event)
          \/ \E w : Deny(w)
      BY <2>1 DEF Next, BatchBegins, BatchReplied, Leave, Adopt, PersonChanges, PersonCloses, Forced
    <2>7. \A w : <<i, "changed">> # <<w, "window_closed">>
      OBVIOUS
    <2> QED
      BY <2>2, <2>3, <2>4, <2>5, <2>6, <2>7, <2>8
  <1> QED
    BY <1>1, IInvAlways, PTL DEF Spec, NothingEchoes

\* A closed window joins the application's list only by adoption (take,
\* Application.AddWindow).
THEOREM ClosedIsGoneUnlessAdoptedAlways == Spec => ClosedIsGoneUnlessAdopted
  <1>1. IInv /\ [Next]_vars =>
          [(shown' \intersect closed') \ (shown \intersect closed) \subseteq Waiting]_vars
    <2>1. SUFFICES ASSUME IInv, Next
                   PROVE  (shown' \intersect closed') \ (shown \intersect closed) \subseteq Waiting
      OBVIOUS
    <2>2. ASSUME NEW v, NEW depth, Close(v, depth)
          PROVE  shown' \intersect closed' \subseteq shown \intersect closed
      BY <2>2 DEF Close
    <2>3. ASSUME NEW v, Destroy(v) \/ Allow(v) \/ Forced(v) \/ Deny(v) \/ AttemptClose(v)
          PROVE  shown' \intersect closed' \subseteq shown \intersect closed
      BY <2>2, <2>3 DEF Destroy, Allow, Forced, Deny, AttemptClose
    <2>4. ASSUME NEW main \in BOOLEAN, Adopt(main)
          PROVE  (shown' \intersect closed') \ (shown \intersect closed) \subseteq Waiting
      <3>1. Head(created) \in Waiting
        BY <2>1, <2>4, HeadTailHave DEF Adopt, IInv, Waiting
      <3> QED
        BY <2>3, <2>4, <3>1 DEF Adopt
    <2>5. CASE Leave
      BY <2>5 DEF Leave
    <2>6. \/ \E v : Destroy(v) \/ Allow(v) \/ Forced(v) \/ Deny(v) \/ AttemptClose(v)
          \/ \E main \in BOOLEAN : Adopt(main)
          \/ Leave
          \/ UNCHANGED <<shown, closed>>
      BY <2>1 DEF Next, BatchBegins, BatchFails, NewEnds, BatchRuns, BatchReplied, Set,
                  PersonChanges, New, Surface, Subscribe, Unsubscribe, PersonCloses
    <2> QED
      BY <2>3, <2>4, <2>5, <2>6
  <1> QED
    BY <1>1, IInvAlways, PTL DEF Spec, ClosedIsGoneUnlessAdopted

-----------------------------------------------------------------------------
(* Types *)

\* Types of what a step does to the windows of the application.
LEMMA CloseTypes ==
  ASSUME TypeOK, NEW w \in Windows, NEW depth, Close(w, depth)
  PROVE  shown' \subseteq Windows /\ closed' \subseteq Windows
  BY DEF TypeOK, Close

LEMMA AttemptTypes ==
  ASSUME TypeOK, NEW w \in Windows, AttemptClose(w)
  PROVE  shown' \subseteq Windows /\ closed' \subseteq Windows /\ deciding' \subseteq Windows
  BY CloseTypes DEF TypeOK, AttemptClose

LEMMA DescribedTypes ==
  ASSUME TypeOK, NEW id, Described(id)
  PROVE  type' \in [Windows -> Types] /\ owner' \in [Windows -> Windows \union {Nobody}]
  <1>1. CASE id \in Windows
    <2>1. PICK t \in Types : type' = [type EXCEPT ![id] = t]
      BY <1>1 DEF Described
    <2>2. type' \in [Windows -> Types]
      BY <2>1 DEF TypeOK
    <2>3. \/ UNCHANGED owner
          \/ \E o \in (objects \intersect Windows) \union {owner[id], Nobody} :
               owner' = [owner EXCEPT ![id] = o]
      BY <1>1 DEF Described
    <2>4. owner' \in [Windows -> Windows \union {Nobody}]
      <3>1. CASE UNCHANGED owner
        BY <3>1 DEF TypeOK
      <3>2. CASE \E o \in (objects \intersect Windows) \union {owner[id], Nobody} :
                   owner' = [owner EXCEPT ![id] = o]
        <4>1. PICK o \in (objects \intersect Windows) \union {owner[id], Nobody} :
                owner' = [owner EXCEPT ![id] = o]
          BY <3>2
        <4>2. o \in Windows \union {Nobody}
          BY <1>1, <4>1 DEF TypeOK
        <4> QED
          BY <4>1, <4>2 DEF TypeOK
      <3> QED
        BY <2>3, <3>1, <3>2
    <2> QED
      BY <2>2, <2>4
  <1>2. CASE id \notin Windows
    BY <1>2 DEF Described, TypeOK
  <1> QED
    BY <1>1, <1>2

\* A part is built inside a window, and nothing inside a part.
LEMMA PushedIs ==
  ASSUME NEW S, NEW s \in Seq(S), s = << >> \/ Len(s) = 1, NEW x
  PROVE  Len(Append(s, x)) <= 2
  <1>1. s \in Seq(S \union {x})
    BY SeqMonotonic
  <1>2. Len(Append(s, x)) = Len(s) + 1 /\ Len(s) \in Nat
    BY <1>1
  <1>3. Len(s) <= 1
    <2>1. CASE s = << >>
      BY <2>1
    <2>2. CASE Len(s) = 1
      BY <2>2
    <2> QED
      BY <2>1, <2>2
  <1> QED
    BY <1>2, <1>3

LEMMA TypeOKStep ==
  ASSUME IInv, TypeOK, [Next]_vars
  PROVE  TypeOK'
  <1> USE SessionAssumption
  <1>1. CASE BatchBegins \/ BatchRuns \/ BatchReplied \/ Leave \/ UNCHANGED vars
    BY <1>1 DEF TypeOK, BatchBegins, BatchRuns, BatchReplied, Leave, Waiting, vars
  <1>2. CASE BatchFails
    BY <1>2 DEF TypeOK, BatchFails, Unwound, Kept, Waiting
  <1>3. ASSUME NEW id \in Ids, NEW name \in Names \union {NoName}, New(id, name)
        PROVE  TypeOK'
    <2>1. /\ objects' = objects \union {id} /\ made' = made \union {id}
          /\ UNCHANGED <<phase, batches, sets, keys, subs, shown, slot, deciding, closed>>
      BY <1>3 DEF New
    <2>2. Len(stack') <= 2
      <3>1. PICK x : stack' = Append(stack, x)
        BY <1>3 DEF New
      <3>2. stack = << >> \/ Len(stack) = 1
        BY <1>3 DEF New
      <3> QED
        BY <3>1, <3>2, PushedIs DEF IInv
    <2>3. Waiting' \subseteq Windows
      <3>1. created' \in Seq(Windows)
        BY IInvStep DEF IInv
      <3> QED
        BY <3>1 DEF Waiting
    <2>4. suppress' \in Nat
      BY <1>3 DEF New, TypeOK, Suppressed
    <2>5. type' \in [Windows -> Types] /\ owner' \in [Windows -> Windows \union {Nobody}]
      BY <1>3, DescribedTypes DEF New
    <2> QED
      BY <2>1, <2>2, <2>3, <2>4, <2>5 DEF TypeOK
  <1>4. CASE NewEnds
    <2>1. /\ stack # << >>
          /\ keys' = IF stack[Len(stack)].path = NoPath THEN keys
                     ELSE Named(stack[Len(stack)].path, stack[Len(stack)].id)
          /\ stack' = SubSeq(stack, 1, Len(stack) - 1)
          /\ suppress' = IF Len(stack) = 1 THEN suppress - 1 ELSE suppress
          /\ UNCHANGED <<phase, batches, sets, objects, created, subs, type, owner, made, shown, slot,
                         deciding, closed>>
      BY <1>4 DEF NewEnds
    <2>2. stack \in Seq([id : objects, path : Paths \union {NoPath}])
      BY DEF IInv
    <2>3. stack[Len(stack)] \in [id : objects, path : Paths \union {NoPath}]
      BY <2>1, <2>2, PoppedIs
    <2>4. DOMAIN keys' \subseteq Paths
      BY <2>1, <2>3 DEF TypeOK, Named
    <2>5. Len(stack') <= 2
      BY <2>1, <2>2, SubSeqProperties DEF TypeOK
    <2>6. suppress' \in Nat
      BY <2>1 DEF IInv, TypeOK
    <2> QED
      BY <2>1, <2>4, <2>5, <2>6 DEF TypeOK, Waiting
  <1>5. ASSUME NEW id \in Ids, PersonChanges(id)
        PROVE  TypeOK'
    BY <1>5 DEF TypeOK, PersonChanges, Waiting
  <1>11. ASSUME NEW id \in Ids, NEW path \in Paths \union {NoPath}, Set(id, path)
         PROVE  TypeOK'
    <2>1. /\ sets < MaxSets /\ sets' = sets + 1
          /\ suppress' = suppress + 1 /\ Described(id)
          /\ stack' = <<[id |-> id, path |-> path]>>
          /\ UNCHANGED <<phase, batches, objects, keys, created, subs, made, shown, slot,
                         deciding, closed>>
      BY <1>11 DEF Set, Suppressed
    <2>2. sets' \in 0..MaxSets /\ suppress' \in Nat
      BY <2>1 DEF TypeOK
    <2>3. Len(stack') <= 2
      BY <2>1
    <2>4. type' \in [Windows -> Types] /\ owner' \in [Windows -> Windows \union {Nobody}]
      BY <2>1, DescribedTypes
    <2> QED
      BY <2>1, <2>2, <2>3, <2>4 DEF TypeOK, Waiting
  <1>6. ASSUME NEW id \in Ids, NEW name \in Names, Surface(name, id)
        PROVE  TypeOK'
    <2>1. DOMAIN keys' \subseteq Paths
      BY <1>6 DEF TypeOK, Surface, Named, Paths
    <2> QED
      BY <1>6, <2>1 DEF TypeOK, Surface, Waiting
  <1>7. ASSUME NEW id \in Ids \union {Nobody}, NEW event \in Events \union {AllEvents},
               Subscribe(id, event) \/ Unsubscribe(id, event)
        PROVE  TypeOK'
    BY <1>7 DEF TypeOK, Subscribe, Unsubscribe, Waiting
  <1>8. ASSUME NEW id \in Ids, Destroy(id)
        PROVE  TypeOK'
    <2>1. DOMAIN keys' \subseteq Paths /\ objects' \subseteq made
      BY <1>8 DEF TypeOK, Destroy, Forgotten
    <2>2. UNCHANGED <<phase, batches, sets, stack, created, suppress, subs, type, owner, made, slot,
                      deciding>>
      BY <1>8 DEF Destroy
    <2>3. shown' \subseteq Windows /\ closed' \subseteq Windows
      <3>1. CASE id \in Windows
        BY <1>8, <3>1, CloseTypes DEF Destroy
      <3>2. CASE id \notin Windows
        BY <1>8, <3>2 DEF Destroy, TypeOK
      <3> QED
        BY <3>1, <3>2
    <2> QED
      BY <2>1, <2>2, <2>3 DEF TypeOK, Waiting
  <1>9. ASSUME NEW w \in Windows, Allow(w) \/ Forced(w) \/ Deny(w) \/ PersonCloses(w)
        PROVE  TypeOK'
    <2>1. UNCHANGED <<phase, batches, sets, objects, keys, stack, created, suppress, subs, type, owner,
                      made, slot>>
      BY <1>9 DEF Allow, Forced, Deny, PersonCloses
    <2>2. CASE Allow(w) \/ Forced(w) \/ Deny(w)
      <3>1. deciding' = deciding \ {w} /\ ((\E depth : Close(w, depth)) \/ UNCHANGED <<shown, closed>>)
        BY <2>2 DEF Allow, Forced, Deny
      <3>2. shown' \subseteq Windows /\ closed' \subseteq Windows
        BY <3>1, CloseTypes DEF TypeOK
      <3> QED
        BY <2>1, <3>1, <3>2 DEF TypeOK, Waiting
    <2>3. CASE PersonCloses(w)
      <3>1. shown' \subseteq Windows /\ closed' \subseteq Windows /\ deciding' \subseteq Windows
        BY <2>3, AttemptTypes DEF PersonCloses
      <3> QED
        BY <2>1, <3>1 DEF TypeOK, Waiting
    <2> QED
      BY <1>9, <2>2, <2>3
  <1>10. ASSUME NEW main \in BOOLEAN, Adopt(main)
         PROVE  TypeOK'
    <2> DEFINE w == Head(created)
    <2>1. created # << >> /\ created \in Seq(Windows)
      BY <1>10 DEF Adopt, IInv
    <2>2. w \in Windows /\ created' \in Seq(Windows)
      BY <1>10, <2>1, HeadTailHave DEF Adopt
    <2>3. /\ type' = [type EXCEPT ![w] = GatedType(w)]
          /\ owner' = [owner EXCEPT ![w] = OwnerOf(w)]
          /\ slot' \in {slot, w}
          /\ \/ AttemptClose(w)
             \/ shown' = shown \union {w} /\ UNCHANGED <<deciding, closed>>
          /\ UNCHANGED <<phase, batches, sets, objects, keys, stack, suppress, subs, made>>
      <3>1. CASE Rejected(w)
        BY <1>10, <3>1 DEF Adopt
      <3>2. CASE ~Rejected(w)
        BY <1>10, <3>2 DEF Adopt
      <3> QED
        BY <3>1, <3>2
    <2>4. type' \in [Windows -> Types]
      BY <2>2, <2>3 DEF TypeOK, GatedType, Types
    <2>5. owner' \in [Windows -> Windows \union {Nobody}]
      <3>1. OwnerOf(w) \in Windows \union {Nobody}
        BY DEF OwnerOf
      <3> QED
        BY <2>2, <2>3, <3>1 DEF TypeOK
    <2>6. shown' \subseteq Windows /\ closed' \subseteq Windows /\ deciding' \subseteq Windows
      BY <2>2, <2>3, AttemptTypes DEF TypeOK
    <2>7. Waiting' \subseteq Windows
      BY <2>2 DEF Waiting
    <2>8. slot' \in Windows \union {Nobody}
      BY <2>2, <2>3 DEF TypeOK
    <2> QED
      BY <2>3, <2>4, <2>5, <2>6, <2>7, <2>8 DEF TypeOK
  <1> QED
    BY <1>1, <1>2, <1>3, <1>4, <1>5, <1>6, <1>7, <1>8, <1>9, <1>10, <1>11 DEF Next

\* Type correctness of the session, and that no new is nested more than once.
THEOREM TypeCorrect == Spec => []TypeOK
  <1>1. Init => TypeOK
    BY SessionAssumption DEF Init, TypeOK, Waiting, Types
  <1>2. IInv /\ TypeOK /\ [Next]_vars => TypeOK'
    BY TypeOKStep
  <1> QED
    BY <1>1, <1>2, IInvAlways, PTL DEF Spec

=============================================================================
