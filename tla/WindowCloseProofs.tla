-------------------------- MODULE WindowCloseProofs --------------------------
(***************************************************************************)
(* Proofs about WindowClose, for any windows, applications, questions and  *)
(* deadlines.                                                              *)
(*                                                                         *)
(* The state that makes them hard is the call stack.  Three facts about a  *)
(* step are all they need of it, and the first half derives these once:    *)
(* what is on top, which calls are in the stack, and which call waits for  *)
(* which (In, Links).  A step within a call Replaces the one on top, or    *)
(* has Returned; one that takes up work has Begun.  A lemma for each       *)
(* action (<Action>Does) says what it puts there; the ...Brings lemmas say *)
(* the same without the links, for the proofs that follow no wait.         *)
(*                                                                         *)
(* The second half has a section for each property: its inductive          *)
(* invariant (Permitted, Leaves, Refusing, Undecided, Pending,             *)
(* EveryoneAsked, HeardFirst, AboutSomething, Swept), that every step      *)
(* keeps it, and the theorem.  The invariants say what the thread still    *)
(* has to do about a state that looks wrong halfway through a call.        *)
(***************************************************************************)
EXTENDS WindowClose, SequenceTheorems, TLAPS

DP == INSTANCE DecisionsProofs WITH Conns <- Apps, NoConn <- Nobody

USE DEF questions, windows, quits, dialogs, thread, vars

-----------------------------------------------------------------------------
\* What is in a call stack.
In(s) == {s[i] : i \in DOMAIN s}

\* Everything but the call on top.
Below == IF stack = <<>> THEN {} ELSE In(Tail(stack))

\* An empty stack has no calls.
LEMMA InEmpty == In(<<>>) = {}
  BY EmptySeq DEF In

\* A stack of one call.
LEMMA InOne == ASSUME NEW x PROVE In(<<x>>) = {x}
  BY SMT DEF In

\* A stack of two.
LEMMA InTwo == ASSUME NEW x, NEW y PROVE In(<<x, y>>) = {x, y} /\ In(Tail(<<x, y>>)) = {y}
  BY SMT DEF In

\* What is in two stacks put together.
LEMMA InConcat ==
  ASSUME NEW S, NEW s \in Seq(S), NEW t \in Seq(S)
  PROVE  s \o t \in Seq(S) /\ In(s \o t) = In(s) \union In(t)
  <1> DEFINE c == s \o t
  <1>1. /\ c \in Seq(S) /\ Len(s) \in Nat /\ Len(t) \in Nat
        /\ DOMAIN s = 1..Len(s) /\ DOMAIN t = 1..Len(t) /\ DOMAIN c = 1..(Len(s) + Len(t))
        /\ \A i \in 1..(Len(s) + Len(t)) : c[i] = IF i <= Len(s) THEN s[i] ELSE t[i - Len(s)]
    BY ConcatProperties, LenProperties
  <1> HIDE DEF c
  <1>2. \A i \in DOMAIN s : i \in DOMAIN c /\ c[i] = s[i]
    BY <1>1
  <1>3. \A i \in DOMAIN t : Len(s) + i \in DOMAIN c /\ c[Len(s) + i] = t[i]
    BY <1>1
  <1>4. \A i \in DOMAIN c : (i \in DOMAIN s /\ c[i] = s[i])
                            \/ (i - Len(s) \in DOMAIN t /\ c[i] = t[i - Len(s)])
    BY <1>1
  <1>5. In(c) = In(s) \union In(t)
    BY <1>2, <1>3, <1>4 DEF In
  <1>6. QED
    BY <1>1, <1>5 DEF c

\* Short stacks put together.
LEMMA ConcatOnes ==
  ASSUME NEW x, NEW y
  PROVE  <<x>> \o <<y>> = <<x, y>> /\ <<>> \o <<y>> = <<y>> /\ <<x>> \o <<>> = <<x>>
  <1> DEFINE S == {x, y}
  <1>1. /\ <<x>> \in Seq(S) /\ <<y>> \in Seq(S) /\ <<x, y>> \in Seq(S)
        /\ Len(<<x>>) = 1 /\ Len(<<y>>) = 1 /\ Len(<<x, y>>) = 2
    OBVIOUS
  <1>2. <<>> \o <<y>> = <<y>> /\ <<x>> \o <<>> = <<x>>
    BY <1>1, ConcatEmptySeq
  <1>3. /\ <<x>> \o <<y>> \in Seq(S) /\ Len(<<x>> \o <<y>>) = 2
        /\ (<<x>> \o <<y>>)[1] = x /\ (<<x>> \o <<y>>)[2] = y
    BY <1>1, ConcatProperties
  <1>4. <<x>> \o <<y>> = <<x, y>>
    <2> DEFINE c == <<x>> \o <<y>>
               d == <<x, y>>
    <2>1. /\ c \in Seq(S) /\ Len(c) = 2 /\ c[1] = x /\ c[2] = y
          /\ d \in Seq(S) /\ Len(d) = 2 /\ d[1] = x /\ d[2] = y
      BY <1>1, <1>3
    <2> HIDE DEF S, c, d
    <2>2. \A i \in 1..Len(c) : c[i] = d[i]
      BY <2>1
    <2>3. c = d
      BY <2>1, <2>2, SeqEqual
    <2>4. QED
      BY <2>3 DEF c, d
  <1>5. QED
    BY <1>2, <1>4

\* A stack is the call on top and what is below it.
LEMMA InHeadTail ==
  ASSUME NEW S, NEW s \in Seq(S), s # <<>>
  PROVE  /\ Head(s) \in S /\ Tail(s) \in Seq(S)
         /\ In(s) = {Head(s)} \union In(Tail(s))
  <1> DEFINE t == Tail(s)
  <1>1. /\ t \in Seq(S) /\ Head(s) \in S /\ Len(s) \in Nat /\ Len(s) > 0
        /\ DOMAIN s = 1..Len(s) /\ DOMAIN t = 1..(Len(s) - 1)
        /\ \A i \in 1..(Len(s) - 1) : t[i] = s[i + 1]
        /\ Head(s) = s[1]
    BY HeadTailProperties, LenProperties, EmptySeq
  <1> HIDE DEF t
  <1>2. \A i \in DOMAIN t : i + 1 \in DOMAIN s /\ t[i] = s[i + 1]
    BY <1>1
  <1>3. \A i \in DOMAIN s : i = 1 \/ (i - 1 \in DOMAIN t /\ t[i - 1] = s[i])
    BY <1>1
  <1>4. In(s) = {Head(s)} \union In(t)
    BY <1>1, <1>2, <1>3 DEF In
  <1>5. QED
    BY <1>1, <1>4 DEF t

\* The calls that wait for the one above them, each with that one.
Waiting == {"children", "closing", "sweep", "sweepApp", "teardown"}

Links(s) == {<<s[i], s[i + 1]>> : i \in {j \in 1..(Len(s) - 1) : s[j + 1].op \in Waiting}}

\* Who waits for whom in two stacks put together.
LEMMA LinksConcat ==
  ASSUME NEW S, NEW s \in Seq(S), s # <<>>, NEW t \in Seq(S), NEW p \in Links(s \o t)
  PROVE  \/ p \in Links(s)
         \/ p \in Links(t)
         \/ t # <<>> /\ Head(t).op \in Waiting /\ p = <<s[Len(s)], Head(t)>>
  <1> DEFINE c == s \o t
  <1>1. /\ Len(s) \in Nat /\ Len(t) \in Nat /\ Len(s) > 0
        /\ Len(c) = Len(s) + Len(t)
        /\ \A i \in 1..(Len(s) + Len(t)) : c[i] = IF i <= Len(s) THEN s[i] ELSE t[i - Len(s)]
        /\ t # <<>> => Head(t) = t[1]
        /\ t = <<>> => Len(t) = 0
    BY ConcatProperties, LenProperties, EmptySeq, HeadTailProperties
  <1> HIDE DEF c
  <1>2. PICK i \in 1..(Len(c) - 1) : c[i + 1].op \in Waiting /\ p = <<c[i], c[i + 1]>>
    BY DEF Links, c
  <1>3. CASE i + 1 <= Len(s)
    <2>1. i \in 1..(Len(s) - 1) /\ c[i] = s[i] /\ c[i + 1] = s[i + 1]
      BY <1>1, <1>2, <1>3
    <2>2. QED
      BY <1>2, <2>1 DEF Links
  <1>4. CASE i = Len(s)
    <2>1. c[i] = s[Len(s)] /\ c[i + 1] = t[1] /\ t # <<>>
      BY <1>1, <1>2, <1>4
    <2>2. QED
      BY <1>1, <1>2, <2>1
  <1>5. CASE i > Len(s)
    <2> DEFINE j == i - Len(s)
    <2>1. /\ j \in 1..(Len(t) - 1) /\ j + 1 = (i + 1) - Len(s)
          /\ c[i] = t[j] /\ c[i + 1] = t[j + 1]
      BY <1>1, <1>2, <1>5
    <2> HIDE DEF j
    <2>2. QED
      BY <1>2, <2>1 DEF Links
  <1>6. QED
    BY <1>1, <1>2, <1>3, <1>4, <1>5

\* Who still waits when the call on top is gone, and who waited for it.
LEMMA LinksTail ==
  ASSUME NEW S, NEW s \in Seq(S), s # <<>>
  PROVE  /\ Links(Tail(s)) \subseteq Links(s)
         /\ Tail(s) # <<>> /\ Head(Tail(s)).op \in Waiting => <<Head(s), Head(Tail(s))>> \in Links(s)
  <1> DEFINE t == Tail(s)
  <1>1. /\ t \in Seq(S) /\ Len(s) \in Nat /\ Len(t) = Len(s) - 1 /\ Head(s) = s[1]
        /\ Len(t) \in Nat
        /\ \A i \in 1..Len(t) : t[i] = s[i + 1]
        /\ t # <<>> => Head(t) = t[1] /\ Len(t) > 0
    BY HeadTailProperties, LenProperties, EmptySeq
  <1> HIDE DEF t
  <1>2. ASSUME NEW p \in Links(t) PROVE p \in Links(s)
    <2>1. PICK i \in 1..(Len(t) - 1) : t[i + 1].op \in Waiting /\ p = <<t[i], t[i + 1]>>
      BY <1>2 DEF Links
    <2> DEFINE j == i + 1
    <2>2. j \in 1..(Len(s) - 1) /\ t[i] = s[j] /\ t[i + 1] = s[j + 1]
      BY <1>1, <2>1
    <2> HIDE DEF j
    <2>3. QED
      BY <2>1, <2>2 DEF Links
  <1>3. ASSUME t # <<>>, Head(t).op \in Waiting PROVE <<Head(s), Head(t)>> \in Links(s)
    <2>1. 1 \in 1..(Len(s) - 1) /\ Head(t) = s[1 + 1]
      BY <1>1, <1>3
    <2>2. QED
      BY <1>1, <1>3, <2>1 DEF Links
  <1>4. QED
    BY <1>2, <1>3 DEF t

\* A single call waits for nobody.
LEMMA LinksOne == ASSUME NEW x PROVE Links(<<x>>) = {}
  BY SMT DEF Links

\* Of two calls, at most the lower waits.
LEMMA LinksTwo == ASSUME NEW x, NEW y PROVE Links(<<x, y>>) \subseteq {<<x, y>>}
  BY SMT DEF Links

\* No link where no call waits.
LEMMA LinksNone ==
  ASSUME NEW S, NEW s \in Seq(S), \A x \in In(s) : x.op \notin Waiting
  PROVE  Links(s) = {}
  <1>1. Len(s) \in Nat /\ DOMAIN s = 1..Len(s)
    BY LenProperties
  <1>2. \A i \in 1..(Len(s) - 1) : s[i + 1] \in In(s)
    BY <1>1 DEF In
  <1>3. QED
    BY <1>2 DEF Links

\* The lower call of a link is of the stack, and waits.
LEMMA LinksIn ==
  ASSUME NEW S, NEW s \in Seq(S), NEW q \in Links(s)
  PROVE  q[2] \in In(s) /\ q[2].op \in Waiting
  BY LenProperties DEF Links, In

-----------------------------------------------------------------------------
\* How a call goes on.

CallOf(ops, whos) == [op : ops, who : whos, at : Windows \union {Nobody}, todo : SUBSET Windows]

WindowOps == {"close", "children", "closed", "forget", "allow", "closing", "refuse",
              "unanswered", "decidedClosed", "decidedOpen", "resume", "abandon"}
AppOps == {"quitApp", "sweepApp", "undecided", "teardown"}

\* A call is about a window, about an application, or about the whole desktop.
Calls == CallOf(WindowOps, Windows) \union CallOf(AppOps, Apps)
         \union CallOf({"quit", "sweep"}, {Nobody})

Stacked == stack \in Seq(Calls)

\* The frames the actions build are calls.
LEMMA CallIs ==
  ASSUME NEW at \in Windows \union {Nobody}, NEW todo \in SUBSET Windows
  PROVE  /\ \A op \in WindowOps, w \in Windows :
              Frame(op, w) \in Calls /\ SweepFrame(op, w, at, todo) \in Calls
         /\ \A op \in AppOps, a \in Apps :
              Frame(op, a) \in Calls /\ SweepFrame(op, a, at, todo) \in Calls
         /\ \A op \in {"quit", "sweep"} :
              Frame(op, Nobody) \in Calls /\ SweepFrame(op, Nobody, at, todo) \in Calls
  BY DEF Calls, CallOf, Frame, SweepFrame

\* What a call is about, by its operation.
LEMMA WhoIs ==
  ASSUME NEW f \in Calls
  PROVE  /\ f.op \in WindowOps => f.who \in Windows
         /\ f.op \in AppOps => f.who \in Apps
         /\ f.todo \subseteq Windows /\ f.at \in Windows \union {Nobody}
         /\ f \in FrameType
  BY DEF Calls, CallOf, WindowOps, AppOps, FrameType, Ops

\* The call on top of a stack, and the rest.
LEMMA TopIs ==
  ASSUME Stacked, stack # <<>>
  PROVE  Top \in Calls /\ Tail(stack) \in Seq(Calls) /\ In(stack) = {Top} \union Below
  BY InHeadTail DEF Stacked, Top, Below

\* In a step, what is newly waited for is in P, or is what L put in the place of
\* the call on top.
Linking(P, L) ==
  \A p \in Links(stack') :
    p \in Links(stack) \/ p \in P \/ (p[1] \in L /\ <<Top, p[2]>> \in Links(stack))

\* Calls put on top bring their own links, and the last of them inherits.
LEMMA GoesLinked ==
  ASSUME Stacked, stack # <<>>, NEW fs \in Seq(Calls), fs # <<>>, stack' = fs \o Tail(stack)
  PROVE  Linking(Links(fs), {fs[Len(fs)]})
  <1> DEFINE t == Tail(stack)
  <1>1. t \in Seq(Calls)
    BY TopIs
  <1>2. /\ Links(t) \subseteq Links(stack)
        /\ t # <<>> /\ Head(t).op \in Waiting => <<Top, Head(t)>> \in Links(stack)
    BY LinksTail DEF Stacked, Top
  <1> HIDE DEF t
  <1>3. \A p \in Links(fs \o t) :
          \/ p \in Links(fs)
          \/ p \in Links(t)
          \/ t # <<>> /\ Head(t).op \in Waiting /\ p = <<fs[Len(fs)], Head(t)>>
    BY <1>1, LinksConcat
  <1>4. SUFFICES ASSUME NEW p \in Links(stack')
               PROVE  \/ p \in Links(stack) \/ p \in Links(fs)
                      \/ (p[1] \in {fs[Len(fs)]} /\ <<Top, p[2]>> \in Links(stack))
    BY DEF Linking
  <1>5. p \in Links(fs \o t)
    BY <1>4 DEF t
  <1>6. CASE t # <<>> /\ Head(t).op \in Waiting /\ p = <<fs[Len(fs)], Head(t)>>
    <2>1. p[1] = fs[Len(fs)] /\ p[2] = Head(t)
      BY <1>6
    <2>2. QED
      BY <1>2, <1>6, <2>1
  <1>7. QED
    BY <1>2, <1>3, <1>5, <1>6

\* The call on top is replaced by others ...
LEMMA Goes ==
  ASSUME Stacked, stack # <<>>, NEW fs \in Seq(Calls), fs # <<>>, Continue(fs)
  PROVE  /\ Stacked' /\ stack' # <<>>
         /\ Top' = Head(fs) /\ stack' = fs \o Tail(stack)
         /\ In(stack) = {Top} \union Below /\ In(stack') = In(fs) \union Below
         /\ Below' = In(Tail(fs)) \union Below
         /\ ret' = "none" /\ cause' = cause
         /\ Linking(Links(fs), {fs[Len(fs)]})
  <1> DEFINE t == Tail(stack)
             c == fs \o t
  <1>1. t \in Seq(Calls) /\ In(stack) = {Top} \union Below
    BY TopIs
  <1>2. c \in Seq(Calls) /\ In(c) = In(fs) \union Below
    BY <1>1, InConcat DEF Below
  <1>3. c # <<>> /\ Head(c) = Head(fs) /\ Tail(c) = Tail(fs) \o t
    BY <1>1
  <1>4. Tail(fs) \in Seq(Calls)
    BY InHeadTail
  <1>5. In(Tail(fs) \o t) = In(Tail(fs)) \union In(t)
    <2> DEFINE u == Tail(fs)
    <2>1. u \in Seq(Calls) /\ t \in Seq(Calls)
      BY <1>1, <1>4
    <2> HIDE DEF u, t
    <2>2. In(u \o t) = In(u) \union In(t)
      BY <2>1, InConcat
    <2>3. QED
      BY <2>2 DEF u
  <1>6. stack' = c /\ ret' = "none" /\ cause' = cause
    BY <1>3 DEF Continue, Resume
  <1>7. Linking(Links(fs), {fs[Len(fs)]})
    BY <1>6, GoesLinked
  <1>8. QED
    BY <1>1, <1>2, <1>3, <1>5, <1>6, <1>7 DEF Stacked, Top, Below

\* One call in its place.
LEMMA GoesOne ==
  ASSUME Stacked, stack # <<>>, NEW f \in Calls, Continue(<<f>>)
  PROVE  /\ Stacked' /\ stack' # <<>> /\ Top' = f /\ stack' = <<f>> \o Tail(stack)
         /\ In(stack) = {Top} \union Below /\ In(stack') = {f} \union Below
         /\ Below' = Below
         /\ ret' = "none" /\ cause' = cause
         /\ Linking({}, {f})
  <1>1. /\ <<f>> \in Seq(Calls) /\ <<f>> # <<>> /\ Head(<<f>>) = f
        /\ Tail(<<f>>) = <<>> /\ <<f>>[Len(<<f>>)] = f
    OBVIOUS
  <1>2. In(<<f>>) = {f} /\ In(Tail(<<f>>)) = {} /\ Links(<<f>>) = {}
    BY <1>1, InOne, InEmpty, LinksOne
  <1>3. QED
    BY <1>1, <1>2, Goes

\* Two calls in its place.
LEMMA GoesTwo ==
  ASSUME Stacked, stack # <<>>, NEW f \in Calls, NEW g \in Calls,
         Continue(<<f, g>>)
  PROVE  /\ Stacked' /\ stack' # <<>> /\ Top' = f /\ stack' = <<f, g>> \o Tail(stack)
         /\ In(stack) = {Top} \union Below /\ In(stack') = {f, g} \union Below
         /\ Below' = {g} \union Below
         /\ ret' = "none" /\ cause' = cause
         /\ Linking({<<f, g>>}, {g})
  <1>1. /\ <<f, g>> \in Seq(Calls) /\ <<f, g>> # <<>> /\ Head(<<f, g>>) = f
        /\ <<f, g>>[Len(<<f, g>>)] = g
    OBVIOUS
  <1>2. /\ In(<<f, g>>) = {f, g} /\ In(Tail(<<f, g>>)) = {g}
        /\ Links(<<f, g>>) \subseteq {<<f, g>>}
    BY InTwo, LinksTwo
  <1>3. Linking(Links(<<f, g>>), {g}) => Linking({<<f, g>>}, {g})
    BY <1>2 DEF Linking
  <1>4. QED
    BY <1>1, <1>2, <1>3, Goes

\* ... or is over, and the one below it goes on.
LEMMA Returns ==
  ASSUME Stacked, stack # <<>>, NEW v, Resume(Tail(stack), v)
  PROVE  /\ Stacked' /\ stack' = Tail(stack)
         /\ In(stack) = {Top} \union Below /\ In(stack') = Below
         /\ Below' \subseteq Below
         /\ stack' # <<>> => ret' = v /\ cause' = cause
         /\ stack' = <<>> => ret' = "none" /\ cause' = NoCause
         /\ Links(stack') \subseteq Links(stack)
         /\ stack' # <<>> /\ Top'.op \in Waiting => <<Top, Top'>> \in Links(stack)
  <1>1. Tail(stack) \in Seq(Calls) /\ In(stack) = {Top} \union Below
    BY TopIs
  <1>2. /\ Links(Tail(stack)) \subseteq Links(stack)
        /\ Tail(stack) # <<>> /\ Head(Tail(stack)).op \in Waiting
             => <<Top, Head(Tail(stack))>> \in Links(stack)
    BY LinksTail DEF Stacked, Top
  <1>3. /\ Links(stack') \subseteq Links(stack)
        /\ stack' # <<>> /\ Top'.op \in Waiting => <<Top, Top'>> \in Links(stack)
    BY <1>2 DEF Resume, Top
  <1>4. /\ stack' = Tail(stack)
        /\ stack' # <<>> => ret' = v /\ cause' = cause
        /\ stack' = <<>> => ret' = "none" /\ cause' = NoCause
    BY DEF Resume
  <1>5. Stacked' /\ In(stack') = Below
    BY <1>1, <1>4 DEF Stacked, Below
  <1>6. CASE stack' # <<>>
    <2>1. In(stack') = {Head(stack')} \union In(Tail(stack'))
      BY <1>5, <1>6, InHeadTail DEF Stacked
    <2>2. QED
      BY <1>1, <1>4, <1>5, <1>3, <2>1 DEF Below
  <1>7. CASE stack' = <<>>
    <2>1. Below' = {}
      BY <1>7 DEF Below
    <2>2. QED
      BY <1>1, <1>4, <1>5, <1>3, <2>1
  <1>8. QED
    BY <1>6, <1>7

\* None: it is over, with nothing to say.
LEMMA GoesNone ==
  ASSUME Stacked, stack # <<>>, Continue(<<>>)
  PROVE  Resume(Tail(stack), "none")
  <1>1. <<>> \o Tail(stack) = Tail(stack)
    BY TopIs
  <1>2. QED
    BY <1>1 DEF Continue

-----------------------------------------------------------------------------
\* What the thread does, a lemma for each of its calls.

Asked == \A d \in open : about[d] \in Windows
Resting == stack = <<>> => ret = "none" /\ cause = NoCause

Typed == TypeOK /\ DP!IInv /\ Asked /\ Stacked /\ Resting

Replaces(f, F, B) ==
  /\ Stacked' /\ stack' # <<>> /\ Top' = f /\ f \in F
  /\ In(stack) = {Top} \union Below /\ In(stack') = F \union Below
  /\ Below' \subseteq B \union Below
  /\ ret' = "none" /\ cause' = cause
  /\ Linking({f} \X B, IF B = {} THEN F ELSE B)

Returned(v) ==
  /\ Stacked' /\ stack' = Tail(stack)
  /\ In(stack) = {Top} \union Below /\ In(stack') = Below
  /\ Below' \subseteq Below
  /\ stack' # <<>> => ret' = v /\ cause' = cause
  /\ stack' = <<>> => ret' = "none" /\ cause' = NoCause
  /\ Links(stack') \subseteq Links(stack)
  /\ stack' # <<>> /\ Top'.op \in Waiting => <<Top, Top'>> \in Links(stack)

\* One call in its place.
LEMMA ReplacesOne ==
  ASSUME Stacked, stack # <<>>, NEW f \in Calls, Continue(<<f>>)
  PROVE  Replaces(f, {f}, {})
  BY GoesOne DEF Replaces, Linking

\* Two calls in its place: the one below waits.
LEMMA ReplacesTwo ==
  ASSUME Stacked, stack # <<>>, NEW f \in Calls, NEW g \in Calls, Continue(<<f, g>>)
  PROVE  Replaces(f, {f, g}, {g})
  BY GoesTwo DEF Replaces, Linking

\* Over, with nothing to say.
LEMMA ReturnsNone ==
  ASSUME Stacked, stack # <<>>, Continue(<<>>)
  PROVE  Returned("none")
  BY GoesNone, Returns DEF Returned

\* Over, with an answer.
LEMMA ReturnsWith ==
  ASSUME Stacked, stack # <<>>, NEW v, Return(v)
  PROVE  Returned(v)
  BY Returns DEF Returned, Return

USE DEF Running

\* window.go attemptClose: a window that has closed says yes at once.
LEMMA CloseAgainDoes ==
  ASSUME Typed, CloseAgain
  PROVE  Returned("yes") /\ Top.who \in closed
  BY ReturnsWith DEF Typed, CloseAgain

\* window.go attemptClose: with leave, or nobody to ask, its child windows go first.
LEMMA CloseOpens ==
  ASSUME Typed, NEW w \in Windows, ClosePermitted(w) \/ CloseUnasked(w)
  PROVE  LET f == SweepFrame("children", w, Nobody, Children(w))
         IN  Replaces(f, {f}, {})
  <1>1. SweepFrame("children", w, Nobody, Children(w)) \in Calls
    BY CallIs DEF Children, WindowOps
  <1>2. QED
    BY <1>1, ReplacesOne DEF Typed, ClosePermitted, CloseUnasked, Attempting

\* window.go attemptClose: one that must be asked about says no for now.
LEMMA CloseAnswersNo ==
  ASSUME Typed, NEW w \in Windows, CloseAsks(w) \/ CloseRefused(w)
  PROVE  Returned("no")
  BY ReturnsWith DEF Typed, CloseAsks, CloseRefused, Consulting, Attempting

\* window.go attemptClose: the children are closed one at a time; the first no ends it.
LEMMA CloseChildrenDoes ==
  ASSUME Typed, CloseChildren
  PROVE  /\ Top.op = "children" /\ Top.who \in Windows /\ Top.todo \subseteq Windows
         /\ \/ ret = "no" /\ Returned("no")
            \/ LET f == Frame("closed", Top.who)
               IN  ret # "no" /\ Top.todo = {} /\ Replaces(f, {f}, {})
            \/ \E c \in Top.todo :
                 LET f == Frame("close", c)
                     g == SweepFrame("children", Top.who, Nobody, Top.todo \ {c})
                 IN  ret # "no" /\ Replaces(f, {f, g}, {g})
  <1>1. Stacked /\ stack # <<>> /\ Top \in Calls /\ Top.op = "children"
    BY TopIs DEF Typed, CloseChildren
  <1>2. Top.who \in Windows /\ Top.todo \subseteq Windows
    BY <1>1, WhoIs DEF WindowOps
  <1>3. CASE ret = "no" /\ Return("no")
    BY <1>1, <1>2, <1>3, ReturnsWith
  <1>4. CASE ret # "no" /\ Top.todo = {} /\ Continue(<<Frame("closed", Top.who)>>)
    <2>1. Frame("closed", Top.who) \in Calls
      BY <1>2, CallIs DEF WindowOps
    <2>2. QED
      BY <1>1, <1>2, <1>4, <2>1, ReplacesOne
  <1>5. ASSUME ret # "no", NEW c \in Top.todo,
               Continue(<<Frame("close", c),
                          SweepFrame("children", Top.who, Nobody, Top.todo \ {c})>>)
        PROVE  LET f == Frame("close", c)
                   g == SweepFrame("children", Top.who, Nobody, Top.todo \ {c})
               IN  ret # "no" /\ Replaces(f, {f, g}, {g})
    <2>1. Frame("close", c) \in Calls
      BY <1>2, CallIs DEF WindowOps
    <2>2. SweepFrame("children", Top.who, Nobody, Top.todo \ {c}) \in Calls
      BY <1>2, CallIs DEF WindowOps
    <2>3. QED
      BY <1>1, <1>5, <2>1, <2>2, ReplacesTwo
  <1>6. QED
    BY <1>1, <1>2, <1>3, <1>4, <1>5 DEF CloseChildren

\* window.go attemptClose: the window closes; that it was decided is reported first.
LEMMA CloseHappensDoes ==
  ASSUME Typed, CloseHappens
  PROVE  LET w == Top.who
             f == Frame("decidedClosed", w)
             g == Frame("forget", w)
         IN  /\ w \in Windows
             /\ w \in deciding => Replaces(f, {f, g}, {g})
             /\ w \notin deciding => Replaces(g, {g}, {})
  <1> DEFINE w == Top.who
             f == Frame("decidedClosed", w)
             g == Frame("forget", w)
  <1>1. Stacked /\ stack # <<>> /\ w \in Windows
    BY TopIs, WhoIs DEF Typed, CloseHappens, WindowOps
  <1>2. f \in Calls /\ g \in Calls
    BY <1>1, CallIs DEF WindowOps
  <1>3. Continue((IF w \in deciding THEN <<f>> ELSE <<>>) \o <<g>>)
    BY DEF CloseHappens
  <1> HIDE DEF f, g
  <1>4. <<f>> \o <<g>> = <<f, g>> /\ <<>> \o <<g>> = <<g>>
    BY ConcatOnes
  <1>5. w \in deciding => Continue(<<f, g>>)
    BY <1>3, <1>4
  <1>6. w \notin deciding => Continue(<<g>>)
    BY <1>3, <1>4
  <1>7. QED
    BY <1>1, <1>2, <1>5, <1>6, ReplacesOne, ReplacesTwo DEF f, g

\* application.go forgetWindow: its application forgets it, and the close says yes.
LEMMA ForgetWindowDoes ==
  ASSUME Typed, ForgetWindow
  PROVE  Returned("yes") /\ Top.who \in Windows
  BY ReturnsWith, TopIs, WhoIs DEF Typed, ForgetWindow, WindowOps

\* window_protocol.go settle: leave is given, and the close goes ahead with it.
LEMMA SettleAllowedDoes ==
  ASSUME Typed, SettleAllowed
  PROVE  LET w == Top.who
             f == Frame("close", w)
             g == Frame("closing", w)
         IN  w \in Windows /\ Replaces(f, {f, g}, {g})
  <1>1. Stacked /\ stack # <<>> /\ Top.who \in Windows
    BY TopIs, WhoIs DEF Typed, SettleAllowed, WindowOps
  <1>2. Frame("close", Top.who) \in Calls /\ Frame("closing", Top.who) \in Calls
    BY <1>1, CallIs DEF WindowOps
  <1>3. QED
    BY <1>1, <1>2, ReplacesTwo DEF SettleAllowed

\* window_protocol.go settle: how the close went is reported.
LEMMA SettleReportsDoes ==
  ASSUME Typed, SettleReports
  PROVE  \E op \in {"decidedClosed", "decidedOpen"} :
           LET f == Frame(op, Top.who) IN Top.who \in Windows /\ Replaces(f, {f}, {})
  <1>1. Stacked /\ stack # <<>> /\ Top.who \in Windows
    BY TopIs, WhoIs DEF Typed, SettleReports, WindowOps
  <1>2. \A op \in {"decidedClosed", "decidedOpen"} : Frame(op, Top.who) \in Calls
    BY <1>1, CallIs DEF WindowOps
  <1>3. PICK op \in {"decidedClosed", "decidedOpen"} : Continue(<<Frame(op, Top.who)>>)
    BY DEF SettleReports
  <1>4. QED
    BY <1>1, <1>2, <1>3, ReplacesOne

\* window_protocol.go settle: a refusal is reported.
LEMMA SettleRefusedDoes ==
  ASSUME Typed, SettleRefused
  PROVE  LET f == Frame("decidedOpen", Top.who)
         IN  Top.who \in Windows /\ Replaces(f, {f}, {})
  <1>1. Stacked /\ stack # <<>> /\ Top.who \in Windows
    BY TopIs, WhoIs DEF Typed, SettleRefused, WindowOps
  <1>2. Frame("decidedOpen", Top.who) \in Calls
    BY <1>1, CallIs DEF WindowOps
  <1>3. QED
    BY <1>1, <1>2, ReplacesOne DEF SettleRefused

\* desktop.go AskForceClose: with no answer the person is asked, or, the application gone,
\* it is a no.
LEMMA UnansweredDoes ==
  ASSUME Typed, Unanswered
  PROVE  LET f == Frame("refuse", Top.who)
         IN  /\ Top.who \in Windows
             /\ \/ Owner[Top.who] \in gone /\ UNCHANGED dialogs /\ Replaces(f, {f}, {})
                \/ Owner[Top.who] \notin gone /\ Returned("none")
  <1>1. Stacked /\ stack # <<>> /\ Top.who \in Windows
    BY TopIs, WhoIs DEF Typed, Unanswered, WindowOps
  <1>2. Frame("refuse", Top.who) \in Calls
    BY <1>1, CallIs DEF WindowOps
  <1>3. QED
    BY <1>1, <1>2, ReplacesOne, ReturnsNone DEF Unanswered

\* Those who wait on a dialog are told one after the other.
LEMMA TellThemIs ==
  ASSUME Typed, NEW w \in Windows, NEW op \in WindowOps
  PROVE  /\ TellThem(w, op) \in Seq(Calls)
         /\ waiters[w] > 0 => In(TellThem(w, op)) = {Frame(op, w)} /\ TellThem(w, op) # <<>>
         /\ waiters[w] = 0 => TellThem(w, op) = <<>>
  <1>1. waiters[w] \in Nat
    BY DEF Typed, TypeOK
  <1>2. Frame(op, w) \in Calls
    BY CallIs
  <1> DEFINE n == waiters[w]
             x == Frame(op, w)
             t == [i \in 1..n |-> x]
  <1> HIDE DEF n, x
  <1>3. t \in Seq(Calls) /\ DOMAIN t = 1..n /\ Len(t) = n /\ n \in Nat
    BY <1>1, <1>2 DEF n, x
  <1>4. n > 0 => In(t) = {x} /\ t # <<>>
    <2>1. SUFFICES ASSUME n > 0 PROVE In(t) = {x} /\ t # <<>>
      OBVIOUS
    <2>2. 1 \in DOMAIN t
      BY <1>3, <2>1
    <2>3. QED
      BY <1>3, <2>1, <2>2 DEF In
  <1>5. n = 0 => t = <<>>
    BY <1>3, EmptySeq
  <1>6. QED
    BY <1>3, <1>4, <1>5 DEF TellThem, n, x

\* desktop.go dismissForceClose: the dialog goes, its waiters told, and the quits are seen to.
LEMMA CloseDecidedDoes ==
  ASSUME Typed, NEW next \in {"resume", "abandon"}, NEW op \in WindowOps, CloseDecided(op, next)
  PROVE  LET w == Top.who
             f == Frame("refuse", w)
             g == Frame(next, w)
         IN  /\ w \in Windows
             /\ \E F \in SUBSET {f, g} :
                  /\ g \in F /\ Replaces(Top', F, F)
                  /\ w \in forceClose /\ waiters[w] > 0 => f \in F
  <1> DEFINE w == Top.who
             f == Frame("refuse", w)
             g == Frame(next, w)
             t == IF w \in forceClose THEN TellThem(w, "refuse") ELSE <<>>
             fs == t \o <<g>>
  <1>1. Stacked /\ stack # <<>> /\ w \in Windows
    BY TopIs, WhoIs DEF Typed, CloseDecided
  <1>2. f \in Calls /\ g \in Calls /\ <<g>> \in Seq(Calls)
    BY <1>1, CallIs DEF WindowOps
  <1>3. /\ t \in Seq(Calls) /\ In(t) \subseteq {f}
        /\ w \in forceClose /\ waiters[w] > 0 => f \in In(t)
    <2>1. waiters[w] \in Nat
      BY <1>1 DEF Typed, TypeOK
    <2>2. <<>> \in Seq(Calls) /\ In(<<>>) = {}
      BY InEmpty
    <2>3. QED
      BY <1>1, <2>1, <2>2, TellThemIs DEF WindowOps
  <1>4. Continue(fs)
    BY DEF CloseDecided
  <1> HIDE DEF t, g, f
  <1>5. fs \in Seq(Calls) /\ In(fs) = In(t) \union {g} /\ fs # <<>>
    <2>1. t \o <<g>> \in Seq(Calls) /\ In(t \o <<g>>) = In(t) \union In(<<g>>)
      BY <1>2, <1>3, InConcat
    <2>2. In(<<g>>) = {g}
      BY InOne
    <2>3. In(fs) # {}
      BY <2>1, <2>2
    <2>4. QED
      BY <2>1, <2>2, <2>3, InEmpty
  <1> HIDE DEF fs
  <1>6. Tail(fs) \in Seq(Calls) /\ In(fs) = {Head(fs)} \union In(Tail(fs))
    BY <1>5, InHeadTail
  <1>7. Links(fs) = {} /\ fs[Len(fs)] \in In(fs) /\ In(fs) # {}
    <2>1. \A x \in In(fs) : x.op \notin Waiting
      BY <1>3, <1>5 DEF f, g, Frame, Waiting
    <2>2. Len(fs) \in DOMAIN fs
      BY <1>5, LenProperties, EmptySeq
    <2>3. QED
      BY <1>5, <1>6, <2>1, <2>2, LinksNone DEF In
  <1>8. Replaces(Head(fs), In(fs), In(fs)) /\ Top' = Head(fs)
    BY <1>1, <1>4, <1>5, <1>6, <1>7, Goes DEF Replaces, Linking
  <1>9. In(fs) \subseteq {f, g} /\ g \in In(fs)
    BY <1>3, <1>5
  <1>10. QED
    BY <1>1, <1>3, <1>5, <1>8, <1>9 DEF f, g

\* desktop.go CloseDecided: a close that happened resumes the quits that wait.
LEMMA ResumeQuitsDoes ==
  ASSUME Typed, ResumeQuits
  PROVE  LET w == Top.who
             f == Frame("quitApp", Owner[w])
             g == Frame("quit", Nobody)
         IN  /\ w \in Windows
             /\ \/ ~quitWanted /\ Returned("none")
                \/ \E F \in SUBSET {f, g} :
                     Replaces(Top', F, F) /\ (quitWanted => g \in F)
  <1> DEFINE w == Top.who
             f == Frame("quitApp", Owner[w])
             g == Frame("quit", Nobody)
  <1>1. Stacked /\ stack # <<>> /\ w \in Windows
    BY TopIs, WhoIs DEF Typed, ResumeQuits, WindowOps
  <1>2. f \in Calls /\ g \in Calls
    BY <1>1, CallIs, WindowCloseAssumption DEF WindowOps, AppOps
  <1>3. PICK mine \in BOOLEAN :
          Continue((IF mine THEN <<f>> ELSE <<>>) \o (IF quitWanted THEN <<g>> ELSE <<>>))
    BY DEF ResumeQuits
  <1> HIDE DEF f, g
  <1>4. CASE mine /\ quitWanted
    <2>1. Continue(<<f, g>>)
      BY <1>3, <1>4, ConcatOnes
    <2>2. Replaces(Top', {f, g}, {f, g})
      BY <1>1, <1>2, <2>1, ReplacesTwo DEF Replaces, Linking
    <2>3. QED
      BY <1>1, <2>2 DEF f, g
  <1>5. CASE mine /\ ~quitWanted
    <2>1. Continue(<<f>>)
      BY <1>3, <1>5, ConcatOnes
    <2>2. Replaces(Top', {f}, {f})
      BY <1>1, <1>2, <2>1, ReplacesOne DEF Replaces, Linking
    <2>3. QED
      BY <1>1, <1>5, <2>2 DEF f, g
  <1>6. CASE ~mine /\ quitWanted
    <2>1. Continue(<<g>>)
      BY <1>3, <1>6, ConcatOnes
    <2>2. Replaces(Top', {g}, {g})
      BY <1>1, <1>2, <2>1, ReplacesOne DEF Replaces, Linking
    <2>3. QED
      BY <1>1, <2>2 DEF f, g
  <1>7. CASE ~mine /\ ~quitWanted
    <2>1. <<>> \o <<>> = <<>>
      OBVIOUS
    <2>2. QED
      BY <1>1, <1>3, <1>7, <2>1, ReturnsNone DEF f, g
  <1>8. QED
    BY <1>4, <1>5, <1>6, <1>7

\* desktop.go CloseDecided: a close refused abandons them.
LEMMA AbandonQuitsDoes == ASSUME Typed, AbandonQuits PROVE Returned("none")
  BY ReturnsNone DEF Typed, AbandonQuits

\* desktop.go QuitWithCode, quitApplication: a sweep lists the open windows.
LEMMA SweepBeginsDoes ==
  ASSUME Typed, SweepBegins
  PROVE  \/ LET f == SweepFrame("sweepApp", Top.who, Nobody, AppWindows(Top.who))
            IN  Top.op = "quitApp" /\ Top.who \in Apps /\ Replaces(f, {f}, {})
         \/ LET f == SweepFrame("sweep", Nobody, Nobody, Windows \ closed)
            IN  Top.op = "quit" /\ Replaces(f, {f}, {})
  <1>1. Stacked /\ stack # <<>> /\ Top \in Calls
    BY TopIs DEF Typed, SweepBegins
  <1>2. CASE Top.op = "quitApp" /\ Continue(<<SweepFrame("sweepApp", Top.who, Nobody, AppWindows(Top.who))>>)
    <2>1. Top.who \in Apps /\ AppWindows(Top.who) \subseteq Windows
      BY <1>1, <1>2, WhoIs DEF AppOps, AppWindows, Typed, TypeOK
    <2>2. SweepFrame("sweepApp", Top.who, Nobody, AppWindows(Top.who)) \in Calls
      BY <2>1, CallIs DEF AppOps
    <2>3. QED
      BY <1>1, <1>2, <2>1, <2>2, ReplacesOne
  <1>3. CASE Top.op = "quit" /\ Continue(<<SweepFrame("sweep", Nobody, Nobody, Windows \ closed)>>)
    <2>1. SweepFrame("sweep", Nobody, Nobody, Windows \ closed) \in Calls
      BY CallIs
    <2>2. QED
      BY <1>1, <1>3, <2>1, ReplacesOne
  <1>4. QED
    BY <1>2, <1>3 DEF SweepBegins

\* A sweep closes the windows on its list, one at a time.
LEMMA SweepClosesDoes ==
  ASSUME Typed, NEW op \in {"sweepApp", "sweep"}, SweepCloses(op)
  PROVE  \E w \in Top.todo :
           LET f == Frame("close", w)
               g == SweepFrame(op, Top.who, w, Top.todo \ {w})
           IN  w \in Windows /\ ret # "no" /\ Top.op = op /\ Replaces(f, {f, g}, {g})
  <1>1. Stacked /\ stack # <<>> /\ Top \in Calls /\ Top.op = op
    BY TopIs DEF Typed, SweepCloses
  <1>2. Top.todo \subseteq Windows
    BY <1>1, WhoIs
  <1>3. PICK w \in Top.todo :
          Continue(<<Frame("close", w), SweepFrame(op, Top.who, w, Top.todo \ {w})>>)
    BY DEF SweepCloses
  <1>4. Frame("close", w) \in Calls
    BY <1>2, CallIs DEF WindowOps
  <1>5. SweepFrame(op, Top.who, w, Top.todo \ {w}) \in Calls
    <2>1. CASE op = "sweepApp"
      BY <1>1, <1>2, <2>1, CallIs, WhoIs DEF AppOps
    <2>2. CASE op = "sweep"
      <3>1. Top.who = Nobody
        BY <1>1, <2>2 DEF Calls, CallOf, WindowOps, AppOps
      <3>2. QED
        BY <1>1, <1>2, <2>2, <3>1, CallIs
    <2>3. QED
      BY <2>1, <2>2
  <1>6. QED
    BY <1>1, <1>2, <1>3, <1>4, <1>5, ReplacesTwo DEF SweepCloses

\* A sweep that stops, or is done, says nothing to the call below it.
LEMMA QuitsReturn ==
  ASSUME Typed, QuitAppStops \/ QuitStops \/ QuitAppDone \/ QuitDone
  PROVE  Returned("none")
  BY ReturnsNone DEF Typed, QuitAppStops, QuitStops, QuitAppDone, QuitDone

\* display.go teardown: of a connection gone, its questions are settled, then its windows listed.
LEMMA TeardownSettlesDoes ==
  ASSUME Typed, TeardownSettles
  PROVE  \/ /\ Replaces(Top, {Top}, {})
            /\ \E d \in open : D!SettleHeld(d) /\ about[d] \notin deciding
         \/ \E d \in open :
              LET f == Frame("unanswered", about[d])
              IN  /\ D!SettleHeld(d) /\ about[d] \in deciding
                  /\ Replaces(f, {f, Top}, {Top})
         \/ LET f == SweepFrame("teardown", Top.who, Nobody, AppWindows(Top.who))
            IN  UNCHANGED questions /\ Replaces(f, {f}, {})
  <1>1. Stacked /\ stack # <<>> /\ Top \in Calls
    BY TopIs DEF Typed, TeardownSettles
  <1>2. Top.op = "undecided" /\ Top.who \in Apps
    BY <1>1, WhoIs DEF TeardownSettles, AppOps
  <1>3. ASSUME NEW d \in open, D!SettleHeld(d), Continue(Callback(d, "unsaid") \o <<Top>>),
               about[d] \notin deciding
        PROVE  Replaces(Top, {Top}, {})
    <2>1. Callback(d, "unsaid") = <<>>
      BY <1>3 DEF Callback
    <2>2. QED
      BY <1>1, <1>3, <2>1, ConcatOnes, ReplacesOne
  <1>4. ASSUME NEW d \in open, D!SettleHeld(d), Continue(Callback(d, "unsaid") \o <<Top>>),
               about[d] \in deciding
        PROVE  LET f == Frame("unanswered", about[d]) IN Replaces(f, {f, Top}, {Top})
    <2>1. Callback(d, "unsaid") = <<Frame("unanswered", about[d])>>
      BY <1>4 DEF Callback
    <2>2. Frame("unanswered", about[d]) \in Calls
      BY CallIs DEF Typed, Asked, WindowOps
    <2>3. QED
      BY <1>1, <1>4, <2>1, <2>2, ConcatOnes, ReplacesTwo
  <1>5. ASSUME Continue(<<SweepFrame("teardown", Top.who, Nobody, AppWindows(Top.who))>>)
        PROVE  LET f == SweepFrame("teardown", Top.who, Nobody, AppWindows(Top.who))
               IN  Replaces(f, {f}, {})
    <2>1. AppWindows(Top.who) \subseteq Windows
      BY DEF AppWindows, Typed, TypeOK
    <2>2. SweepFrame("teardown", Top.who, Nobody, AppWindows(Top.who)) \in Calls
      BY <1>2, <2>1, CallIs DEF AppOps
    <2>3. QED
      BY <1>1, <1>5, <2>2, ReplacesOne
  <1>6. QED
    BY <1>3, <1>4, <1>5 DEF TeardownSettles

\* The windows it left are closed, whatever they say.
LEMMA TeardownClosesDoes ==
  ASSUME Typed, TeardownCloses
  PROVE  \E w \in Top.todo :
           LET f == Frame("close", w)
               g == SweepFrame("teardown", Top.who, Nobody, Top.todo \ {w})
           IN  w \in Windows /\ Replaces(f, {f, g}, {g})
  <1>1. Stacked /\ stack # <<>> /\ Top \in Calls /\ Top.op = "teardown"
    BY TopIs DEF Typed, TeardownCloses
  <1>2. Top.todo \subseteq Windows /\ Top.who \in Apps
    BY <1>1, WhoIs DEF AppOps
  <1>3. PICK w \in Top.todo :
          Continue(<<Frame("close", w),
                     SweepFrame("teardown", Top.who, Nobody, Top.todo \ {w})>>)
    BY DEF TeardownCloses
  <1>4. Frame("close", w) \in Calls
    BY <1>2, CallIs DEF WindowOps
  <1>5. SweepFrame("teardown", Top.who, Nobody, Top.todo \ {w}) \in Calls
    BY <1>2, CallIs DEF AppOps
  <1>6. QED
    BY <1>1, <1>2, <1>3, <1>4, <1>5, ReplacesTwo

\* And its application is removed.
LEMMA TeardownRemovesDoes == ASSUME Typed, TeardownRemoves PROVE Returned("none")
  BY ReturnsNone DEF Typed, TeardownRemoves

-----------------------------------------------------------------------------
\* What the thread takes up.

Begun(kind, who, F, B) ==
  /\ Stacked' /\ In(stack') = F /\ Below' \subseteq B
  /\ ret' = "none"
  /\ F # {} => stack' # <<>> /\ Top' \in F /\ cause' = [kind |-> kind, who |-> who]
  /\ F = {} => stack' = <<>> /\ cause' = NoCause

\* Taking up work starts a stack of its own.
LEMMA Begins ==
  ASSUME NEW kind, NEW who, NEW fs \in Seq(Calls), Begin(kind, who, fs)
  PROVE  Begun(kind, who, In(fs), In(fs))
  <1>1. stack' = fs /\ ret' = "none"
    BY DEF Begin
  <1>2. CASE fs = <<>>
    <2>1. stack' = <<>> /\ In(fs) = {} /\ Below' = {}
      BY <1>1, <1>2, InEmpty DEF Below
    <2>2. QED
      BY <1>1, <1>2, <2>1 DEF Begin, Begun, Stacked
  <1>3. CASE fs # <<>>
    <2>1. In(fs) = {Head(fs)} \union In(Tail(fs))
      BY <1>3, InHeadTail
    <2>2. Top' = Head(fs) /\ Below' = In(Tail(fs))
      BY <1>1, <1>3 DEF Below, Top
    <2>3. QED
      BY <1>1, <1>3, <2>1, <2>2 DEF Begin, Begun, Stacked
  <1>4. QED
    BY <1>2, <1>3

\* With one call.
LEMMA BeginsOne ==
  ASSUME NEW kind, NEW who, NEW f \in Calls, Begin(kind, who, <<f>>)
  PROVE  Begun(kind, who, {f}, {}) /\ Top' = f
  <1>1. stack' = <<f>> /\ <<f>> \in Seq(Calls) /\ <<f>> # <<>>
        /\ Head(<<f>>) = f /\ Tail(<<f>>) = <<>>
    BY DEF Begin
  <1>2. In(<<f>>) = {f} /\ In(<<>>) = {}
    BY InOne, InEmpty
  <1>3. Top' = f /\ Below' = {}
    BY <1>1, <1>2 DEF Top, Below
  <1>4. QED
    BY <1>1, <1>2, <1>3, Begins DEF Begun

\* With none.
LEMMA BeginsNone ==
  ASSUME NEW kind, NEW who, Begin(kind, who, <<>>)
  PROVE  Begun(kind, who, {}, {})
  <1>1. <<>> \in Seq(Calls) /\ In(<<>>) = {}
    BY InEmpty
  <1>2. QED
    BY <1>1, Begins

\* A close asked for by the person, or by the application as destroy.
LEMMA CloseWindowDoes ==
  ASSUME Typed, NEW w \in Windows, CloseWindow(w) \/ DestroyWindow(w)
  PROVE  \E kind \in {"close", "destroy"} : Begun(kind, w, {Frame("close", w)}, {}) /\ Top' = Frame("close", w)
  <1>1. Frame("close", w) \in Calls
    BY CallIs DEF WindowOps
  <1>2. QED
    BY <1>1, BeginsOne DEF CloseWindow, DestroyWindow

\* A quit of the desktop.
LEMMA QuitDesktopDoes ==
  ASSUME Typed, QuitDesktop
  PROVE  Begun("quit", Nobody, {Frame("quit", Nobody)}, {})
  <1>1. Frame("quit", Nobody) \in Calls
    BY CallIs
  <1>2. QED
    BY <1>1, BeginsOne DEF QuitDesktop

\* A quit of one application.
LEMMA QuitApplicationDoes ==
  ASSUME Typed, NEW a \in Apps, QuitApplication(a)
  PROVE  Begun("quitApp", a, {Frame("quitApp", a)}, {})
  <1>1. Frame("quitApp", a) \in Calls
    BY CallIs DEF AppOps
  <1>2. QED
    BY <1>1, BeginsOne DEF QuitApplication

\* An answer on the wire: allow or refuse, about the window in question.
LEMMA AnswerCloseDoes ==
  ASSUME Typed, NEW d \in Ids, NEW v \in {"allowed", "denied"}, AnswerClose(d, v)
  PROVE  LET f == Frame(IF v = "allowed" THEN "allow" ELSE "refuse", about[d])
         IN  d \in open /\ about[d] \in Windows /\ Begun(v, about[d], {f}, {})
  <1>1. d \in open /\ about[d] \in Windows
    BY DEF AnswerClose, D!Answer, D!Settle, Typed, Asked
  <1>2. Frame("allow", about[d]) \in Calls /\ Frame("refuse", about[d]) \in Calls
    BY <1>1, CallIs DEF WindowOps
  <1>3. Callback(d, v) = <<Frame(IF v = "allowed" THEN "allow" ELSE "refuse", about[d])>>
    BY DEF Callback
  <1>4. QED
    BY <1>1, <1>2, <1>3, BeginsOne DEF AnswerClose

\* A deadline that ran out: the window, if undecided, is unanswered.
LEMMA DeadlineArrivesDoes ==
  ASSUME Typed, NEW d \in Ids, NEW n \in 1..MaxWaits, DeadlineArrives(d, n)
  PROVE  \/ LET f == Frame("unanswered", about[d])
            IN  /\ d \in open /\ about[d] \in deciding /\ about[d] \in Windows
                /\ Begun("ranOut", about[d], {f}, {}) /\ Top' = f
         \/ /\ Begun("ranOut", about[d], {}, {})
            /\ d \in open /\ d \notin open' => about[d] \notin deciding
  <1> DEFINE fs == IF d \in open \ open' THEN Callback(d, "unsaid") ELSE <<>>
  <1>1. Begin("ranOut", about[d], fs)
    BY DEF DeadlineArrives
  <1>2. CASE d \in open \ open' /\ about[d] \in deciding
    <2>1. fs = <<Frame("unanswered", about[d])>> /\ about[d] \in Windows
      BY <1>2 DEF Callback, Typed, Asked
    <2>2. Frame("unanswered", about[d]) \in Calls
      BY <2>1, CallIs DEF WindowOps
    <2>3. QED
      BY <1>1, <1>2, <2>1, <2>2, BeginsOne
  <1>3. CASE ~(d \in open \ open' /\ about[d] \in deciding)
    <2>1. fs = <<>>
      BY <1>3 DEF Callback
    <2>2. QED
      BY <1>1, <1>3, <2>1, BeginsNone
  <1>4. QED
    BY <1>2, <1>3

\* A connection that goes.
LEMMA DisconnectDoes ==
  ASSUME Typed, NEW a \in Apps, Disconnect(a)
  PROVE  Begun("disconnect", a, {Frame("undecided", a)}, {})
  <1>1. Frame("undecided", a) \in Calls
    BY CallIs DEF AppOps
  <1>2. QED
    BY <1>1, BeginsOne DEF Disconnect

\* The person's answer to a dialog, told to those who wait on it.
LEMMA PersonAnswersDoes ==
  ASSUME Typed, NEW w \in Windows, NEW yes \in BOOLEAN, PersonAnswers(w, yes)
  PROVE  LET f == Frame(IF yes THEN "allow" ELSE "refuse", w)
             F == IF waiters[w] > 0 THEN {f} ELSE {}
         IN  Begun(IF yes THEN "forced" ELSE "notForced", w, F, F)
  <1> DEFINE op == IF yes THEN "allow" ELSE "refuse"
             kind == IF yes THEN "forced" ELSE "notForced"
  <1>1. waiters[w] \in Nat /\ op \in WindowOps
    BY DEF Typed, TypeOK, WindowOps
  <1>2. Begin(kind, w, TellThem(w, op))
    BY DEF PersonAnswers
  <1> HIDE DEF op, kind
  <1>3. /\ TellThem(w, op) \in Seq(Calls)
        /\ In(TellThem(w, op)) = IF waiters[w] > 0 THEN {Frame(op, w)} ELSE {}
    BY <1>1, TellThemIs, InEmpty
  <1>4. Begun(kind, w, In(TellThem(w, op)), In(TellThem(w, op)))
    BY <1>2, <1>3, Begins
  <1>5. QED
    BY <1>3, <1>4 DEF op, kind

-----------------------------------------------------------------------------
\* Types, and the questions: every step is one of Decisions, or leaves them be.

\* Every step is one of Decisions, or leaves the questions be.
LEMMA QuestionStep ==
  ASSUME DP!IInv, [Next]_vars
  PROVE  [DP!Next]_DP!vars
  <1>1. CASE UNCHANGED questions
    BY <1>1 DEF DP!vars
  <1>2. ASSUME NEW w \in Windows, CloseAsks(w)
        PROVE  DP!Next
    <2>1. PICK d \in Ids : D!Ask(d, Owner[w], TRUE)
      BY <1>2 DEF CloseAsks
    <2>2. Owner[w] \in Apps
      BY WindowCloseAssumption
    <2>3. DP!Ask(d, Owner[w], TRUE)
      BY <2>1 DEF D!Ask, D!Arm, DP!Ask, DP!Arm
    <2>4. QED
      BY <2>2, <2>3 DEF DP!Next
  <1>3. ASSUME TeardownSettles, ~UNCHANGED questions
        PROVE  DP!Next
    <2>1. PICK d \in Ids : D!SettleHeld(d)
      BY <1>3 DEF TeardownSettles, DP!IInv, DP!TypeOK
    <2>2. DP!SettleHeld(d)
      BY <2>1 DEF D!SettleHeld, D!Settle, DP!SettleHeld, DP!Settle
    <2>3. QED
      BY <2>2 DEF DP!Next
  <1>4. ASSUME NEW d \in Ids, NEW v \in {"allowed", "denied"}, AnswerClose(d, v)
        PROVE  DP!Next
    <2>1. DP!Answer(d, v)
      BY <1>4 DEF AnswerClose, D!Answer, D!Settle, DP!Answer, DP!Settle
    <2>2. QED
      BY <2>1 DEF DP!Next
  <1>5. ASSUME NEW d \in Ids, KeepAsking(d)
        PROVE  DP!Next
    <2>1. DP!StillAsking(d)
      BY <1>5 DEF KeepAsking, D!StillAsking, D!Arm, DP!StillAsking, DP!Arm
    <2>2. QED
      BY <2>1 DEF DP!Next
  <1>6. ASSUME NEW d \in Ids, DeadlinePasses(d)
        PROVE  DP!Next
    <2>1. DP!TimerFires(d)
      BY <1>6 DEF DeadlinePasses, D!TimerFires, DP!TimerFires
    <2>2. QED
      BY <2>1 DEF DP!Next
  <1>7. ASSUME NEW d \in Ids, NEW n \in 1..MaxWaits, DeadlineArrives(d, n)
        PROVE  DP!Next
    <2>1. DP!RanOut(d, n)
      BY <1>7 DEF DeadlineArrives, D!RanOut, D!Stale, D!Settle, DP!RanOut, DP!Stale, DP!Settle
    <2>2. QED
      BY <2>1 DEF DP!Next, DP!Waits
  <1>8. ASSUME NEW a \in Apps, Disconnect(a)
        PROVE  DP!Next
    <2>1. DP!Leave(a)
      BY <1>8 DEF Disconnect, D!Leave, DP!Leave
    <2>2. QED
      BY <2>1 DEF DP!Next
  <1>9. ASSUME Next
        PROVE  \/ UNCHANGED questions
               \/ \E w \in Windows : CloseAsks(w)
               \/ TeardownSettles
               \/ \E d \in Ids, v \in {"allowed", "denied"} : AnswerClose(d, v)
               \/ \E d \in Ids : KeepAsking(d) \/ DeadlinePasses(d)
               \/ \E d \in Ids, n \in 1..MaxWaits : DeadlineArrives(d, n)
               \/ \E a \in Apps : Disconnect(a)
    <2>1. ASSUME ThreadStep
          PROVE  UNCHANGED questions \/ (\E w \in Windows : CloseAsks(w)) \/ TeardownSettles
      BY <2>1 DEF ThreadStep, CloseAgain, ClosePermitted, CloseUnasked, CloseRefused,
         CloseChildren, CloseHappens, ForgetWindow, SettleAllowed, SettleReports,
         SettleRefused, Unanswered, CloseDecided, ResumeQuits, AbandonQuits, SweepBegins,
         SweepCloses, QuitAppStops, QuitStops, QuitAppDone, QuitDone, TeardownCloses,
         TeardownRemoves
    <2>2. QED
      BY <1>9, <2>1 DEF Next, CloseWindow, QuitDesktop, QuitApplication, DestroyWindow,
         Subscribe, PersonAnswers, PersonClosesDialog
  <1>10. QED
    BY <1>1, <1>2, <1>3, <1>4, <1>5, <1>6, <1>7, <1>8, <1>9

\* So the invariant of Decisions is kept.
LEMMA QuestionsKept == ASSUME DP!IInv, [Next]_vars PROVE DP!IInv'
  <1>1. DP!DecisionsAssumption
    BY WindowCloseAssumption DEF DP!DecisionsAssumption
  <1>2. [DP!Next]_DP!vars
    BY QuestionStep
  <1>3. QED
    BY <1>1, <1>2, DP!NextIInv

Heard == ret \in {"none", "yes", "no"} /\ cause.who \in Windows \union Apps \union {Nobody}
Going == Stacked /\ Resting /\ Heard

\* However the thread goes on, its stack is one of calls.
LEMMA GoesOn ==
  ASSUME Typed
  PROVE  /\ \A f, F, B : Replaces(f, F, B) => Going'
         /\ \A v \in {"none", "yes", "no"} : Returned(v) => Going'
         /\ \A kind, F, B : \A who \in Windows \union Apps \union {Nobody} :
              Begun(kind, who, F, B) => Going'
  BY DEF Typed, TypeOK, Replaces, Returned, Begun, Going, Resting, Heard, NoCause

\* It is, after a step within a call ...
LEMMA ThreadGoesOn == ASSUME Typed, ThreadStep PROVE Going'
  <1>1. CASE CloseAgain \/ ForgetWindow
    BY <1>1, CloseAgainDoes, ForgetWindowDoes, GoesOn
  <1>2. ASSUME NEW w \in Windows,
               ClosePermitted(w) \/ CloseUnasked(w) \/ CloseAsks(w) \/ CloseRefused(w)
        PROVE  Going'
    BY <1>2, CloseOpens, CloseAnswersNo, GoesOn
  <1>3. CASE CloseChildren
    BY <1>3, CloseChildrenDoes, GoesOn
  <1>4. CASE CloseHappens
    BY <1>4, CloseHappensDoes, GoesOn
  <1>5. CASE SettleAllowed \/ SettleReports \/ SettleRefused \/ Unanswered
    BY <1>5, SettleAllowedDoes, SettleReportsDoes, SettleRefusedDoes, UnansweredDoes, GoesOn
  <1>6. CASE CloseDecided("decidedClosed", "resume") \/ CloseDecided("decidedOpen", "abandon")
    BY <1>6, CloseDecidedDoes, GoesOn DEF WindowOps
  <1>7. CASE ResumeQuits \/ AbandonQuits
    BY <1>7, ResumeQuitsDoes, AbandonQuitsDoes, GoesOn
  <1>8. CASE SweepBegins
    BY <1>8, SweepBeginsDoes, GoesOn
  <1>9. CASE SweepCloses("sweepApp") \/ SweepCloses("sweep")
    BY <1>9, SweepClosesDoes, GoesOn
  <1>10. CASE QuitAppStops \/ QuitStops \/ QuitAppDone \/ QuitDone
    BY <1>10, QuitsReturn, GoesOn
  <1>11. CASE TeardownSettles
    BY <1>11, TeardownSettlesDoes, GoesOn
  <1>12. CASE TeardownCloses \/ TeardownRemoves
    BY <1>12, TeardownClosesDoes, TeardownRemovesDoes, GoesOn
  <1>13. QED
    BY <1>1, <1>2, <1>3, <1>4, <1>5, <1>6, <1>7, <1>8, <1>9, <1>10, <1>11, <1>12
    DEF ThreadStep

\* ... and after any step.
LEMMA NextGoesOn == ASSUME Typed, [Next]_vars PROVE Going'
  <1> USE DEF Ready, Idle
  <1>1. ASSUME UNCHANGED thread PROVE Going'
    BY <1>1 DEF Typed, TypeOK, Going, Stacked, Resting, Heard
  <1>2. ASSUME NEW w \in Windows, CloseWindow(w) \/ DestroyWindow(w) PROVE Going'
    BY <1>2, CloseWindowDoes, GoesOn
  <1>3. CASE QuitDesktop
    BY <1>3, QuitDesktopDoes, GoesOn
  <1>4. ASSUME NEW a \in Apps, QuitApplication(a) \/ Disconnect(a) PROVE Going'
    BY <1>4, QuitApplicationDoes, DisconnectDoes, GoesOn
  <1>5. ASSUME NEW d \in Ids, NEW v \in {"allowed", "denied"}, AnswerClose(d, v) PROVE Going'
    BY <1>5, AnswerCloseDoes, GoesOn
  <1>6. ASSUME NEW d \in Ids, NEW n \in 1..MaxWaits, DeadlineArrives(d, n) PROVE Going'
    <2>1. about[d] \in Windows \union Apps \union {Nobody}
      BY DEF Typed, TypeOK
    <2>2. QED
      BY <1>6, <2>1, DeadlineArrivesDoes, GoesOn
  <1>7. ASSUME NEW w \in Windows, NEW yes \in BOOLEAN, PersonAnswers(w, yes) PROVE Going'
    BY <1>7, PersonAnswersDoes, GoesOn
  <1>8. ASSUME NEW d \in Ids, KeepAsking(d) \/ DeadlinePasses(d) PROVE UNCHANGED thread
    BY <1>8 DEF KeepAsking, DeadlinePasses
  <1>9. ASSUME NEW w \in Windows, Subscribe(w) \/ PersonClosesDialog(w) PROVE UNCHANGED thread
    BY <1>9 DEF Subscribe, PersonClosesDialog
  <1>10. QED
    BY <1>1, <1>2, <1>3, <1>4, <1>5, <1>6, <1>7, <1>8, <1>9, ThreadGoesOn DEF Next

\* The variables of the windows, the quits and the dialogs.
Kept ==
  /\ about \in [Ids -> Windows \union {Nobody}]
  /\ closed \subseteq Windows /\ deciding \subseteq Windows
  /\ allowing \subseteq Windows /\ bound \subseteq Windows
  /\ listening \subseteq Windows /\ inApp \subseteq Windows
  /\ apps \subseteq Apps /\ appQuitWanted \subseteq Apps
  /\ quitWanted \in BOOLEAN /\ exited \in BOOLEAN
  /\ forceClose \subseteq Windows /\ shown \subseteq forceClose
  /\ waiters \in [Windows -> Nat]
  /\ Asked

\* What Typed says, in three parts.
LEMMA TypedIs == Typed <=> Kept /\ DP!IInv /\ Going
  <1>1. Stacked => stack \in Seq(FrameType)
    <2>1. Calls \subseteq FrameType
      BY WhoIs
    <2>2. QED
      BY <2>1, SeqMonotonic DEF Stacked
  <1>2. DP!IInv => D!TypeOK
    BY DEF DP!IInv, DP!TypeOK, DP!Verdict, DP!Waits, D!TypeOK, D!Verdict, D!Waits
  <1>3. QED
    BY <1>1, <1>2 DEF Typed, TypeOK, Kept, Going, Heard

\* The second of them is kept.
LEMMA KeptStep == ASSUME Typed, [Next]_vars PROVE Kept'
  <1> USE DEF Kept
  <1>1. Kept
    BY TypedIs
  <1>2. ASSUME stack # <<>>
        PROVE  /\ Top.op \in WindowOps => Top.who \in Windows
               /\ Top.op \in AppOps => Top.who \in Apps
    BY <1>2, TopIs, WhoIs DEF Typed
  <1>3. ASSUME NEW w \in Windows, ClosePermitted(w) \/ CloseUnasked(w) \/ CloseRefused(w)
        PROVE  Kept'
    BY <1>1, <1>3 DEF ClosePermitted, CloseUnasked, CloseRefused, Asked
  <1>4. ASSUME NEW w \in Windows, CloseAsks(w) PROVE Kept'
    <2>1. PICK d \in Ids : D!Ask(d, Owner[w], TRUE) /\ about' = [about EXCEPT ![d] = w]
      BY <1>4 DEF CloseAsks
    <2>2. Asked'
      BY <1>1, <2>1 DEF Asked, D!Ask
    <2>3. QED
      BY <1>1, <1>4, <2>1, <2>2 DEF CloseAsks
  <1>5. CASE CloseAgain \/ CloseChildren \/ SettleReports \/ ResumeQuits \/ SweepBegins
             \/ SweepCloses("sweepApp") \/ SweepCloses("sweep") \/ TeardownCloses
    BY <1>1, <1>5 DEF CloseAgain, CloseChildren, SettleReports, ResumeQuits, SweepBegins,
       SweepCloses, TeardownCloses, Asked
  <1>6. CASE CloseHappens
    BY <1>1, <1>2, <1>6 DEF CloseHappens, WindowOps, Asked
  <1>7. CASE ForgetWindow \/ SettleRefused \/ AbandonQuits \/ QuitDone \/ TeardownRemoves
    BY <1>1, <1>7 DEF ForgetWindow, SettleRefused, AbandonQuits, QuitDone, TeardownRemoves, Asked
  <1>8. CASE QuitStops
    <2>1. quitWanted' \in BOOLEAN
      BY <1>8 DEF QuitStops
    <2>2. QED
      BY <1>1, <1>8, <2>1 DEF QuitStops, Asked
  <1>9. CASE SettleAllowed
    BY <1>1, <1>2, <1>9 DEF SettleAllowed, WindowOps, Asked
  <1>10. CASE Unanswered
    BY <1>1, <1>2, <1>10 DEF Unanswered, WindowOps, Asked
  <1>11. ASSUME NEW op \in WindowOps, NEW next, CloseDecided(op, next) PROVE Kept'
    <2>1. Top.who \in Windows /\ 0 \in Nat
      BY <1>2, <1>11 DEF CloseDecided
    <2>2. QED
      BY <1>1, <1>11, <2>1 DEF CloseDecided, Asked
  <1>12. CASE QuitAppStops \/ QuitAppDone
    BY <1>1, <1>2, <1>12 DEF QuitAppStops, QuitAppDone, AppOps, Asked
  <1>13. CASE TeardownSettles
    BY <1>1, <1>13 DEF TeardownSettles, D!SettleHeld, D!Settle, Asked
  <1>14. ASSUME NEW w \in Windows,
                CloseWindow(w) \/ DestroyWindow(w) \/ Subscribe(w) \/ PersonClosesDialog(w)
         PROVE  Kept'
    BY <1>1, <1>14 DEF CloseWindow, DestroyWindow, Subscribe, PersonClosesDialog, Asked
  <1>15. ASSUME NEW w \in Windows, NEW yes \in BOOLEAN, PersonAnswers(w, yes) PROVE Kept'
    BY <1>1, <1>15 DEF PersonAnswers, Asked
  <1>16. ASSUME NEW a \in Apps, QuitApplication(a) \/ Disconnect(a) PROVE Kept'
    BY <1>1, <1>16 DEF QuitApplication, Disconnect, D!Leave, Asked
  <1>17. CASE QuitDesktop
    BY <1>1, <1>17 DEF QuitDesktop, Asked
  <1>18. ASSUME NEW d \in Ids, NEW v \in {"allowed", "denied"}, AnswerClose(d, v)
         PROVE  Kept'
    BY <1>1, <1>18 DEF AnswerClose, D!Answer, D!Settle, Asked
  <1>19. ASSUME NEW d \in Ids, KeepAsking(d) \/ DeadlinePasses(d) PROVE Kept'
    BY <1>1, <1>19 DEF KeepAsking, DeadlinePasses, D!StillAsking, D!TimerFires, Asked
  <1>20. ASSUME NEW d \in Ids, NEW n \in 1..MaxWaits, DeadlineArrives(d, n) PROVE Kept'
    BY <1>1, <1>20 DEF DeadlineArrives, D!RanOut, D!Settle, Asked
  <1>21. CASE UNCHANGED vars
    BY <1>1, <1>21 DEF Asked
  <1>22. ASSUME ThreadStep PROVE Kept'
    BY <1>3, <1>4, <1>5, <1>6, <1>7, <1>9, <1>10, <1>11, <1>12, <1>13, <1>22, <1>8
    DEF ThreadStep, WindowOps
  <1>23. QED
    BY <1>14, <1>15, <1>16, <1>17, <1>18, <1>19, <1>20, <1>21, <1>22 DEF Next

\* At first every variable has its type ...
LEMMA InitTyped == Init => Typed
  <1> SUFFICES ASSUME Init PROVE Typed
    OBVIOUS
  <1>1. DP!IInv
    <2>1. DP!DecisionsAssumption
      BY WindowCloseAssumption DEF DP!DecisionsAssumption
    <2>2. DP!Init
      BY DEF Init, D!Init, DP!Init
    <2>3. QED
      BY <2>1, <2>2, DP!InitIInv
  <1>2. Kept
    BY DEF Init, D!Init, Kept, Asked
  <1>3. Going
    BY DEF Init, Going, Stacked, Resting, Heard, NoCause
  <1>4. QED
    BY <1>1, <1>2, <1>3, TypedIs

\* ... and no step changes that.
LEMMA TypedStep == ASSUME Typed, [Next]_vars PROVE Typed'
  <1>1. Kept' /\ Going' /\ DP!IInv'
    BY KeptStep, NextGoesOn, QuestionsKept, TypedIs
  <1>2. QED
    BY <1>1, TypedIs, PTL

\* Every variable has its type, and the questions are those of Decisions.
LEMMA AlwaysTyped == Spec => []Typed
  BY InitTyped, TypedStep, PTL DEF Spec

-----------------------------------------------------------------------------
\* A step within a call puts the calls F in the place of the one on top.
Becomes(F) ==
  /\ Stacked' /\ stack # <<>>
  /\ In(stack) = {Top} \union Below /\ In(stack') = F \union Below
  /\ stack' # <<>> => cause' = cause
  /\ stack' = <<>> => cause' = NoCause

\* The two shapes of step above are of this one.
LEMMA BecomesOf ==
  ASSUME stack # <<>>
  PROVE  /\ \A f, F, B : Replaces(f, F, B) => Becomes(F)
         /\ \A v : Returned(v) => Becomes({})
  BY DEF Replaces, Returned, Becomes

\* A step within a call keeps the cause, or ends the work.
LEMMA ThreadCause == ASSUME Typed, ThreadStep PROVE cause' = cause \/ cause' = NoCause
  BY DEF ThreadStep, CloseAgain, ClosePermitted, CloseUnasked, CloseAsks, CloseRefused,
     CloseChildren, CloseHappens, ForgetWindow, SettleAllowed, SettleReports,
     SettleRefused, Unanswered, CloseDecided, ResumeQuits, AbandonQuits, SweepBegins,
     SweepCloses, QuitAppStops, QuitStops, QuitAppDone, QuitDone, TeardownSettles,
     TeardownCloses, TeardownRemoves, Continue, Return, Resume

\* A step within a call has a call on top.
LEMMA Busy == ASSUME Typed, ThreadStep PROVE stack # <<>> /\ Top \in In(stack)
  <1>1. stack # <<>>
    BY DEF ThreadStep, CloseAgain, ClosePermitted, CloseUnasked, CloseAsks, CloseRefused,
       Consulting, Attempting,
       CloseChildren, CloseHappens, ForgetWindow, SettleAllowed, SettleReports,
       SettleRefused, Unanswered, CloseDecided, ResumeQuits, AbandonQuits, SweepBegins,
       SweepCloses, QuitAppStops, QuitStops, QuitAppDone, QuitDone, TeardownSettles,
       TeardownCloses, TeardownRemoves
  <1>2. QED
    BY <1>1, TopIs DEF Typed

Is(f, op, who) == f.op = op /\ f.who = who

\* ... no call at all, when it is over ...
LEMMA BringsNothing ==
  ASSUME Typed,
         \/ CloseAgain \/ (\E w \in Windows : CloseAsks(w) \/ CloseRefused(w)) \/ ForgetWindow
         \/ AbandonQuits \/ QuitAppStops \/ QuitStops \/ QuitAppDone \/ QuitDone
         \/ TeardownRemoves
  PROVE  Becomes({})
  <1>1. stack # <<>>
    BY DEF CloseAgain, CloseAsks, CloseRefused, Consulting, Attempting, ForgetWindow,
       AbandonQuits, QuitAppStops, QuitStops, QuitAppDone, QuitDone, TeardownRemoves
  <1>2. CASE CloseAgain \/ ForgetWindow \/ TeardownRemoves
    BY <1>1, <1>2, CloseAgainDoes, ForgetWindowDoes, TeardownRemovesDoes, BecomesOf
  <1>3. ASSUME NEW w \in Windows, CloseAsks(w) \/ CloseRefused(w) PROVE Becomes({})
    BY <1>1, <1>3, CloseAnswersNo, BecomesOf
  <1>4. CASE AbandonQuits \/ QuitAppStops \/ QuitStops \/ QuitAppDone \/ QuitDone
    BY <1>1, <1>4, AbandonQuitsDoes, QuitsReturn, BecomesOf
  <1>5. QED
    BY <1>2, <1>3, <1>4

\* ... or those it goes on with.
LEMMA OpeningBrings ==
  ASSUME Typed, NEW w \in Windows, ClosePermitted(w) \/ CloseUnasked(w)
  PROVE  \E f : Becomes({f}) /\ Is(f, "children", w)
  <1> DEFINE f == SweepFrame("children", w, Nobody, Children(w))
  <1>1. stack # <<>> /\ Replaces(f, {f}, {})
    BY CloseOpens DEF ClosePermitted, CloseUnasked, Attempting
  <1>2. Becomes({f}) /\ Is(f, "children", w)
    BY <1>1, BecomesOf DEF Is, SweepFrame
  <1>3. QED
    BY <1>2

\* window.go attemptClose, its children: a child's close, or its own.
LEMMA ChildrenBring ==
  ASSUME Typed, CloseChildren
  PROVE  \/ Becomes({})
         \/ \E f : Becomes({f}) /\ Is(f, "closed", Top.who)
         \/ \E f, g, c : Becomes({f, g}) /\ Is(f, "close", c) /\ Is(g, "children", Top.who)
  <1>1. stack # <<>>
    BY DEF CloseChildren
  <1>2. CASE Returned("no")
    BY <1>1, <1>2, BecomesOf
  <1>3. ASSUME Replaces(Frame("closed", Top.who), {Frame("closed", Top.who)}, {})
        PROVE  \E f : Becomes({f}) /\ Is(f, "closed", Top.who)
    <2> DEFINE f == Frame("closed", Top.who)
    <2>1. Becomes({f}) /\ Is(f, "closed", Top.who)
      BY <1>1, <1>3, BecomesOf DEF Is, Frame
    <2>2. QED
      BY <2>1
  <1>4. ASSUME NEW c,
               LET f == Frame("close", c)
                   g == SweepFrame("children", Top.who, Nobody, Top.todo \ {c})
               IN  Replaces(f, {f, g}, {g})
        PROVE  \E f, g : Becomes({f, g}) /\ Is(f, "close", c) /\ Is(g, "children", Top.who)
    <2> DEFINE f == Frame("close", c)
               g == SweepFrame("children", Top.who, Nobody, Top.todo \ {c})
    <2>1. Becomes({f, g}) /\ Is(f, "close", c) /\ Is(g, "children", Top.who)
      BY <1>1, <1>4, BecomesOf DEF Is, Frame, SweepFrame
    <2>2. QED
      BY <2>1
  <1>5. QED
    BY <1>2, <1>3, <1>4, CloseChildrenDoes

\* window.go attemptClose: the report, if the window was being decided, and the forgetting.
LEMMA ClosedBrings ==
  ASSUME Typed, CloseHappens
  PROVE  \E g : /\ Is(g, "forget", Top.who)
                /\ \/ Becomes({g})
                   \/ \E f : Becomes({f, g}) /\ Is(f, "decidedClosed", Top.who)
                /\ Top.who \in deciding =>
                     \E f : Becomes({f, g}) /\ Is(f, "decidedClosed", Top.who)
  <1> DEFINE f == Frame("decidedClosed", Top.who)
             g == Frame("forget", Top.who)
  <1>1. stack # <<>>
    BY DEF CloseHappens
  <1>2. (Top.who \in deciding => Becomes({f, g})) /\ (Top.who \notin deciding => Becomes({g}))
    BY <1>1, CloseHappensDoes, BecomesOf
  <1>3. Is(f, "decidedClosed", Top.who) /\ Is(g, "forget", Top.who)
    BY DEF Is, Frame
  <1>4. QED
    BY <1>2, <1>3

\* settle, allowed: a close, and what waits for it.
LEMMA AllowedBrings ==
  ASSUME Typed, SettleAllowed
  PROVE  \E f, g : /\ Becomes({f, g}) /\ stack' # <<>>
                   /\ Is(f, "close", Top.who) /\ Is(g, "closing", Top.who)
  <1> DEFINE f == Frame("close", Top.who)
             g == Frame("closing", Top.who)
  <1>1. stack # <<>>
    BY DEF SettleAllowed
  <1>2. Becomes({f, g}) /\ stack' # <<>>
    BY <1>1, SettleAllowedDoes, BecomesOf DEF Replaces
  <1>3. Is(f, "close", Top.who) /\ Is(g, "closing", Top.who)
    BY DEF Is, Frame
  <1>4. QED
    BY <1>2, <1>3

\* settle: the report.
LEMMA ReportBrings ==
  ASSUME Typed, SettleReports \/ SettleRefused
  PROVE  \E f : /\ Becomes({f})
                /\ Is(f, "decidedClosed", Top.who) \/ Is(f, "decidedOpen", Top.who)
                /\ SettleRefused => Is(f, "decidedOpen", Top.who)
  <1>1. stack # <<>>
    BY DEF SettleReports, SettleRefused
  <1>2. \A op, w : Is(Frame(op, w), op, w)
    BY DEF Is, Frame
  <1>3. CASE SettleReports
    <2>1. PICK op \in {"decidedClosed", "decidedOpen"} :
            Replaces(Frame(op, Top.who), {Frame(op, Top.who)}, {})
      BY <1>3, SettleReportsDoes
    <2> DEFINE f == Frame(op, Top.who)
    <2>2. Becomes({f}) /\ Is(f, op, Top.who)
      BY <1>1, <1>2, <2>1, BecomesOf
    <2> HIDE DEF f
    <2>3. ~SettleRefused
      BY <1>3 DEF SettleReports, SettleRefused
    <2>4. QED
      BY <2>2, <2>3
  <1>4. CASE SettleRefused
    <2> DEFINE f == Frame("decidedOpen", Top.who)
    <2>1. Becomes({f}) /\ Is(f, "decidedOpen", Top.who)
      BY <1>1, <1>2, <1>4, SettleRefusedDoes, BecomesOf
    <2>2. QED
      BY <2>1
  <1>5. QED
    BY <1>3, <1>4

\* No answer: a refusal, or nothing but the dialog.
LEMMA UnansweredBrings ==
  ASSUME Typed, Unanswered
  PROVE  \/ /\ Owner[Top.who] \in gone /\ UNCHANGED dialogs
            /\ \E f : Becomes({f}) /\ Is(f, "refuse", Top.who)
         \/ Owner[Top.who] \notin gone /\ Becomes({})
  <1> DEFINE f == Frame("refuse", Top.who)
  <1>1. stack # <<>>
    BY DEF Unanswered
  <1>2. Is(f, "refuse", Top.who)
    BY DEF Is, Frame
  <1>3. QED
    BY <1>1, <1>2, UnansweredDoes, BecomesOf

\* CloseDecided: a refusal for the waiters, and the quits.
LEMMA DecidedBrings ==
  ASSUME Typed, NEW next \in {"resume", "abandon"}, NEW op \in WindowOps, CloseDecided(op, next)
  PROVE  \E F : /\ Becomes(F)
                /\ \A f \in F : Is(f, "refuse", Top.who) \/ Is(f, next, Top.who)
                /\ \E f \in F : Is(f, next, Top.who)
                /\ Top.who \in forceClose /\ waiters[Top.who] > 0 =>
                     \E f \in F : Is(f, "refuse", Top.who)
  <1>1. stack # <<>>
    BY DEF CloseDecided
  <1>2. PICK F \in SUBSET {Frame("refuse", Top.who), Frame(next, Top.who)} :
          /\ Replaces(Top', F, F) /\ Frame(next, Top.who) \in F
          /\ Top.who \in forceClose /\ waiters[Top.who] > 0 => Frame("refuse", Top.who) \in F
    BY CloseDecidedDoes
  <1>3. Becomes(F)
    BY <1>1, <1>2, BecomesOf
  <1>4. Is(Frame("refuse", Top.who), "refuse", Top.who) /\ Is(Frame(next, Top.who), next, Top.who)
    BY DEF Is, Frame
  <1>5. QED
    BY <1>2, <1>3, <1>4

\* The quits that resume.
LEMMA ResumeBrings ==
  ASSUME Typed, ResumeQuits
  PROVE  \E F : /\ Becomes(F)
                /\ \A f \in F : Is(f, "quitApp", Owner[Top.who]) \/ Is(f, "quit", Nobody)
                /\ quitWanted => \E f \in F : Is(f, "quit", Nobody)
  <1>1. stack # <<>>
    BY DEF ResumeQuits
  <1>2. Is(Frame("quitApp", Owner[Top.who]), "quitApp", Owner[Top.who])
        /\ Is(Frame("quit", Nobody), "quit", Nobody)
    BY DEF Is, Frame
  <1>3. CASE ~quitWanted /\ Returned("none")
    <2>1. Becomes({})
      BY <1>1, <1>3, BecomesOf
    <2>2. QED
      BY <1>3, <2>1
  <1>4. ASSUME NEW F \in SUBSET {Frame("quitApp", Owner[Top.who]), Frame("quit", Nobody)},
               Replaces(Top', F, F), quitWanted => Frame("quit", Nobody) \in F
        PROVE  /\ Becomes(F)
               /\ \A f \in F : Is(f, "quitApp", Owner[Top.who]) \/ Is(f, "quit", Nobody)
               /\ quitWanted => \E f \in F : Is(f, "quit", Nobody)
    BY <1>1, <1>2, <1>4, BecomesOf
  <1>5. QED
    BY <1>3, <1>4, ResumeQuitsDoes

\* A sweep, or a close it asks for.
LEMMA SweepBrings ==
  ASSUME Typed,
         SweepBegins \/ SweepCloses("sweepApp") \/ SweepCloses("sweep")
  PROVE  \/ \E f : /\ Becomes({f})
                   /\ \/ Top.op = "quitApp" /\ Is(f, "sweepApp", Top.who)
                      \/ Top.op = "quit" /\ Is(f, "sweep", Nobody)
         \/ \E f, g, w : /\ Becomes({f, g}) /\ Is(f, "close", w) /\ Is(g, Top.op, Top.who)
                         /\ Top.op \in {"sweepApp", "sweep"}
  <1>1. stack # <<>>
    BY DEF SweepBegins, SweepCloses
  <1>2. CASE SweepBegins
    <2> DEFINE f == SweepFrame("sweepApp", Top.who, Nobody, AppWindows(Top.who))
               g == SweepFrame("sweep", Nobody, Nobody, Windows \ closed)
    <2>1. \/ Top.op = "quitApp" /\ Replaces(f, {f}, {})
          \/ Top.op = "quit" /\ Replaces(g, {g}, {})
      BY <1>2, SweepBeginsDoes
    <2>2. Is(f, "sweepApp", Top.who) /\ Is(g, "sweep", Nobody)
      BY DEF Is, SweepFrame
    <2> HIDE DEF f, g
    <2>3. QED
      BY <1>1, <2>1, <2>2, BecomesOf
  <1>3. ASSUME NEW op \in {"sweepApp", "sweep"}, SweepCloses(op)
        PROVE  \E f, g, w : /\ Becomes({f, g}) /\ Is(f, "close", w) /\ Is(g, Top.op, Top.who)
                            /\ Top.op \in {"sweepApp", "sweep"}
    <2>1. PICK w \in Top.todo :
            LET f == Frame("close", w)
                g == SweepFrame(op, Top.who, w, Top.todo \ {w})
            IN  Top.op = op /\ Replaces(f, {f, g}, {g})
      BY <1>3, SweepClosesDoes
    <2> DEFINE f == Frame("close", w)
               g == SweepFrame(op, Top.who, w, Top.todo \ {w})
    <2>2. /\ Becomes({f, g}) /\ Is(f, "close", w) /\ Is(g, op, Top.who) /\ Top.op = op
      BY <1>1, <2>1, BecomesOf DEF Is, Frame, SweepFrame
    <2>3. QED
      BY <2>2
  <1>4. QED
    BY <1>2, <1>3

\* A teardown, the questions it settles and the closes it asks for.
LEMMA TeardownBrings ==
  ASSUME Typed, TeardownSettles \/ TeardownCloses
  PROVE  \/ /\ Becomes({Top}) /\ Top.op = "undecided"
            /\ \E d \in open : D!SettleHeld(d) /\ about[d] \notin deciding
         \/ \E d \in open : /\ D!SettleHeld(d) /\ about[d] \in deciding
                            /\ \E f : /\ Becomes({f, Top}) /\ Top.op = "undecided"
                                      /\ Is(f, "unanswered", about[d])
         \/ \E f : UNCHANGED questions /\ Becomes({f}) /\ Is(f, "teardown", Top.who)
         \/ \E f, g, w : /\ UNCHANGED questions
                         /\ Becomes({f, g}) /\ Is(f, "close", w) /\ Is(g, "teardown", Top.who)
  <1>1. stack # <<>>
    BY DEF TeardownSettles, TeardownCloses
  <1>2. CASE TeardownSettles
    <2> DEFINE h == SweepFrame("teardown", Top.who, Nobody, AppWindows(Top.who))
    <2>1. Top.op = "undecided"
      BY <1>2 DEF TeardownSettles
    <2>2. Is(h, "teardown", Top.who) /\ \A w : Is(Frame("unanswered", w), "unanswered", w)
      BY DEF Is, Frame, SweepFrame
    <2>3. \/ /\ Becomes({Top})
             /\ \E d \in open : D!SettleHeld(d) /\ about[d] \notin deciding
          \/ \E d \in open : /\ D!SettleHeld(d) /\ about[d] \in deciding
                             /\ Becomes({Frame("unanswered", about[d]), Top})
          \/ UNCHANGED questions /\ Becomes({h})
      BY <1>1, <1>2, TeardownSettlesDoes, BecomesOf
    <2> HIDE DEF h
    <2>4. QED
      BY <2>1, <2>2, <2>3
  <1>3. CASE TeardownCloses
    <2>1. PICK w \in Top.todo :
            LET f == Frame("close", w)
                g == SweepFrame("teardown", Top.who, Nobody, Top.todo \ {w})
            IN  Replaces(f, {f, g}, {g})
      BY <1>3, TeardownClosesDoes
    <2> DEFINE f == Frame("close", w)
               g == SweepFrame("teardown", Top.who, Nobody, Top.todo \ {w})
    <2>2. /\ Becomes({f, g}) /\ Is(f, "close", w) /\ Is(g, "teardown", Top.who)
          /\ UNCHANGED questions
      BY <1>1, <1>3, <2>1, BecomesOf DEF Is, Frame, SweepFrame, TeardownCloses
    <2>3. QED
      BY <2>2
  <1>4. QED
    BY <1>2, <1>3

\* What the thread takes up when it is idle: leave to close a window is in its
\* cause, and so is a refusal.
LEMMA Starts ==
  ASSUME Typed, Next, ~ThreadStep
  PROVE  /\ stack = <<>> /\ ~exited
         /\ closed' = closed /\ deciding' = deciding /\ allowing' = allowing
         /\ bound' \subseteq bound /\ UNCHANGED quits
         /\ \A f \in In(stack') :
              \/ f.op \in {"close", "quit", "quitApp"}
              \/ f.op = "undecided" /\ f.who \in gone'
              \/ f.op = "unanswered" /\ f.who \in deciding
              \/ f.op = "allow" /\ cause'.kind \in {"allowed", "forced"} /\ cause'.who = f.who
              \/ f.op = "refuse"
         /\ cause'.kind \in {"denied", "notForced"} => \A f \in In(stack') : f.op = "refuse"
         /\ stack' = <<>> => cause' = NoCause
  <1> DEFINE Fine ==
         /\ \A f \in In(stack') :
              \/ f.op \in {"close", "quit", "quitApp"}
              \/ f.op = "undecided" /\ f.who \in gone'
              \/ f.op = "unanswered" /\ f.who \in deciding
              \/ f.op = "allow" /\ cause'.kind \in {"allowed", "forced"} /\ cause'.who = f.who
              \/ f.op = "refuse"
         /\ cause'.kind \in {"denied", "notForced"} => \A f \in In(stack') : f.op = "refuse"
         /\ stack' = <<>> => cause' = NoCause
  <1>1. /\ stack = <<>> /\ ~exited
        /\ closed' = closed /\ deciding' = deciding /\ allowing' = allowing
        /\ bound' \subseteq bound /\ UNCHANGED quits
    BY DEF Next, CloseWindow, QuitDesktop, QuitApplication, AnswerClose, KeepAsking,
       DestroyWindow, Subscribe, DeadlinePasses, DeadlineArrives, Disconnect, PersonAnswers,
       PersonClosesDialog, Ready, Idle
  <1>2. \A op, w : Is(Frame(op, w), op, w)
    BY DEF Is, Frame
  <1>3. ASSUME UNCHANGED thread PROVE Fine
    BY <1>1, <1>3, InEmpty DEF Typed, Resting, NoCause
  <1>4. ASSUME NEW kind, NEW who, NEW f, NEW B, Begun(kind, who, {f}, B),
               kind \notin {"denied", "notForced"},
               \/ f.op \in {"close", "quit", "quitApp"}
               \/ f.op = "undecided" /\ f.who \in gone'
               \/ f.op = "unanswered" /\ f.who \in deciding
        PROVE  Fine
    BY <1>4 DEF Begun, NoCause
  <1>5. ASSUME NEW kind, NEW who, NEW B, Begun(kind, who, {}, B)
        PROVE  Fine
    BY <1>5 DEF Begun, NoCause
  <1>6. ASSUME NEW who, NEW f, NEW B,
               \/ /\ Begun("allowed", who, {f}, B) \/ Begun("forced", who, {f}, B)
                  /\ Is(f, "allow", who)
               \/ /\ Begun("denied", who, {f}, B) \/ Begun("notForced", who, {f}, B)
                  /\ Is(f, "refuse", who)
        PROVE  Fine
    BY <1>6 DEF Begun, NoCause, Is
  <1>7. ASSUME NEW w \in Windows, CloseWindow(w) \/ DestroyWindow(w) PROVE Fine
    <2> DEFINE f == Frame("close", w)
    <2>1. PICK kind \in {"close", "destroy"} : Begun(kind, w, {f}, {})
      BY <1>7, CloseWindowDoes
    <2>2. kind \notin {"denied", "notForced"} /\ f.op \in {"close", "quit", "quitApp"}
      BY <2>1 DEF Frame
    <2> HIDE DEF f, Fine
    <2>3. QED
      BY <1>4, <2>1, <2>2
  <1>8. ASSUME QuitDesktop PROVE Fine
    <2> DEFINE f == Frame("quit", Nobody)
    <2>1. Begun("quit", Nobody, {f}, {}) /\ f.op \in {"close", "quit", "quitApp"}
      BY <1>8, QuitDesktopDoes DEF Frame
    <2> HIDE DEF f, Fine
    <2>2. QED
      BY <1>4, <2>1
  <1>9. ASSUME NEW a \in Apps, QuitApplication(a) \/ Disconnect(a) PROVE Fine
    <2> DEFINE f == Frame("quitApp", a)
               g == Frame("undecided", a)
    <2>1. \/ Begun("quitApp", a, {f}, {})
          \/ Begun("disconnect", a, {g}, {}) /\ a \in gone'
      BY <1>9, QuitApplicationDoes, DisconnectDoes DEF Disconnect, D!Leave
    <2>2. f.op \in {"close", "quit", "quitApp"} /\ g.op = "undecided" /\ g.who = a
      BY DEF Frame
    <2> HIDE DEF f, g, Fine
    <2>3. QED
      BY <1>4, <2>1, <2>2
  <1>10. ASSUME NEW d \in Ids, NEW v \in {"allowed", "denied"}, AnswerClose(d, v) PROVE Fine
    <2> DEFINE f == Frame(IF v = "allowed" THEN "allow" ELSE "refuse", about[d])
    <2>1. Begun(v, about[d], {f}, {})
      BY <1>10, AnswerCloseDoes
    <2>2. Is(f, IF v = "allowed" THEN "allow" ELSE "refuse", about[d])
      BY <1>2
    <2> HIDE DEF f, Fine
    <2>3. QED
      BY <1>6, <2>1, <2>2
  <1>11. ASSUME NEW d \in Ids, NEW n \in 1..MaxWaits, DeadlineArrives(d, n) PROVE Fine
    <2> DEFINE f == Frame("unanswered", about[d])
    <2>1. \/ about[d] \in deciding /\ Begun("ranOut", about[d], {f}, {})
          \/ Begun("ranOut", about[d], {}, {})
      BY <1>11, DeadlineArrivesDoes
    <2>2. f.op = "unanswered" /\ f.who = about[d]
      BY DEF Frame
    <2> HIDE DEF f, Fine
    <2>3. QED
      BY <1>4, <1>5, <2>1, <2>2
  <1>12. ASSUME NEW w \in Windows, NEW yes \in BOOLEAN, PersonAnswers(w, yes) PROVE Fine
    <2> DEFINE f == Frame(IF yes THEN "allow" ELSE "refuse", w)
               F == IF waiters[w] > 0 THEN {f} ELSE {}
    <2>1. Begun(IF yes THEN "forced" ELSE "notForced", w, F, F)
      BY <1>12, PersonAnswersDoes
    <2>2. Is(f, IF yes THEN "allow" ELSE "refuse", w)
      BY <1>2
    <2> HIDE DEF f, Fine
    <2>3. QED
      BY <1>5, <1>6, <2>1, <2>2
  <1>13. Fine
    <2>1. ASSUME NEW d \in Ids, KeepAsking(d) \/ DeadlinePasses(d) PROVE UNCHANGED thread
      BY <2>1 DEF KeepAsking, DeadlinePasses
    <2>2. ASSUME NEW w \in Windows, Subscribe(w) \/ PersonClosesDialog(w) PROVE UNCHANGED thread
      BY <2>2 DEF Subscribe, PersonClosesDialog
    <2> HIDE DEF Fine
    <2>3. QED
      BY <1>3, <1>7, <1>8, <1>9, <1>10, <1>11, <1>12, <2>1, <2>2 DEF Next
  <1>14. QED
    BY <1>1, <1>13

-----------------------------------------------------------------------------
\* Permission to close.

\* It is given only to the close that comes next, and never kept.
Clear == allowing \intersect bound \subseteq closed
Permitted ==
  \A w \in allowing \intersect bound :
    w \in closed \/ (stack # <<>> /\ Top.op = "close" /\ Top.who = w)

\* No step but settle's leaves permission behind.
LEMMA NothingKept ==
  ASSUME Permitted, Next, ~SettleAllowed
  PROVE  Clear'
  <1> USE DEF Permitted, Clear
  <1>1. ASSUME NEW w \in Windows,
               ClosePermitted(w) \/ CloseUnasked(w) \/ CloseAsks(w) \/ CloseRefused(w)
        PROVE  Clear'
    BY <1>1 DEF ClosePermitted, CloseUnasked, CloseAsks, CloseRefused, Consulting, Attempting
  <1>2. CASE CloseAgain
    BY <1>2 DEF CloseAgain
  <1>3. ASSUME stack # <<>> => Top.op # "close",
               allowing' = allowing, bound' \subseteq bound, closed \subseteq closed'
        PROVE  Clear'
    BY <1>3
  <1>4. CASE CloseChildren \/ CloseHappens \/ ForgetWindow \/ SettleReports \/ SettleRefused
             \/ Unanswered
    BY <1>3, <1>4 DEF CloseChildren, CloseHappens, ForgetWindow, SettleReports, SettleRefused,
       Unanswered
  <1>5. CASE \/ CloseDecided("decidedClosed", "resume") \/ CloseDecided("decidedOpen", "abandon")
             \/ ResumeQuits \/ AbandonQuits \/ SweepBegins
             \/ SweepCloses("sweepApp") \/ SweepCloses("sweep")
    BY <1>3, <1>5 DEF CloseDecided, ResumeQuits, AbandonQuits, SweepBegins, SweepCloses
  <1>6. CASE \/ QuitAppStops \/ QuitStops \/ QuitAppDone \/ QuitDone
             \/ TeardownSettles \/ TeardownCloses \/ TeardownRemoves
    BY <1>3, <1>6 DEF QuitAppStops, QuitStops, QuitAppDone, QuitDone, TeardownSettles,
       TeardownCloses, TeardownRemoves
  <1>7. CASE ThreadStep
    BY <1>1, <1>2, <1>4, <1>5, <1>6, <1>7 DEF ThreadStep
  <1>8. CASE Next /\ ~ThreadStep
    <2>1. stack = <<>> /\ allowing' = allowing /\ bound' \subseteq bound /\ closed' = closed
      BY <1>8 DEF Next, CloseWindow, QuitDesktop, QuitApplication, AnswerClose, KeepAsking,
         DestroyWindow, Subscribe, DeadlinePasses, DeadlineArrives, Disconnect, PersonAnswers,
         PersonClosesDialog, Ready, Idle
    <2>2. QED
      BY <1>3, <2>1
  <1>9. QED
    BY <1>7, <1>8

\* What leave there is goes to the close on top.
LEMMA PermittedStep ==
  ASSUME Typed, Permitted, [Next]_vars
  PROVE  Permitted'
  <1>1. CASE Next /\ ~SettleAllowed
    BY <1>1, NothingKept DEF Permitted, Clear
  <1>2. CASE SettleAllowed
    <2>1. stack' # <<>> /\ Top' = Frame("close", Top.who)
      BY <1>2, SettleAllowedDoes DEF Replaces
    <2>2. QED
      BY <1>2, <2>1 DEF Permitted, SettleAllowed, Frame
  <1>3. CASE UNCHANGED vars
    BY <1>3 DEF Permitted, Top
  <1>4. QED
    BY <1>1, <1>2, <1>3

\* So it is always.
LEMMA AlwaysPermitted == Spec => []Permitted
  <1>1. Init => Permitted
    BY DEF Init, Permitted
  <1>2. QED
    BY <1>1, PermittedStep, AlwaysTyped, PTL DEF Spec

\* window_protocol.go settle, window.go attemptClose: permission to close is for one close.
THEOREM PermissionIsForOneClose == Spec => []NoStandingPermission
  <1>1. Permitted => NoStandingPermission
    BY DEF Permitted, NoStandingPermission, Idle
  <1>2. QED
    BY <1>1, AlwaysPermitted, PTL

-----------------------------------------------------------------------------
\* Leave to close.

Leave(w) == cause.kind \in {"allowed", "forced"} /\ cause.who = w
Heeds(w) == w \in bound /\ Listening(w) => Leave(w)

\* Of a window whose application listens, only the call that began with leave to
\* close it gets past the question.
Leaves ==
  /\ \A f \in In(stack) : f.op \in {"children", "closed"} => Heeds(f.who)
  /\ \A f \in In(stack) : f.op = "allow" => Leave(f.who)
  /\ \A w \in allowing \intersect bound : w \in closed \/ Leave(w)

\* A step within a call: who listens stays.
LEMMA StaysHeeded ==
  ASSUME ThreadStep
  PROVE  bound' = bound /\ gone' = gone /\ listening' = listening
  BY DEF ThreadStep, CloseAgain, ClosePermitted, CloseUnasked, CloseAsks, CloseRefused,
     CloseChildren, CloseHappens, ForgetWindow, SettleAllowed, SettleReports,
     SettleRefused, Unanswered, CloseDecided, ResumeQuits, AbandonQuits, SweepBegins,
     SweepCloses, QuitAppStops, QuitStops, QuitAppDone, QuitDone, TeardownSettles, TeardownCloses,
     TeardownRemoves, D!Ask, D!SettleHeld, D!Settle

\* What it puts there decides what Leaves asks of it.
LEMMA LeavesKept ==
  ASSUME Typed, Leaves, Permitted', ThreadStep, NEW F, Becomes(F),
         closed \subseteq closed', allowing' \subseteq allowing,
         \A f \in F : f.op # "allow" /\ (f.op \in {"children", "closed"} => Heeds(f.who))
  PROVE  Leaves'
  <1>1. CASE stack' = <<>>
    <2>1. In(stack') = {}
      BY <1>1, InEmpty
    <2>2. QED
      BY <1>1, <2>1 DEF Leaves, Permitted
  <1>2. CASE stack' # <<>>
    <2>1. \A w : (Heeds(w)' <=> Heeds(w)) /\ (Leave(w)' <=> Leave(w))
      BY <1>2, StaysHeeded DEF Heeds, Listening, Leave, Becomes
    <2>2. In(stack') = F \union Below /\ In(stack) = {Top} \union Below
      BY DEF Becomes
    <2>3. \A f \in In(stack') : f \in F \/ f \in In(stack)
      BY <2>2
    <2>4. bound' = bound
      BY StaysHeeded
    <2>5. QED
      BY <2>1, <2>3, <2>4 DEF Leaves
  <1>3. QED
    BY <1>1, <1>2

\* A step within a call keeps Leaves: settle's leave is for its cause.
LEMMA ThreadLeaves ==
  ASSUME Typed, Leaves, Permitted', ThreadStep
  PROVE  Leaves'
  <1> USE DEF Is
  <1>1. stack # <<>> /\ Top \in In(stack)
    BY Busy
  <1>2. CASE \/ CloseAgain \/ (\E w \in Windows : CloseAsks(w) \/ CloseRefused(w)) \/ ForgetWindow
             \/ AbandonQuits \/ QuitAppStops \/ QuitStops \/ QuitAppDone \/ QuitDone
             \/ TeardownRemoves
    <2>1. closed' = closed /\ allowing' = allowing
      BY <1>2 DEF CloseAgain, CloseAsks, CloseRefused, ForgetWindow, AbandonQuits, QuitAppStops,
         QuitStops, QuitAppDone, QuitDone, TeardownRemoves
    <2>2. QED
      BY <1>2, <2>1, BringsNothing, LeavesKept
  <1>3. ASSUME NEW w \in Windows, ClosePermitted(w) \/ CloseUnasked(w)
        PROVE  Leaves'
    <2>1. Heeds(w) /\ closed' = closed /\ allowing' \subseteq allowing
      BY <1>3 DEF ClosePermitted, CloseUnasked, Attempting, Leaves, Heeds
    <2>2. PICK f : Becomes({f}) /\ Is(f, "children", w)
      BY <1>3, OpeningBrings
    <2>3. QED
      BY <2>1, <2>2, LeavesKept
  <1>4. CASE CloseChildren
    <2>1. Heeds(Top.who) /\ closed' = closed /\ allowing' = allowing
      BY <1>1, <1>4 DEF CloseChildren, Leaves
    <2>2. QED
      BY <1>4, <2>1, ChildrenBring, LeavesKept
  <1>5. CASE CloseHappens
    <2>1. closed \subseteq closed' /\ allowing' = allowing
      BY <1>5 DEF CloseHappens
    <2>2. QED
      BY <1>5, <2>1, ClosedBrings, LeavesKept
  <1>6. CASE SettleAllowed
    <2>1. Top.op = "allow" /\ closed' = closed /\ allowing' = allowing \union {Top.who}
      BY <1>6 DEF SettleAllowed
    <2>2. Leave(Top.who)
      BY <1>1, <2>1 DEF Leaves
    <2>3. /\ cause' = cause
          /\ \A h \in In(stack') : h.op \in {"close", "closing"} \/ h \in In(stack)
      BY <1>6, AllowedBrings DEF Becomes
    <2>4. \A w : (Heeds(w)' <=> Heeds(w)) /\ (Leave(w)' <=> Leave(w))
      BY <2>3, StaysHeeded DEF Heeds, Listening, Leave
    <2>5. QED
      BY <2>1, <2>2, <2>3, <2>4, StaysHeeded DEF Leaves
  <1>7. CASE SettleReports \/ SettleRefused \/ Unanswered
    <2>1. closed' = closed /\ allowing' = allowing
      BY <1>7 DEF SettleReports, SettleRefused, Unanswered
    <2>2. QED
      BY <1>7, <2>1, ReportBrings, UnansweredBrings, LeavesKept
  <1>8. ASSUME NEW op \in {"decidedClosed", "decidedOpen"}, NEW next \in {"resume", "abandon"},
               CloseDecided(op, next)
        PROVE  Leaves'
    <2>1. PICK F : Becomes(F) /\ \A f \in F : f.op \in {"refuse", next}
      BY <1>8, DecidedBrings DEF WindowOps
    <2>2. QED
      BY <1>8, <2>1, LeavesKept DEF CloseDecided
  <1>9. CASE ResumeQuits
    <2>1. PICK F : Becomes(F) /\ \A f \in F : f.op \in {"quitApp", "quit"}
      BY <1>9, ResumeBrings
    <2>2. QED
      BY <1>9, <2>1, LeavesKept DEF ResumeQuits
  <1>10. CASE SweepBegins \/ SweepCloses("sweepApp") \/ SweepCloses("sweep")
    <2>1. closed' = closed /\ allowing' = allowing
      BY <1>10 DEF SweepBegins, SweepCloses
    <2>2. QED
      BY <1>10, <2>1, SweepBrings, LeavesKept
  <1>11. CASE TeardownSettles \/ TeardownCloses
    <2>1. closed' = closed /\ allowing' = allowing
      BY <1>11 DEF TeardownSettles, TeardownCloses
    <2>2. QED
      BY <1>11, <2>1, TeardownBrings, LeavesKept
  <1>12. QED
    BY <1>2, <1>3, <1>4, <1>5, <1>6, <1>7, <1>8, <1>9, <1>10, <1>11 DEF ThreadStep

\* So it is always.
LEMMA AlwaysLeaves == Spec => []Leaves
  <1>1. Init => Leaves
    BY InEmpty DEF Init, Leaves
  <1>2. Typed /\ Permitted /\ Permitted' /\ Leaves /\ [Next]_vars => Leaves'
    <2> SUFFICES ASSUME Typed, Permitted, Permitted', Leaves, [Next]_vars PROVE Leaves'
      OBVIOUS
    <2>1. CASE UNCHANGED vars
      BY <2>1 DEF Leaves, Heeds, Listening, Leave, In
    <2>2. CASE Next /\ ~ThreadStep
      <3>1. \A w \in allowing' \intersect bound' : w \in closed'
        BY <2>2, Starts DEF Permitted
      <3>2. \A f \in In(stack') : f.op \notin {"children", "closed"} /\ (f.op = "allow" => Leave(f.who)')
        BY <2>2, Starts DEF Leave
      <3>3. QED
        BY <3>1, <3>2 DEF Leaves
    <2>3. QED
      BY <2>1, <2>2, ThreadLeaves
  <1>3. QED
    BY <1>1, <1>2, AlwaysTyped, AlwaysPermitted, PTL DEF Spec

\* What closes had leave to.
LEMMA ClosesWithLeave ==
  ASSUME Typed, Leaves, Next, NEW w \in closed' \ closed
  PROVE  Heeds(w)
  <1>1. CASE ThreadStep
    <2>1. CloseHappens /\ w = Top.who
      BY <1>1 DEF ThreadStep, CloseAgain, ClosePermitted, CloseUnasked, CloseAsks, CloseRefused,
       CloseChildren, CloseHappens, ForgetWindow, SettleAllowed, SettleReports,
       SettleRefused, Unanswered, CloseDecided, ResumeQuits, AbandonQuits, SweepBegins,
       SweepCloses, QuitAppStops, QuitStops, QuitAppDone, QuitDone, TeardownSettles,
       TeardownCloses, TeardownRemoves
    <2>2. Top \in In(stack) /\ Top.op = "closed"
      BY <1>1, <2>1, Busy DEF CloseHappens
    <2>3. QED
      BY <2>1, <2>2 DEF Leaves
  <1>2. CASE ~ThreadStep
    BY <1>2, Starts
  <1>3. QED
    BY <1>1, <1>2

\* window.go attemptClose: an application that listens is heard: a
\* window of its own closes only while the thread handles an allow about THAT
\* window, or the person's forcing it.
THEOREM ListenersAreHeard == Spec => ClosedByLeave
  <1>1. Typed /\ Leaves /\ [Next]_vars =>
          [\A w \in closed' \ closed :
             w \in bound /\ Listening(w) =>
               cause.kind \in {"allowed", "forced"} /\ cause.who = w]_vars
    BY ClosesWithLeave DEF Heeds, Leave
  <1>2. QED
    BY <1>1, AlwaysTyped, AlwaysLeaves, PTL DEF Spec, ClosedByLeave

-----------------------------------------------------------------------------
\* A refusal.

\* Handling one, the thread has nothing to do but end it.
Refusing ==
  cause.kind \in {"denied", "notForced"} =>
    \A f \in In(stack) : f.op \in {"refuse", "decidedOpen", "abandon"}

\* All there is to do of a refusal.
LEMMA RefusingGoesOn ==
  ASSUME Typed, Refusing, ThreadStep, cause.kind \in {"denied", "notForced"}
  PROVE  \/ SettleRefused \/ CloseDecided("decidedOpen", "abandon") \/ AbandonQuits
  <1>1. Top.op \in {"refuse", "decidedOpen", "abandon"}
    BY Busy DEF Refusing
  <1>2. QED
    BY <1>1 DEF ThreadStep, CloseAgain, ClosePermitted, CloseUnasked, CloseAsks, CloseRefused,
       Consulting, Attempting,
       CloseChildren, CloseHappens, ForgetWindow, SettleAllowed, SettleReports,
       Unanswered, CloseDecided, ResumeQuits, SweepBegins,
       SweepCloses, QuitAppStops, QuitStops, QuitAppDone, QuitDone, TeardownSettles,
       TeardownCloses, TeardownRemoves

\* It stays all there is.
LEMMA RefusingKept ==
  ASSUME Typed, Refusing, Next
  PROVE  Refusing'
  <1>1. CASE ~ThreadStep
    BY <1>1, Starts DEF Refusing
  <1>2. ASSUME ThreadStep, cause'.kind \in {"denied", "notForced"}
        PROVE  \A f \in In(stack') : f.op \in {"refuse", "decidedOpen", "abandon"}
    <2>1. stack # <<>>
      BY <1>2, Busy
    <2>2. ASSUME NEW F, Becomes(F),
                 cause' = cause => \A f \in F : f.op \in {"refuse", "decidedOpen", "abandon"}
          PROVE  \A f \in In(stack') : f.op \in {"refuse", "decidedOpen", "abandon"}
      BY <1>2, <2>2, InEmpty DEF Becomes, Refusing, NoCause
    <2>3. cause' = cause
      BY <1>2, ThreadCause DEF NoCause
    <2>4. SettleRefused \/ CloseDecided("decidedOpen", "abandon") \/ AbandonQuits
      BY <1>2, <2>3, RefusingGoesOn
    <2>5. CASE SettleRefused
      BY <2>2, <2>5, ReportBrings DEF Is
    <2>6. CASE CloseDecided("decidedOpen", "abandon")
      <3>1. PICK F : Becomes(F) /\ \A f \in F : f.op \in {"refuse", "abandon"}
        BY <2>6, DecidedBrings DEF Is, WindowOps
      <3>2. QED
        BY <2>2, <3>1
    <2>7. CASE AbandonQuits
      BY <2>2, <2>7, BringsNothing
    <2>8. QED
      BY <2>4, <2>5, <2>6, <2>7
  <1>3. QED
    BY <1>1, <1>2 DEF Refusing

\* So it is always.
LEMMA AlwaysRefusing == Spec => []Refusing
  <1>1. Init => Refusing
    BY InEmpty DEF Init, Refusing
  <1>2. Typed /\ Refusing /\ [Next]_vars => Refusing'
    BY RefusingKept DEF Refusing, In
  <1>3. QED
    BY <1>1, <1>2, AlwaysTyped, PTL DEF Spec

\* window_protocol.go settle, desktop.go CloseDecided: a refusal is final:
\* handling one closes no window, and leaves no quit of the desktop waiting.
THEOREM NoIsFinal == Spec => RefusalIsFinal
  <1>1. ASSUME Typed, Refusing, Next, cause.kind \in {"denied", "notForced"}
        PROVE  closed' = closed /\ exited' = exited /\ (Idle' => ~quitWanted')
    <2>1. CASE ~ThreadStep
      BY <1>1, <2>1, Starts DEF Typed, Resting, NoCause
    <2>2. CASE AbandonQuits
      BY <2>2 DEF AbandonQuits
    <2>3. CASE SettleRefused
      <3>1. stack' # <<>>
        BY <1>1, <2>3, SettleRefusedDoes DEF Replaces
      <3>2. QED
        BY <2>3, <3>1 DEF SettleRefused, Idle
    <2>4. CASE CloseDecided("decidedOpen", "abandon")
      <3>1. stack' # <<>>
        BY <1>1, <2>4, CloseDecidedDoes DEF Replaces, WindowOps
      <3>2. QED
        BY <2>4, <3>1 DEF CloseDecided, Idle
    <2>5. QED
      BY <1>1, <2>1, <2>2, <2>3, <2>4, RefusingGoesOn
  <1>2. Typed /\ Refusing /\ [Next]_vars =>
          [cause.kind \in {"denied", "notForced"} =>
             /\ closed' = closed
             /\ exited' = exited
             /\ Idle' => ~quitWanted']_vars
    BY <1>1
  <1>3. QED
    BY <1>2, AlwaysTyped, AlwaysRefusing, PTL DEF Spec, RefusalIsFinal

-----------------------------------------------------------------------------
\* What a quit waits on.

\* A window that has closed is not being decided.
Undecided == deciding \intersect closed = {}

\* So it is always.
LEMMA AlwaysUndecided == Spec => []Undecided
  <1>1. Init => Undecided
    BY DEF Init, Undecided
  <1>2. Typed /\ Undecided /\ [Next]_vars => Undecided'
    <2> SUFFICES ASSUME Typed, Undecided, [Next]_vars PROVE Undecided'
      OBVIOUS
    <2> USE DEF Undecided
    <2>1. CASE UNCHANGED vars \/ (Next /\ ~ThreadStep)
      BY <2>1, Starts
    <2>2. ASSUME NEW w \in Windows,
                 ClosePermitted(w) \/ CloseUnasked(w) \/ CloseAsks(w) \/ CloseRefused(w)
          PROVE  Undecided'
      BY <2>2 DEF ClosePermitted, CloseUnasked, CloseAsks, CloseRefused, Consulting, Attempting
    <2>3. CASE CloseHappens
      BY <2>3 DEF CloseHappens
    <2>4. CASE ThreadStep
      BY <2>2, <2>3, <2>4 DEF ThreadStep, CloseAgain, CloseChildren, ForgetWindow, SettleAllowed,
         SettleReports, SettleRefused, Unanswered, CloseDecided, ResumeQuits, AbandonQuits,
         SweepBegins, SweepCloses, QuitAppStops, QuitStops, QuitAppDone, QuitDone,
         TeardownSettles, TeardownCloses, TeardownRemoves
    <2>5. QED
      BY <2>1, <2>4
  <1>3. QED
    BY <1>1, <1>2, AlwaysTyped, PTL DEF Spec

\* A quit the desktop remembers is waiting for an answer, or the thread has yet
\* to come to it.
Coming == {"closing", "decidedClosed", "decidedOpen", "resume", "abandon", "quit", "sweep"}

Pending ==
  quitWanted /\ ~exited => deciding # {} \/ \E f \in In(stack) : f.op \in Coming

\* A step that settles no question, or leaves the thread to come to the quit.
LEMMA PendingKept ==
  ASSUME Pending, NEW F, Becomes(F), quitWanted' => quitWanted, exited => exited',
         deciding \subseteq deciding' \/ \E f \in F : f.op \in Coming,
         Top.op \in Coming => ~quitWanted' \/ \E f \in F : f.op \in Coming
  PROVE  Pending'
  BY DEF Pending, Becomes

\* Every step within a call is one of those.
LEMMA ThreadPends == ASSUME Typed, Pending, ThreadStep PROVE Pending'
  <1> USE DEF Is, Coming
  <1>1. CASE \/ CloseAgain \/ (\E w \in Windows : CloseAsks(w) \/ CloseRefused(w)) \/ ForgetWindow
             \/ QuitAppStops \/ QuitAppDone \/ TeardownRemoves
    <2>1. CASE CloseAgain \/ (\E w \in Windows : CloseAsks(w) \/ CloseRefused(w)) \/ ForgetWindow
      <3>1. deciding \subseteq deciding' /\ UNCHANGED quits /\ Top.op \notin Coming
        BY <2>1 DEF CloseAgain, CloseAsks, CloseRefused, Consulting, Attempting, ForgetWindow
      <3>2. QED
        BY <2>1, <3>1, BringsNothing, PendingKept
    <2>2. CASE QuitAppStops \/ QuitAppDone \/ TeardownRemoves
      <3>1. deciding' = deciding /\ quitWanted' = quitWanted /\ Top.op \notin Coming
        BY <2>2 DEF QuitAppStops, QuitAppDone, TeardownRemoves
      <3>2. exited => exited'
        <4>1. CASE QuitAppDone
          BY <4>1 DEF QuitAppDone
        <4>2. CASE QuitAppStops \/ TeardownRemoves
          BY <4>2 DEF QuitAppStops, TeardownRemoves
        <4>3. QED
          BY <2>2, <4>1, <4>2
      <3>3. QED
        BY <2>2, <3>1, <3>2, BringsNothing, PendingKept
    <2>3. QED
      BY <1>1, <2>1, <2>2
  <1>2. CASE AbandonQuits \/ QuitDone \/ QuitStops
    <2>1. CASE QuitStops
      <3>1. (quitWanted' => Top.at \in deciding) /\ deciding' = deciding
        BY <2>1 DEF QuitStops
      <3>2. QED
        BY <3>1 DEF Pending
    <2>2. CASE AbandonQuits \/ QuitDone
      BY <2>2 DEF AbandonQuits, QuitDone, Pending
    <2>3. QED
      BY <1>2, <2>1, <2>2
  <1>3. ASSUME NEW w \in Windows, ClosePermitted(w) \/ CloseUnasked(w)
        PROVE  Pending'
    <2>1. UNCHANGED <<deciding, quits>> /\ Top.op \notin Coming
      BY <1>3 DEF ClosePermitted, CloseUnasked, Attempting
    <2>2. QED
      BY <1>3, <2>1, OpeningBrings, PendingKept
  <1>4. CASE CloseChildren
    <2>1. UNCHANGED <<deciding, quits>> /\ Top.op \notin Coming
      BY <1>4 DEF CloseChildren
    <2>2. QED
      BY <1>4, <2>1, ChildrenBring, PendingKept
  <1>5. CASE CloseHappens
    <2>1. /\ UNCHANGED quits /\ Top.op \notin Coming
          /\ Top.who \notin deciding => deciding' = deciding
      BY <1>5 DEF CloseHappens
    <2>2. CASE Top.who \in deciding
      BY <1>5, <2>1, <2>2, ClosedBrings, PendingKept
    <2>3. CASE Top.who \notin deciding
      BY <1>5, <2>1, <2>3, ClosedBrings, PendingKept
    <2>4. QED
      BY <2>2, <2>3
  <1>6. CASE SettleAllowed
    <2>1. UNCHANGED quits
      BY <1>6 DEF SettleAllowed
    <2>2. QED
      BY <1>6, <2>1, AllowedBrings, PendingKept
  <1>7. CASE SettleReports \/ SettleRefused
    <2>1. UNCHANGED quits
      BY <1>7 DEF SettleReports, SettleRefused
    <2>2. QED
      BY <1>7, <2>1, ReportBrings, PendingKept
  <1>8. CASE Unanswered
    <2>1. UNCHANGED <<deciding, quits>> /\ Top.op \notin Coming
      BY <1>8 DEF Unanswered
    <2>2. QED
      BY <1>8, <2>1, UnansweredBrings, PendingKept
  <1>9. ASSUME NEW op \in {"decidedClosed", "decidedOpen"}, NEW next \in {"resume", "abandon"},
               CloseDecided(op, next)
        PROVE  Pending'
    <2>1. UNCHANGED <<deciding, quits>>
      BY <1>9 DEF CloseDecided
    <2>2. PICK F : Becomes(F) /\ \E f \in F : f.op = next
      BY <1>9, DecidedBrings DEF WindowOps
    <2>3. QED
      BY <2>1, <2>2, PendingKept
  <1>10. CASE ResumeQuits
    <2>1. UNCHANGED <<deciding, quits>>
      BY <1>10 DEF ResumeQuits
    <2>2. PICK F : Becomes(F) /\ (quitWanted => \E f \in F : f.op = "quit")
      BY <1>10, ResumeBrings
    <2>3. QED
      BY <2>1, <2>2, PendingKept
  <1>11. CASE SweepBegins \/ SweepCloses("sweepApp") \/ SweepCloses("sweep")
    <2>1. UNCHANGED <<deciding, quits>>
      BY <1>11 DEF SweepBegins, SweepCloses
    <2>2. QED
      BY <1>11, <2>1, SweepBrings, PendingKept
  <1>12. CASE TeardownSettles \/ TeardownCloses
    <2>1. UNCHANGED <<deciding, quits>> /\ Top.op \notin Coming
      BY <1>12 DEF TeardownSettles, TeardownCloses
    <2>2. QED
      BY <1>12, <2>1, TeardownBrings, PendingKept
  <1>13. QED
    BY <1>1, <1>2, <1>3, <1>4, <1>5, <1>6, <1>7, <1>8, <1>9, <1>10, <1>11, <1>12 DEF ThreadStep

\* So it is always.
LEMMA AlwaysPending == Spec => []Pending
  <1>1. Init => Pending
    BY DEF Init, Pending
  <1>2. Typed /\ Pending /\ [Next]_vars => Pending'
    <2> SUFFICES ASSUME Typed, Pending, [Next]_vars PROVE Pending'
      OBVIOUS
    <2>1. CASE UNCHANGED vars
      BY <2>1 DEF Pending, In
    <2>2. CASE Next /\ ~ThreadStep
      BY <2>2, Starts, InEmpty DEF Pending
    <2>3. QED
      BY <2>1, <2>2, ThreadPends
  <1>3. QED
    BY <1>1, <1>2, AlwaysTyped, PTL DEF Spec

\* desktop.go QuitWithCode: a quit that waits waits for something that will
\* come: some window still open is being decided.
THEOREM QuitIsAwaited == Spec => []QuitWaitsOnSomebody
  <1>1. Undecided /\ Pending => QuitWaitsOnSomebody
    BY InEmpty DEF Undecided, Pending, QuitWaitsOnSomebody, Idle
  <1>2. QED
    BY <1>1, AlwaysUndecided, AlwaysPending, PTL

-----------------------------------------------------------------------------
\* Who is being asked about a window.

\* Somebody is, or the thread has the answer in hand.
InHand == {"unanswered", "refuse", "allow"}

AskedOf(w) ==
  \/ \E d \in open : about[d] = w
  \/ w \in forceClose /\ waiters[w] > 0
  \/ \E f \in In(stack) : f.op \in InHand /\ f.who = w

EveryoneAsked == \A w \in deciding : AskedOf(w)

\* A step that asks nobody less, or takes the answer further.
LEMMA AskedKept ==
  ASSUME EveryoneAsked, NEW F, Becomes(F), UNCHANGED <<open, about, dialogs>>,
         deciding' \subseteq deciding,
         Top.op \in InHand =>
           Top.who \notin deciding' \/ \E f \in F : f.op \in InHand /\ f.who = Top.who
  PROVE  EveryoneAsked'
  <1> SUFFICES ASSUME NEW w \in deciding' PROVE AskedOf(w)'
    BY DEF EveryoneAsked
  <1>1. AskedOf(w)
    BY DEF EveryoneAsked
  <1>2. CASE (\E d \in open : about[d] = w) \/ (w \in forceClose /\ waiters[w] > 0)
    BY <1>2 DEF AskedOf
  <1>3. ASSUME NEW f \in In(stack), f.op \in InHand, f.who = w PROVE AskedOf(w)'
    <2>1. f = Top \/ f \in In(stack')
      BY DEF Becomes
    <2>2. CASE f = Top
      BY <1>3, <2>2 DEF AskedOf, Becomes
    <2>3. QED
      BY <1>3, <2>1, <2>2 DEF AskedOf
  <1>4. QED
    BY <1>1, <1>2, <1>3 DEF AskedOf

\* Every step within a call is one of those, or asks.
LEMMA ThreadAsks == ASSUME Typed, EveryoneAsked, ThreadStep PROVE EveryoneAsked'
  <1> USE DEF Is, InHand
  <1>1. stack # <<>> /\ In(stack) = {Top} \union Below
    BY Busy, TopIs DEF Typed
  <1>2. CASE \/ CloseAgain \/ (\E w \in Windows : CloseRefused(w)) \/ ForgetWindow
             \/ AbandonQuits \/ QuitAppStops \/ QuitStops \/ QuitAppDone \/ QuitDone
             \/ TeardownRemoves
    <2>1. UNCHANGED <<open, about, dialogs>> /\ deciding' = deciding /\ Top.op \notin InHand
      BY <1>2 DEF CloseAgain, CloseRefused, Consulting, Attempting, ForgetWindow, AbandonQuits,
         QuitAppStops, QuitStops, QuitAppDone, QuitDone, TeardownRemoves
    <2>2. Becomes({})
      BY <1>2, BringsNothing
    <2>3. QED
      BY <2>1, <2>2, AskedKept
  <1>3. ASSUME NEW v \in Windows, CloseAsks(v)
        PROVE  EveryoneAsked'
    <2>1. PICK d \in Ids : D!Ask(d, Owner[v], TRUE) /\ about' = [about EXCEPT ![d] = v]
      BY <1>3 DEF CloseAsks
    <2>2. /\ open' = open \union {d} /\ d \notin open
          /\ about \in [Ids -> Windows \union {Nobody}] /\ open \subseteq Ids
      BY <2>1 DEF D!Ask, Typed, TypeOK, DP!IInv, DP!TypeOK, DP!Consistent
    <2>3. /\ UNCHANGED dialogs /\ deciding' = deciding \union {v} /\ Top.op \notin InHand
      BY <1>3 DEF CloseAsks, Consulting, Attempting
    <2>4. In(stack') = Below
      BY <1>3, BringsNothing DEF Becomes
    <2>5. ASSUME NEW w \in deciding, AskedOf(w) PROVE AskedOf(w)'
      <3>1. CASE \E e \in open : about[e] = w
        BY <2>1, <2>2, <3>1 DEF AskedOf
      <3>2. CASE w \in forceClose /\ waiters[w] > 0
        BY <2>3, <3>2 DEF AskedOf
      <3>3. CASE \E f \in In(stack) : f.op \in InHand /\ f.who = w
        BY <1>1, <2>3, <2>4, <3>3 DEF AskedOf
      <3>4. QED
        BY <2>5, <3>1, <3>2, <3>3 DEF AskedOf
    <2>6. AskedOf(v)'
      BY <2>1, <2>2 DEF AskedOf
    <2>7. QED
      BY <2>3, <2>5, <2>6 DEF EveryoneAsked
  <1>4. ASSUME NEW w \in Windows, ClosePermitted(w) \/ CloseUnasked(w)
        PROVE  EveryoneAsked'
    <2>1. UNCHANGED <<open, about, dialogs>> /\ deciding' = deciding /\ Top.op \notin InHand
      BY <1>4 DEF ClosePermitted, CloseUnasked, Attempting
    <2>2. QED
      BY <1>4, <2>1, OpeningBrings, AskedKept
  <1>5. CASE CloseChildren
    <2>1. UNCHANGED <<open, about, dialogs>> /\ deciding' = deciding /\ Top.op \notin InHand
      BY <1>5 DEF CloseChildren
    <2>2. QED
      BY <1>5, <2>1, ChildrenBring, AskedKept
  <1>6. CASE CloseHappens
    <2>1. UNCHANGED <<open, about, dialogs>> /\ deciding' \subseteq deciding /\ Top.op \notin InHand
      BY <1>6 DEF CloseHappens
    <2>2. QED
      BY <1>6, <2>1, ClosedBrings, AskedKept
  <1>7. CASE SettleAllowed
    <2>1. /\ UNCHANGED <<open, about, dialogs>> /\ deciding' \subseteq deciding
          /\ Top.who \notin deciding'
      BY <1>7 DEF SettleAllowed
    <2>2. QED
      BY <1>7, <2>1, AllowedBrings, AskedKept
  <1>8. CASE SettleReports
    <2>1. UNCHANGED <<open, about, dialogs>> /\ deciding' = deciding /\ Top.op \notin InHand
      BY <1>8 DEF SettleReports
    <2>2. QED
      BY <1>8, <2>1, ReportBrings, AskedKept
  <1>9. CASE SettleRefused
    <2>1. /\ UNCHANGED <<open, about, dialogs>> /\ deciding' \subseteq deciding
          /\ Top.who \notin deciding'
      BY <1>9 DEF SettleRefused
    <2>2. QED
      BY <1>9, <2>1, ReportBrings, AskedKept
  <1>10. CASE Unanswered
    <2>1. UNCHANGED <<open, about>> /\ deciding' = deciding
      BY <1>10 DEF Unanswered
    <2>2. CASE UNCHANGED dialogs /\ \E f : Becomes({f}) /\ Is(f, "refuse", Top.who)
      <3>1. PICK f : Becomes({f}) /\ Is(f, "refuse", Top.who)
        BY <2>2
      <3>2. \E g \in {f} : g.op \in InHand /\ g.who = Top.who
        BY <3>1
      <3>3. QED
        BY <2>1, <2>2, <3>1, <3>2, AskedKept
    <2>3. CASE Owner[Top.who] \notin gone /\ Becomes({})
      <3>1. /\ waiters' = [waiters EXCEPT ![Top.who] = @ + 1]
            /\ forceClose' = forceClose \union {Top.who}
        BY <1>10, <2>3 DEF Unanswered
      <3>2. Top.who \in Windows /\ waiters \in [Windows -> Nat]
        BY <1>10, UnansweredDoes DEF Typed, TypeOK
      <3>3. forceClose' = forceClose \union {Top.who}
        BY <3>1
      <3>4. waiters'[Top.who] > 0 /\ \A w \in Windows : waiters[w] > 0 => waiters'[w] > 0
        BY <3>1, <3>2
      <3>5. In(stack') = Below
        BY <2>3 DEF Becomes
      <3>6. ASSUME NEW w \in deciding PROVE AskedOf(w)'
        <4>1. AskedOf(w) /\ w \in Windows
          BY <3>6 DEF EveryoneAsked, Typed, TypeOK
        <4>2. CASE w = Top.who
          BY <3>3, <3>4, <4>2 DEF AskedOf
        <4>3. CASE w # Top.who
          <5>1. CASE \E e \in open : about[e] = w
            BY <2>1, <5>1 DEF AskedOf
          <5>2. CASE w \in forceClose /\ waiters[w] > 0
            BY <3>3, <3>4, <4>1, <5>2 DEF AskedOf
          <5>3. CASE \E f \in In(stack) : f.op \in InHand /\ f.who = w
            BY <1>1, <3>5, <4>3, <5>3 DEF AskedOf
          <5>4. QED
            BY <4>1, <5>1, <5>2, <5>3 DEF AskedOf
        <4>4. QED
          BY <4>2, <4>3
      <3>7. QED
        BY <2>1, <3>3, <3>6 DEF EveryoneAsked
    <2>4. QED
      BY <1>10, <2>2, <2>3, UnansweredBrings
  <1>11. ASSUME NEW op \in {"decidedClosed", "decidedOpen"}, NEW next \in {"resume", "abandon"},
                CloseDecided(op, next)
         PROVE  EveryoneAsked'
    <2>1. /\ UNCHANGED <<open, about, deciding>> /\ Top.op \notin InHand
          /\ forceClose' = forceClose \ {Top.who}
          /\ waiters' = [waiters EXCEPT ![Top.who] = 0]
      BY <1>11 DEF CloseDecided
    <2>2. PICK F : /\ Becomes(F)
                   /\ Top.who \in forceClose /\ waiters[Top.who] > 0 =>
                        \E f \in F : f.op = "refuse" /\ f.who = Top.who
      BY <1>11, DecidedBrings DEF WindowOps
    <2>3. In(stack') = F \union Below
      BY <2>2 DEF Becomes
    <2>4. waiters \in [Windows -> Nat] /\ deciding \subseteq Windows
      BY DEF Typed, TypeOK
    <2>5. ASSUME NEW w \in deciding PROVE AskedOf(w)'
      <3>1. AskedOf(w)
        BY <2>5 DEF EveryoneAsked
      <3>2. CASE \E e \in open : about[e] = w
        BY <2>1, <3>2 DEF AskedOf
      <3>3. CASE w \in forceClose /\ waiters[w] > 0 /\ w = Top.who
        BY <2>2, <2>3, <3>3 DEF AskedOf
      <3>4. CASE w \in forceClose /\ waiters[w] > 0 /\ w # Top.who
        BY <2>1, <2>4, <3>4 DEF AskedOf
      <3>5. CASE \E f \in In(stack) : f.op \in InHand /\ f.who = w
        BY <1>1, <2>1, <2>3, <3>5 DEF AskedOf
      <3>6. QED
        BY <3>1, <3>2, <3>3, <3>4, <3>5 DEF AskedOf
    <2>6. QED
      BY <2>1, <2>3, <2>5 DEF EveryoneAsked
  <1>12. CASE ResumeQuits
    <2>1. UNCHANGED <<open, about, dialogs>> /\ deciding' = deciding /\ Top.op \notin InHand
      BY <1>12 DEF ResumeQuits
    <2>2. QED
      BY <1>12, <2>1, ResumeBrings, AskedKept
  <1>13. CASE SweepBegins \/ SweepCloses("sweepApp") \/ SweepCloses("sweep") \/ TeardownCloses
    <2>1. UNCHANGED <<open, about, dialogs>> /\ deciding' = deciding /\ Top.op \notin InHand
      BY <1>13 DEF SweepBegins, SweepCloses, TeardownCloses
    <2>2. CASE TeardownCloses
      <3>1. PICK w \in Top.todo :
              LET f == Frame("close", w)
                  g == SweepFrame("teardown", Top.who, Nobody, Top.todo \ {w})
              IN  Replaces(f, {f, g}, {g})
        BY <2>2, TeardownClosesDoes
      <3>2. QED
        BY <1>1, <2>1, <3>1, BecomesOf, AskedKept
    <2>3. QED
      BY <1>13, <2>1, <2>2, SweepBrings, AskedKept
  <1>14. CASE TeardownSettles
    <2>1. UNCHANGED <<about, dialogs>> /\ deciding' = deciding /\ Top.op \notin InHand
      BY <1>14 DEF TeardownSettles
    <2>2. ASSUME NEW d, open' = open \ {d}, Top \in In(stack'), Below \subseteq In(stack'),
                 about[d] \notin deciding \/ \E f \in In(stack') : Is(f, "unanswered", about[d])
          PROVE  EveryoneAsked'
      <3>1. ASSUME NEW w \in deciding PROVE AskedOf(w)'
        <4>1. AskedOf(w)
          BY <3>1 DEF EveryoneAsked
        <4>2. CASE \E e \in open : about[e] = w
          BY <2>1, <2>2, <4>2 DEF AskedOf
        <4>3. CASE w \in forceClose /\ waiters[w] > 0
          BY <2>1, <4>3 DEF AskedOf
        <4>4. CASE \E f \in In(stack) : f.op \in InHand /\ f.who = w
          BY <1>1, <2>2, <4>4 DEF AskedOf
        <4>5. QED
          BY <4>1, <4>2, <4>3, <4>4 DEF AskedOf
      <3>2. QED
        BY <2>1, <3>1 DEF EveryoneAsked
    <2>3. ASSUME NEW d \in open, D!SettleHeld(d) PROVE open' = open \ {d}
      BY <2>3 DEF D!SettleHeld, D!Settle
    <2>4. CASE Becomes({Top}) /\ \E d \in open : D!SettleHeld(d) /\ about[d] \notin deciding
      BY <2>2, <2>3, <2>4 DEF Becomes
    <2>5. CASE \E d \in open : /\ D!SettleHeld(d) /\ about[d] \in deciding
                               /\ \E f : Becomes({f, Top}) /\ Is(f, "unanswered", about[d])
      <3>1. PICK d, f : /\ d \in open /\ D!SettleHeld(d)
                        /\ Becomes({f, Top}) /\ Is(f, "unanswered", about[d])
        BY <2>5
      <3>2. f \in In(stack') /\ Top \in In(stack') /\ Below \subseteq In(stack')
        BY <3>1 DEF Becomes
      <3>3. QED
        BY <2>2, <2>3, <3>1, <3>2
    <2>6. ASSUME UNCHANGED questions, NEW F, Becomes(F) PROVE EveryoneAsked'
      BY <2>1, <2>6, AskedKept
    <2>7. QED
      BY <1>14, <2>4, <2>5, <2>6, TeardownBrings
  <1>15. QED
    BY <1>2, <1>3, <1>4, <1>5, <1>6, <1>7, <1>8, <1>9, <1>10, <1>11, <1>12, <1>13, <1>14
    DEF ThreadStep

\* What the thread takes up settles one question at most, and goes on to say so.
LEMMA AskedSettled ==
  ASSUME EveryoneAsked, stack = <<>>, NEW d, open \ {d} \subseteq open',
         UNCHANGED <<about, deciding, forceClose, waiters>>,
         d \in open \ open' =>
           \/ about[d] \notin deciding
           \/ \E f \in In(stack') : f.op \in InHand /\ f.who = about[d]
  PROVE  EveryoneAsked'
  <1>1. ASSUME NEW w \in deciding PROVE AskedOf(w)'
    <2>1. AskedOf(w) /\ In(stack) = {}
      BY <1>1, InEmpty DEF EveryoneAsked
    <2>2. CASE \E e \in open : about[e] = w
      BY <2>2 DEF AskedOf
    <2>3. CASE w \in forceClose /\ waiters[w] > 0
      BY <2>3 DEF AskedOf
    <2>4. QED
      BY <2>1, <2>2, <2>3 DEF AskedOf
  <1>2. QED
    BY <1>1 DEF EveryoneAsked

\* So is what the thread takes up.
LEMMA StartAsks ==
  ASSUME Typed, EveryoneAsked, Next, ~ThreadStep
  PROVE  EveryoneAsked'
  <1>1. stack = <<>>
    BY Starts
  <1>2. \A op, w : Frame(op, w).op = op /\ Frame(op, w).who = w
    BY DEF Frame
  <1>3. ASSUME UNCHANGED <<open, about, deciding, forceClose, waiters>> PROVE EveryoneAsked'
    <2>1. open \ {Nobody} \subseteq open' /\ Nobody \notin open \ open'
      BY <1>3
    <2>2. QED
      BY <1>1, <1>3, <2>1, AskedSettled
  <1>4. ASSUME NEW w \in Windows,
               CloseWindow(w) \/ DestroyWindow(w) \/ Subscribe(w) \/ PersonClosesDialog(w)
        PROVE  EveryoneAsked'
    BY <1>3, <1>4 DEF CloseWindow, DestroyWindow, Subscribe, PersonClosesDialog
  <1>5. ASSUME QuitDesktop \/ \E a \in Apps : QuitApplication(a) \/ Disconnect(a)
        PROVE  EveryoneAsked'
    BY <1>3, <1>5 DEF QuitDesktop, QuitApplication, Disconnect, D!Leave
  <1>6. ASSUME NEW d \in Ids, KeepAsking(d) \/ DeadlinePasses(d)
        PROVE  EveryoneAsked'
    BY <1>3, <1>6 DEF KeepAsking, DeadlinePasses, D!StillAsking, D!TimerFires
  <1>7. ASSUME NEW d \in Ids, NEW v \in {"allowed", "denied"}, AnswerClose(d, v)
        PROVE  EveryoneAsked'
    <2> DEFINE f == Frame(IF v = "allowed" THEN "allow" ELSE "refuse", about[d])
    <2>1. f \in In(stack')
      BY <1>7, AnswerCloseDoes DEF Begun
    <2>2. f.op \in InHand /\ f.who = about[d]
      BY <1>2 DEF InHand
    <2>3. open' = open \ {d} /\ UNCHANGED <<about, deciding, dialogs>>
      BY <1>7 DEF AnswerClose, D!Answer, D!Settle
    <2> HIDE DEF f
    <2>4. QED
      BY <1>1, <2>1, <2>2, <2>3, AskedSettled
  <1>8. ASSUME NEW d \in Ids, NEW n \in 1..MaxWaits, DeadlineArrives(d, n)
        PROVE  EveryoneAsked'
    <2> DEFINE f == Frame("unanswered", about[d])
    <2>1. \/ f \in In(stack')
          \/ d \in open /\ d \notin open' => about[d] \notin deciding
      BY <1>8, DeadlineArrivesDoes DEF Begun
    <2>2. f.op \in InHand /\ f.who = about[d]
      BY <1>2 DEF InHand
    <2>3. /\ UNCHANGED <<about, deciding, dialogs>>
          /\ open' = open \ {d} \/ open' = open
      BY <1>8 DEF DeadlineArrives, D!RanOut, D!Settle
    <2> HIDE DEF f
    <2>4. CASE f \in In(stack') \/ (d \in open /\ d \notin open')
      BY <1>1, <2>1, <2>2, <2>3, <2>4, AskedSettled
    <2>5. CASE ~(d \in open /\ d \notin open')
      <3>1. open' = open
        BY <2>3, <2>5
      <3>2. QED
        BY <1>3, <2>3, <3>1
    <2>6. QED
      BY <2>4, <2>5
  <1>9. ASSUME NEW v \in Windows, NEW yes \in BOOLEAN, PersonAnswers(v, yes)
        PROVE  EveryoneAsked'
    <2> DEFINE f == Frame(IF yes THEN "allow" ELSE "refuse", v)
    <2>1. /\ UNCHANGED <<open, about, deciding>>
          /\ forceClose' = forceClose \ {v}
          /\ waiters' = [waiters EXCEPT ![v] = 0]
      BY <1>9 DEF PersonAnswers
    <2>2. waiters[v] > 0 => f \in In(stack')
      BY <1>9, PersonAnswersDoes DEF Begun
    <2>3. f.op \in InHand /\ f.who = v
      BY <1>2 DEF InHand
    <2> HIDE DEF f
    <2>4. waiters \in [Windows -> Nat] /\ deciding \subseteq Windows /\ In(stack) = {}
      BY <1>1, InEmpty DEF Typed, TypeOK
    <2>5. ASSUME NEW w \in deciding PROVE AskedOf(w)'
      <3>1. AskedOf(w)
        BY DEF EveryoneAsked
      <3>2. CASE \E e \in open : about[e] = w
        BY <2>1, <3>2 DEF AskedOf
      <3>3. CASE w \in forceClose /\ waiters[w] > 0 /\ w = v
        BY <2>2, <2>3, <3>3 DEF AskedOf
      <3>4. CASE w \in forceClose /\ waiters[w] > 0 /\ w # v
        BY <2>1, <2>4, <3>4 DEF AskedOf
      <3>5. QED
        BY <2>4, <3>1, <3>2, <3>3, <3>4 DEF AskedOf
    <2>6. QED
      BY <2>1, <2>5 DEF EveryoneAsked
  <1>10. QED
    BY <1>4, <1>5, <1>6, <1>7, <1>8, <1>9 DEF Next

\* So it is always.
LEMMA AlwaysAsked == Spec => []EveryoneAsked
  <1>1. Init => EveryoneAsked
    BY DEF Init, EveryoneAsked
  <1>2. Typed /\ EveryoneAsked /\ [Next]_vars => EveryoneAsked'
    <2> SUFFICES ASSUME Typed, EveryoneAsked, [Next]_vars
                 PROVE  EveryoneAsked'
      OBVIOUS
    <2>1. CASE UNCHANGED vars
      BY <2>1 DEF EveryoneAsked, AskedOf, In
    <2>2. QED
      BY <2>1, StartAsks, ThreadAsks
  <1>3. QED
    BY <1>1, <1>2, AlwaysTyped, PTL DEF Spec

\* window_protocol.go, desktop.go AskForceClose: a window marked as deciding is
\* one somebody is being asked about, or was, by a dialog closed by its [x].
THEOREM SomebodyIsAsked == Spec => []DecidingIsAsked
  <1>1. EveryoneAsked => DecidingIsAsked
    BY InEmpty DEF EveryoneAsked, AskedOf, DecidingIsAsked, Dismissed, Idle
  <1>2. QED
    BY <1>1, AlwaysAsked, PTL

-----------------------------------------------------------------------------
\* What a dialog is about.

\* The thread hears that nobody said only of a window still undecided, and puts
\* the question to the person before it does anything else.
HeardFirst ==
  /\ \A f \in In(stack) : f.op = "unanswered" => f = Top /\ f.who \in deciding
  /\ \A f \in Below : f.op # "unanswered"

\* What is below is in the stack.
LEMMA BelowIn == ASSUME Stacked' PROVE Below' \subseteq In(stack')
  BY InHeadTail DEF Stacked, Below

\* A step that brings no such call.
LEMMA HeardFirstKept ==
  ASSUME Typed, HeardFirst, NEW F, Becomes(F), \A f \in F : f.op # "unanswered"
  PROVE  HeardFirst'
  <1>1. \A f \in In(stack') : f.op # "unanswered"
    BY DEF Becomes, HeardFirst
  <1>2. Below' \subseteq In(stack')
    <2>1. Stacked'
      BY DEF Becomes
    <2>2. QED
      BY <2>1, BelowIn
  <1>3. QED
    BY <1>1, <1>2 DEF HeardFirst

\* Only the settling of a lost connection's questions does.
LEMMA ThreadHears == ASSUME Typed, HeardFirst, ThreadStep PROVE HeardFirst'
  <1> USE DEF Is
  <1>1. stack # <<>> /\ In(stack) = {Top} \union Below
    BY Busy, TopIs DEF Typed
  <1>2. CASE \/ CloseAgain \/ (\E w \in Windows : CloseAsks(w) \/ CloseRefused(w)) \/ ForgetWindow
             \/ AbandonQuits \/ QuitAppStops \/ QuitStops \/ QuitAppDone \/ QuitDone
             \/ TeardownRemoves
    BY <1>2, BringsNothing, HeardFirstKept
  <1>3. ASSUME NEW w \in Windows, ClosePermitted(w) \/ CloseUnasked(w) PROVE HeardFirst'
    BY <1>3, OpeningBrings, HeardFirstKept
  <1>4. CASE CloseChildren
    BY <1>4, ChildrenBring, HeardFirstKept
  <1>5. CASE CloseHappens
    BY <1>5, ClosedBrings, HeardFirstKept
  <1>6. CASE SettleAllowed
    BY <1>6, AllowedBrings, HeardFirstKept
  <1>7. CASE SettleReports \/ SettleRefused
    BY <1>7, ReportBrings, HeardFirstKept
  <1>8. CASE Unanswered
    BY <1>8, UnansweredBrings, HeardFirstKept
  <1>9. ASSUME NEW op \in {"decidedClosed", "decidedOpen"}, NEW next \in {"resume", "abandon"},
               CloseDecided(op, next)
        PROVE  HeardFirst'
    <2>1. PICK F : Becomes(F) /\ \A f \in F : f.op \in {"refuse", next}
      BY <1>9, DecidedBrings DEF WindowOps
    <2>2. QED
      BY <2>1, HeardFirstKept
  <1>10. CASE ResumeQuits
    <2>1. PICK F : Becomes(F) /\ \A f \in F : f.op \in {"quitApp", "quit"}
      BY <1>10, ResumeBrings
    <2>2. QED
      BY <2>1, HeardFirstKept
  <1>11. CASE SweepBegins \/ SweepCloses("sweepApp") \/ SweepCloses("sweep")
    BY <1>11, SweepBrings, HeardFirstKept
  <1>12. CASE TeardownCloses
    <2>1. PICK w \in Top.todo :
            LET f == Frame("close", w)
                g == SweepFrame("teardown", Top.who, Nobody, Top.todo \ {w})
            IN  Replaces(f, {f, g}, {g})
      BY <1>12, TeardownClosesDoes
    <2> DEFINE f == Frame("close", w)
               g == SweepFrame("teardown", Top.who, Nobody, Top.todo \ {w})
    <2>2. Becomes({f, g}) /\ f.op = "close" /\ g.op = "teardown"
      BY <1>1, <2>1, BecomesOf DEF Frame, SweepFrame
    <2> HIDE DEF f, g
    <2>3. QED
      BY <2>2, HeardFirstKept
  <1>13. CASE TeardownSettles
    <2>1. Top.op = "undecided" /\ deciding' = deciding
      BY <1>13 DEF TeardownSettles
    <2>2. CASE Replaces(Top, {Top}, {})
      BY <1>1, <2>1, <2>2, BecomesOf, HeardFirstKept
    <2>3. ASSUME NEW d \in open, about[d] \in deciding,
                 LET f == Frame("unanswered", about[d]) IN Replaces(f, {f, Top}, {Top})
          PROVE  HeardFirst'
      <3> DEFINE f == Frame("unanswered", about[d])
      <3>1. /\ Top' = f /\ In(stack') = {f, Top} \union Below /\ Below' \subseteq {Top} \union Below
            /\ f.who \in deciding
        BY <2>3 DEF Replaces, Frame
      <3>2. \A h \in {Top} \union Below : h.op # "unanswered"
        BY <2>1 DEF HeardFirst
      <3> HIDE DEF f
      <3>3. QED
        BY <2>1, <3>1, <3>2 DEF HeardFirst
    <2> DEFINE h == SweepFrame("teardown", Top.who, Nobody, AppWindows(Top.who))
    <2>4. CASE Replaces(h, {h}, {})
      <3>1. Becomes({h}) /\ h.op = "teardown"
        BY <1>1, <2>4, BecomesOf DEF SweepFrame
      <3> HIDE DEF h
      <3>2. QED
        BY <3>1, HeardFirstKept
    <2>5. QED
      BY <1>13, <2>2, <2>3, <2>4, TeardownSettlesDoes
  <1>14. QED
    BY <1>2, <1>3, <1>4, <1>5, <1>6, <1>7, <1>8, <1>9, <1>10, <1>11, <1>12, <1>13 DEF ThreadStep

\* What the thread takes up is no such call but when a deadline arrives.
LEMMA StartsUnheard ==
  ASSUME Typed, Next, ~ThreadStep, ~\E d \in Ids, n \in 1..MaxWaits : DeadlineArrives(d, n)
  PROVE  \A f \in In(stack') : f.op # "unanswered"
  <1>1. stack = <<>>
    BY Starts
  <1>2. \A op, w : Frame(op, w).op = op
    BY DEF Frame
  <1>3. ASSUME NEW w \in Windows, NEW yes \in BOOLEAN, PersonAnswers(w, yes)
        PROVE  \A f \in In(stack') : f.op # "unanswered"
    BY <1>2, <1>3, PersonAnswersDoes DEF Begun
  <1>4. ASSUME NEW d \in Ids, NEW v \in {"allowed", "denied"}, AnswerClose(d, v)
        PROVE  \A f \in In(stack') : f.op # "unanswered"
    BY <1>2, <1>4, AnswerCloseDoes DEF Begun
  <1>5. ASSUME NEW w \in Windows, CloseWindow(w) \/ DestroyWindow(w)
        PROVE  \A f \in In(stack') : f.op # "unanswered"
    BY <1>2, <1>5, CloseWindowDoes DEF Begun
  <1>6. ASSUME NEW a \in Apps, QuitApplication(a) \/ Disconnect(a)
        PROVE  \A f \in In(stack') : f.op # "unanswered"
    BY <1>2, <1>6, QuitApplicationDoes, DisconnectDoes DEF Begun
  <1>7. ASSUME QuitDesktop
        PROVE  \A f \in In(stack') : f.op # "unanswered"
    BY <1>2, <1>7, QuitDesktopDoes DEF Begun
  <1>8. ASSUME stack' = stack
        PROVE  \A f \in In(stack') : f.op # "unanswered"
    BY <1>1, <1>8, InEmpty
  <1>9. QED
    BY <1>3, <1>4, <1>5, <1>6, <1>7, <1>8 DEF Next, KeepAsking, DeadlinePasses, Subscribe,
       PersonClosesDialog

\* And then it is on top.
LEMMA StartHears == ASSUME Typed, HeardFirst, Next, ~ThreadStep PROVE HeardFirst'
  <1>1. stack = <<>>
    BY Starts
  <1>2. CASE \E d \in Ids, n \in 1..MaxWaits : DeadlineArrives(d, n)
    <2>1. PICK d \in Ids, n \in 1..MaxWaits : DeadlineArrives(d, n)
      BY <1>2
    <2> DEFINE f == Frame("unanswered", about[d])
    <2>2. deciding' = deciding /\ f.who = about[d]
      BY <2>1 DEF DeadlineArrives, Frame
    <2>3. \/ about[d] \in deciding /\ In(stack') = {f} /\ Below' \subseteq {} /\ Top' = f
          \/ In(stack') = {} /\ Below' \subseteq {}
      BY <2>1, DeadlineArrivesDoes DEF Begun
    <2> HIDE DEF f
    <2>4. QED
      BY <2>2, <2>3 DEF HeardFirst
  <1>3. CASE ~\E d \in Ids, n \in 1..MaxWaits : DeadlineArrives(d, n)
    <2>1. \A f \in In(stack') : f.op # "unanswered"
      BY <1>3, StartsUnheard
    <2>2. Below' \subseteq In(stack')
      <3>1. Typed'
        BY TypedStep
      <3>2. Stacked'
        BY <3>1 DEF Typed
      <3>3. QED
        BY <3>2, BelowIn
    <2>3. QED
      BY <2>1, <2>2 DEF HeardFirst
  <1>4. QED
    BY <1>2, <1>3

\* So it is always.
LEMMA AlwaysHeardFirst == Spec => []HeardFirst
  <1>1. Init => HeardFirst
    BY InEmpty DEF Init, HeardFirst, Below
  <1>2. Typed /\ HeardFirst /\ [Next]_vars => HeardFirst'
    <2> SUFFICES ASSUME Typed, HeardFirst, [Next]_vars PROVE HeardFirst'
      OBVIOUS
    <2>1. CASE UNCHANGED vars
      BY <2>1 DEF HeardFirst, Below, In, Top
    <2>2. QED
      BY <2>1, ThreadHears, StartHears
  <1>3. QED
    BY <1>1, <1>2, AlwaysTyped, PTL DEF Spec

\* A dialog is about a window that is being decided, or the thread has yet to
\* report how that went, which takes the dialog down.
Reporting == {"closing", "decidedClosed", "decidedOpen"}

AboutSomething ==
  \A w \in forceClose :
    w \in deciding \/ \E f \in In(stack) : f.op \in Reporting /\ f.who = w

\* A step that puts up no dialog, and settles with a report to come.
LEMMA AboutKept ==
  ASSUME AboutSomething, NEW F, Becomes(F), forceClose' \subseteq forceClose,
         deciding \subseteq deciding' \union {Top.who},
         Top.who \in forceClose' /\ (Top.op \in Reporting \/ Top.who \in deciding \ deciding') =>
           \E f \in F : f.op \in Reporting /\ f.who = Top.who
  PROVE  AboutSomething'
  <1> SUFFICES ASSUME NEW w \in forceClose'
               PROVE  w \in deciding' \/ \E f \in In(stack') : f.op \in Reporting /\ f.who = w
    BY DEF AboutSomething
  <1>1. w \in deciding \/ \E f \in In(stack) : f.op \in Reporting /\ f.who = w
    BY DEF AboutSomething
  <1>2. In(stack) = {Top} \union Below /\ In(stack') = F \union Below
    BY DEF Becomes
  <1>3. QED
    BY <1>1, <1>2

\* Every step within a call is one of those, or asks about an undecided window.
LEMMA ThreadAbout ==
  ASSUME Typed, HeardFirst, AboutSomething, ThreadStep
  PROVE  AboutSomething'
  <1> USE DEF Is, Reporting
  <1>1. stack # <<>> /\ In(stack) = {Top} \union Below /\ Top \in In(stack)
    BY Busy, TopIs DEF Typed
  <1>2. CASE \/ CloseAgain \/ (\E w \in Windows : CloseAsks(w) \/ CloseRefused(w)) \/ ForgetWindow
             \/ AbandonQuits \/ QuitAppStops \/ QuitStops \/ QuitAppDone \/ QuitDone
             \/ TeardownRemoves
    <2>1. UNCHANGED dialogs /\ deciding \subseteq deciding'
      BY <1>2 DEF CloseAgain, CloseAsks, CloseRefused, ForgetWindow, AbandonQuits,
         QuitAppStops, QuitStops, QuitAppDone, QuitDone, TeardownRemoves
    <2>2. Top.op \notin Reporting
      BY <1>2 DEF CloseAgain, CloseAsks, CloseRefused, Consulting, Attempting, ForgetWindow,
         AbandonQuits, QuitAppStops, QuitStops, QuitAppDone, QuitDone, TeardownRemoves
    <2>3. QED
      BY <1>2, <2>1, <2>2, BringsNothing, AboutKept
  <1>3. ASSUME NEW w \in Windows, ClosePermitted(w) \/ CloseUnasked(w) PROVE AboutSomething'
    <2>1. UNCHANGED dialogs /\ deciding' = deciding /\ Top.op \notin Reporting
      BY <1>3 DEF ClosePermitted, CloseUnasked, Attempting
    <2>2. QED
      BY <1>3, <2>1, OpeningBrings, AboutKept
  <1>4. CASE CloseChildren
    <2>1. UNCHANGED dialogs /\ deciding' = deciding /\ Top.op \notin Reporting
      BY <1>4 DEF CloseChildren
    <2>2. QED
      BY <1>4, <2>1, ChildrenBring, AboutKept
  <1>5. CASE CloseHappens
    <2>1. UNCHANGED dialogs /\ deciding' = deciding \ {Top.who} /\ Top.op \notin Reporting
      BY <1>5 DEF CloseHappens
    <2>2. CASE Top.who \in deciding
      <3>1. PICK f, g : Becomes({f, g}) /\ Is(f, "decidedClosed", Top.who)
        BY <1>5, <2>2, ClosedBrings
      <3>2. \E h \in {f, g} : h.op \in Reporting /\ h.who = Top.who
        BY <3>1
      <3>3. QED
        BY <2>1, <3>1, <3>2, AboutKept
    <2>3. CASE Top.who \notin deciding
      BY <1>5, <2>1, <2>3, ClosedBrings, AboutKept
    <2>4. QED
      BY <2>2, <2>3
  <1>6. CASE SettleAllowed
    <2>1. UNCHANGED dialogs /\ deciding' = deciding \ {Top.who}
      BY <1>6 DEF SettleAllowed
    <2>2. PICK f, g : Becomes({f, g}) /\ Is(g, "closing", Top.who)
      BY <1>6, AllowedBrings
    <2>3. \E h \in {f, g} : h.op \in Reporting /\ h.who = Top.who
      BY <2>2
    <2>4. QED
      BY <2>1, <2>2, <2>3, AboutKept
  <1>7. CASE SettleReports \/ SettleRefused
    <2>1. UNCHANGED dialogs /\ deciding \subseteq deciding' \union {Top.who}
      BY <1>7 DEF SettleReports, SettleRefused
    <2>2. PICK f : Becomes({f}) /\ (Is(f, "decidedClosed", Top.who) \/ Is(f, "decidedOpen", Top.who))
      BY <1>7, ReportBrings
    <2>3. \E h \in {f} : h.op \in Reporting /\ h.who = Top.who
      BY <2>2
    <2>4. QED
      BY <2>1, <2>2, <2>3, AboutKept
  <1>8. CASE Unanswered
    <2>1. deciding' = deciding /\ Top.op = "unanswered"
      BY <1>8 DEF Unanswered
    <2>2. CASE UNCHANGED dialogs
      BY <1>8, <2>1, <2>2, UnansweredBrings, AboutKept
    <2>3. CASE ~UNCHANGED dialogs
      <3>1. Becomes({}) /\ Top.who \in deciding
        BY <1>1, <1>8, <2>1, <2>3, UnansweredBrings DEF HeardFirst
      <3>2. forceClose' = forceClose \union {Top.who}
        BY <1>8, <2>3 DEF Unanswered
      <3>3. In(stack) = {Top} \union Below /\ In(stack') = Below
        BY <3>1 DEF Becomes
      <3>4. QED
        BY <2>1, <3>1, <3>2, <3>3 DEF AboutSomething
    <2>4. QED
      BY <2>2, <2>3
  <1>9. ASSUME NEW op \in {"decidedClosed", "decidedOpen"}, NEW next \in {"resume", "abandon"},
               CloseDecided(op, next)
        PROVE  AboutSomething'
    <2>1. deciding' = deciding /\ forceClose' = forceClose \ {Top.who}
      BY <1>9 DEF CloseDecided
    <2>2. PICK F : Becomes(F)
      BY <1>9, DecidedBrings DEF WindowOps
    <2>3. QED
      BY <2>1, <2>2, AboutKept
  <1>10. CASE ResumeQuits
    <2>1. UNCHANGED dialogs /\ deciding' = deciding /\ Top.op \notin Reporting
      BY <1>10 DEF ResumeQuits
    <2>2. PICK F : Becomes(F)
      BY <1>10, ResumeBrings
    <2>3. QED
      BY <2>1, <2>2, AboutKept
  <1>11. CASE SweepBegins \/ SweepCloses("sweepApp") \/ SweepCloses("sweep")
    <2>1. UNCHANGED dialogs /\ deciding' = deciding /\ Top.op \notin Reporting
      BY <1>11 DEF SweepBegins, SweepCloses
    <2>2. QED
      BY <1>11, <2>1, SweepBrings, AboutKept
  <1>12. CASE TeardownSettles \/ TeardownCloses
    <2>1. UNCHANGED dialogs /\ deciding' = deciding /\ Top.op \notin Reporting
      BY <1>12 DEF TeardownSettles, TeardownCloses
    <2>2. QED
      BY <1>12, <2>1, TeardownBrings, AboutKept
  <1>13. QED
    BY <1>2, <1>3, <1>4, <1>5, <1>6, <1>7, <1>8, <1>9, <1>10, <1>11, <1>12 DEF ThreadStep

\* So it is always.
LEMMA AlwaysAbout == Spec => []AboutSomething
  <1>1. Init => AboutSomething
    BY DEF Init, AboutSomething
  <1>2. Typed /\ HeardFirst /\ AboutSomething /\ [Next]_vars => AboutSomething'
    <2> SUFFICES ASSUME Typed, HeardFirst, AboutSomething, [Next]_vars PROVE AboutSomething'
      OBVIOUS
    <2>1. CASE UNCHANGED vars
      BY <2>1 DEF AboutSomething, In
    <2>2. CASE Next /\ ~ThreadStep
      <3>1. forceClose' \subseteq forceClose
        BY <2>2 DEF Next, CloseWindow, QuitDesktop, QuitApplication, AnswerClose, KeepAsking,
           DestroyWindow, Subscribe, DeadlinePasses, DeadlineArrives, Disconnect, PersonAnswers,
           PersonClosesDialog
      <3>2. stack = <<>> /\ deciding' = deciding
        BY <2>2, Starts
      <3>3. QED
        BY <3>1, <3>2, InEmpty DEF AboutSomething
    <2>3. QED
      BY <2>1, <2>2, ThreadAbout
  <1>3. QED
    BY <1>1, <1>2, AlwaysTyped, AlwaysHeardFirst, PTL DEF Spec

\* desktop.go dismissForceClose: "a question about nothing": a dialog is up only
\* about a window that is open and still undecided.
THEOREM DialogIsAboutSomething == Spec => []NoQuestionAboutNothing
  <1>1. Undecided /\ AboutSomething => NoQuestionAboutNothing
    BY InEmpty DEF Undecided, AboutSomething, NoQuestionAboutNothing, Idle
  <1>2. QED
    BY <1>1, AlwaysUndecided, AlwaysAbout, PTL

-----------------------------------------------------------------------------
\* What ends a desktop.

\* A window and its parent are one application's.
Family == \A w \in Windows : ParentOf[w] # Nobody => Owner[ParentOf[w]] = Owner[w]

CloseOps == {"close", "children", "closed", "forget"}

Unclosed(a) == {w \in Windows \ closed : Owner[w] = a}

\* A call that waits, waits for the close of the window it asked for.
Awaits(f, g) ==
  /\ g.op \in Waiting => f.op \in CloseOps
  /\ g.op \in {"sweep", "sweepApp"} => f.who = g.at
  /\ g.op = "children" => ParentOf[f.who] = g.who
  /\ g.op = "teardown" => Owner[f.who] = g.who /\ Unclosed(g.who) \subseteq g.todo \union {f.who}

\* What is not closed yet is on a sweep's list, or is the window it is at.
Covers(g) ==
  /\ g.op = "forget" => g.who \in closed
  /\ g.op \in {"undecided", "teardown"} => g.who \in gone
  /\ g.op = "sweep" => Windows \ closed \subseteq g.todo \union {g.at}
  /\ g.op = "sweepApp" => Unclosed(g.who) \subseteq g.todo \union {g.at}
  /\ g.op = "teardown" => \A w \in g.todo : Owner[w] = g.who
  /\ g.op = "children" => \A w \in g.todo : ParentOf[w] = g.who

\* What the answer just returned says of the window a call was at.
Answered ==
  stack # <<>> =>
    /\ Top.op \in {"sweep", "sweepApp"} /\ ret # "no" => Top.at \in closed \union {Nobody}
    /\ Top.op = "children" /\ ret = "no" => Owner[Top.who] \notin gone
    /\ Top.op = "teardown" => Unclosed(Top.who) \subseteq Top.todo

Listed == \A w \in Windows \ closed : w \in inApp /\ Owner[w] \in apps

Swept ==
  /\ \A p \in Links(stack) : Awaits(p[1], p[2])
  /\ \A g \in In(stack) : Covers(g)
  /\ Answered
  /\ Listed
  /\ ExitLosesNothing

\* What is closed stays closed, who is gone stays gone: nothing waited for is undone.
LEMMA Onward ==
  ASSUME closed \subseteq closed', gone \subseteq gone'
  PROVE  /\ \A f, g : Awaits(f, g) => Awaits(f, g)'
         /\ \A g : Covers(g) => Covers(g)'
         /\ \A a : Unclosed(a)' \subseteq Unclosed(a)
  <1>1. \A a : Unclosed(a)' \subseteq Unclosed(a)
    BY DEF Unclosed
  <1>2. \A f, g : Awaits(f, g) => Awaits(f, g)'
    BY <1>1 DEF Awaits
  <1>3. \A g : Covers(g) => Covers(g)'
    BY <1>1 DEF Covers
  <1>4. QED
    BY <1>1, <1>2, <1>3

\* What goes on with a close goes on with the close of the same window.
Carries(f, h) == f.op \in CloseOps => h.op \in CloseOps /\ h.who = f.who

LEMMA CarriesOn ==
  ASSUME NEW f, NEW h, NEW g, Carries(f, h), Awaits(f, g), g.op \in Waiting
  PROVE  Awaits(h, g)
  BY DEF Carries, Awaits

\* No step opens a window again.
LEMMA ClosedStays == ASSUME Typed, Next PROVE closed' \subseteq Windows /\ closed \subseteq closed'
  <1>1. closed' \subseteq Windows
    BY KeptStep DEF Kept
  <1>2. closed \subseteq closed'
    <2>1. CASE ThreadStep
      BY <2>1 DEF ThreadStep, CloseAgain, ClosePermitted, CloseUnasked, CloseAsks, CloseRefused,
         CloseChildren, CloseHappens, ForgetWindow, SettleAllowed, SettleReports,
         SettleRefused, Unanswered, CloseDecided, ResumeQuits, AbandonQuits, SweepBegins,
         SweepCloses, QuitAppStops, QuitStops, QuitAppDone, QuitDone, TeardownSettles,
         TeardownCloses, TeardownRemoves
    <2>2. CASE ~ThreadStep
      BY <2>2, Starts
    <2>3. QED
      BY <2>1, <2>2
  <1>3. QED
    BY <1>1, <1>2

\* A step that puts calls on top, the last of which inherits the wait below.
LEMMA SweptReplaced ==
  ASSUME Typed, Swept, ThreadStep, closed \subseteq closed',
         NEW f, NEW F, NEW B, Replaces(f, F, B),
         \A h \in IF B = {} THEN F ELSE B : Carries(Top, h),
         \A g \in B : g.op \in Waiting => Awaits(f, g)',
         \A g \in F : Covers(g)',
         f.op \in {"sweep", "sweepApp"} => f.at = Nobody,
         f.op = "teardown" => Unclosed(f.who)' \subseteq f.todo,
         UNCHANGED <<inApp, apps, exited>>
  PROVE  Swept'
  <1>1. gone' = gone
    BY StaysHeeded
  <1>2. /\ \A h, g : Awaits(h, g) => Awaits(h, g)'
        /\ \A g : Covers(g) => Covers(g)'
    BY <1>1, Onward
  <1>3. ASSUME NEW p \in Links(stack') PROVE Awaits(p[1], p[2])'
    <2>1. p[2].op \in Waiting
      BY LinksIn DEF Replaces, Stacked
    <2>2. \/ p \in Links(stack)
          \/ p \in {f} \X B
          \/ p[1] \in (IF B = {} THEN F ELSE B) /\ <<Top, p[2]>> \in Links(stack)
      BY DEF Replaces, Linking
    <2>3. CASE p \in Links(stack)
      BY <1>2, <2>3 DEF Swept
    <2>4. CASE p \in {f} \X B
      <3>1. p[1] = f /\ p[2] \in B
        BY <2>4
      <3>2. QED
        BY <2>1, <3>1
    <2>5. CASE p[1] \in (IF B = {} THEN F ELSE B) /\ <<Top, p[2]>> \in Links(stack)
      <3>1. Awaits(Top, p[2]) /\ Carries(Top, p[1])
        BY <2>5 DEF Swept
      <3>2. QED
        BY <1>2, <2>1, <3>1, CarriesOn
    <2>6. QED
      BY <2>2, <2>3, <2>4, <2>5
  <1>4. ASSUME NEW g \in In(stack') PROVE Covers(g)'
    <2>1. g \in F \/ g \in In(stack)
      BY DEF Replaces
    <2>2. QED
      BY <1>2, <2>1 DEF Swept
  <1>5. Answered'
    <2>1. Top' = f /\ ret' = "none"
      BY DEF Replaces
    <2>2. QED
      BY <2>1 DEF Answered, Unclosed
  <1>6. Listed' /\ ExitLosesNothing'
    <2>1. closed' \subseteq Windows
      BY ClosedStays DEF Next
    <2>2. QED
      BY <2>1 DEF Swept, Listed, ExitLosesNothing
  <1>7. QED
    BY <1>3, <1>4, <1>5, <1>6 DEF Swept

\* A call that is over, with an answer its window bears out.
LEMMA SweptReturned ==
  ASSUME Family, Typed, Swept, ThreadStep, closed \subseteq closed', Listed', ExitLosesNothing',
         NEW v, Returned(v),
         \/ Top.op \notin CloseOps
         \/ v = "yes" /\ Top.who \in closed'
         \/ v = "no" /\ Owner[Top.who] \notin gone
  PROVE  Swept'
  <1>1. gone' = gone
    BY StaysHeeded
  <1>2. /\ \A h, g : Awaits(h, g) => Awaits(h, g)'
        /\ \A g : Covers(g) => Covers(g)'
        /\ \A a : Unclosed(a)' \subseteq Unclosed(a)
    BY <1>1, Onward
  <1>3. ASSUME NEW p \in Links(stack') PROVE Awaits(p[1], p[2])'
    BY <1>2 DEF Returned, Swept
  <1>4. ASSUME NEW g \in In(stack') PROVE Covers(g)'
    BY <1>2 DEF Returned, Swept
  <1>5. ASSUME stack' # <<>>, Top'.op \in {"sweep", "sweepApp", "children", "teardown"}
        PROVE  /\ Top'.op \in {"sweep", "sweepApp"} /\ ret' # "no" => Top'.at \in closed' \union {Nobody}
               /\ Top'.op = "children" /\ ret' = "no" => Owner[Top'.who] \notin gone'
               /\ Top'.op = "teardown" =>
                    {w \in Windows \ closed' : Owner[w] = Top'.who} \subseteq Top'.todo
    <2>1. <<Top, Top'>> \in Links(stack) /\ ret' = v
      BY <1>5 DEF Returned, Waiting
    <2>2. Awaits(Top, Top') /\ Covers(Top')
      <3>1. Awaits(Top, Top')
        BY <2>1 DEF Swept
      <3>2. Top' \in In(stack')
        <4>1. Stacked'
          BY DEF Returned
        <4>2. QED
          BY <1>5, <4>1, InHeadTail DEF Stacked, Top
      <3>3. QED
        BY <3>1, <3>2 DEF Returned, Swept
    <2>3. Top.op \in CloseOps
      BY <1>5, <2>2 DEF Awaits, Waiting
    <2>4. \/ v = "yes" /\ Top.who \in closed'
          \/ v = "no" /\ Owner[Top.who] \notin gone
      BY <2>3
    <2>5. Top \in Calls /\ Top' \in Calls /\ Top.who \in Windows
      <3>1. stack # <<>> /\ Stacked /\ Stacked'
        BY Busy DEF Returned, Typed
      <3>2. Top \in Calls /\ Top' \in Calls
        BY <1>5, <3>1, InHeadTail DEF Stacked, Top
      <3>3. QED
        BY <2>3, <3>2, WhoIs DEF CloseOps, WindowOps
    <2>6. CASE Top'.op \in {"sweep", "sweepApp"}
      BY <2>1, <2>2, <2>4, <2>6 DEF Awaits
    <2>7. CASE Top'.op = "children"
      <3>1. ParentOf[Top.who] = Top'.who /\ Top'.who \in Windows
        BY <2>2, <2>5, <2>7, WhoIs DEF Awaits, WindowOps
      <3>2. Owner[Top'.who] = Owner[Top.who]
        BY <2>5, <3>1, WindowCloseAssumption DEF Family
      <3>3. QED
        BY <1>1, <2>1, <2>4, <2>7, <3>2
    <2>8. CASE Top'.op = "teardown"
      <3>1. /\ Owner[Top.who] = Top'.who /\ Top'.who \in gone
            /\ Unclosed(Top'.who) \subseteq Top'.todo \union {Top.who}
        BY <2>2, <2>8 DEF Awaits, Covers
      <3>2. Top.who \in closed'
        BY <2>4, <3>1
      <3>3. {w \in Windows \ closed' : Owner[w] = Top'.who} \subseteq Top'.todo
        BY <3>1, <3>2 DEF Unclosed
      <3>4. QED
        BY <2>8, <3>3
    <2>9. QED
      BY <1>5, <2>6, <2>7, <2>8
  <1>6. Answered'
    BY <1>5 DEF Answered, Unclosed
  <1>7. QED
    BY <1>3, <1>4, <1>6 DEF Swept

\* Where no application changes, the lists stay good.
LEMMA NoChange ==
  ASSUME Typed, Swept, ThreadStep, UNCHANGED <<inApp, apps, exited>>
  PROVE  closed \subseteq closed' /\ Listed' /\ ExitLosesNothing'
  <1>1. closed \subseteq closed' /\ closed' \subseteq Windows
    BY ClosedStays DEF Next
  <1>2. QED
    BY <1>1 DEF Swept, Listed, ExitLosesNothing

\* A step that brings only calls that wait for nothing.
LEMMA SweptCalm ==
  ASSUME Typed, Swept, ThreadStep, NEW f, NEW F, NEW B, Replaces(f, F, B),
         B = {} \/ B \subseteq F, Top.op \notin CloseOps,
         \A h \in F : h.op \notin Waiting \union {"forget", "undecided"},
         UNCHANGED <<inApp, apps, exited>>
  PROVE  Swept'
  <1>1. closed \subseteq closed' /\ f \in F
    BY NoChange DEF Replaces
  <1>2. \A h \in F : Carries(Top, h)
    BY DEF Carries
  <1>3. \A g \in F : Covers(g)'
    BY DEF Covers, Waiting
  <1>4. f.op \notin {"sweep", "sweepApp", "teardown"}
    BY <1>1 DEF Waiting
  <1>5. \A h \in IF B = {} THEN F ELSE B : Carries(Top, h)
    BY <1>2
  <1>6. QED
    BY <1>1, <1>3, <1>4, <1>5, SweptReplaced

\* One call in its place.
LEMMA SweptOne ==
  ASSUME Typed, Swept, ThreadStep, NEW f, Replaces(f, {f}, {}), Carries(Top, f), Covers(f)',
         f.op \in {"sweep", "sweepApp"} => f.at = Nobody,
         f.op = "teardown" => Unclosed(f.who)' \subseteq f.todo,
         UNCHANGED <<inApp, apps, exited>>
  PROVE  Swept'
  <1>1. closed \subseteq closed'
    BY NoChange
  <1>2. \A h \in IF {} = {} THEN {f} ELSE {} : Carries(Top, h)
    OBVIOUS
  <1>3. (\A g \in {} : g.op \in Waiting => Awaits(f, g)') /\ \A g \in {f} : Covers(g)'
    OBVIOUS
  <1>4. QED
    BY <1>1, <1>2, <1>3, SweptReplaced

\* Two calls in its place: the lower waits for the upper.
LEMMA SweptTwo ==
  ASSUME Typed, Swept, ThreadStep, NEW f, NEW g, Replaces(f, {f, g}, {g}), Carries(Top, g),
         Covers(f)', Covers(g)', g.op \in Waiting => Awaits(f, g)',
         f.op \notin {"sweep", "sweepApp", "teardown"},
         UNCHANGED <<inApp, apps, exited>>
  PROVE  Swept'
  <1>1. closed \subseteq closed'
    BY NoChange
  <1>2. \A h \in IF {g} = {} THEN {f, g} ELSE {g} : Carries(Top, h)
    OBVIOUS
  <1>3. (\A h \in {g} : h.op \in Waiting => Awaits(f, h)') /\ \A h \in {f, g} : Covers(h)'
    OBVIOUS
  <1>4. QED
    BY <1>1, <1>2, <1>3, SweptReplaced

\* The calls of a close.
LEMMA CloseSweeps ==
  ASSUME Family, Typed, Swept, ThreadStep,
         \/ CloseAgain \/ ForgetWindow \/ CloseChildren \/ CloseHappens
         \/ \E w \in Windows :
              ClosePermitted(w) \/ CloseUnasked(w) \/ CloseAsks(w) \/ CloseRefused(w)
  PROVE  Swept'
  <1>1. /\ stack # <<>> /\ Top \in In(stack) /\ Covers(Top)
        /\ closed \subseteq closed'
    BY Busy, ClosedStays DEF Swept, Next
  <1>2. CASE CloseAgain
    <2>1. UNCHANGED <<inApp, apps, exited>> /\ Top.who \in closed'
      BY <1>2 DEF CloseAgain
    <2>2. QED
      BY <1>1, <1>2, <2>1, CloseAgainDoes, NoChange, SweptReturned
  <1>3. CASE ForgetWindow
    <2>1. Top.who \in closed /\ UNCHANGED <<closed, apps, exited>> /\ inApp' = inApp \ {Top.who}
      BY <1>1, <1>3 DEF ForgetWindow, Covers
    <2>2. Listed' /\ ExitLosesNothing'
      BY <2>1 DEF Swept, Listed, ExitLosesNothing
    <2>3. QED
      BY <1>1, <1>3, <2>1, <2>2, ForgetWindowDoes, SweptReturned
  <1>4. ASSUME NEW w \in Windows, CloseAsks(w) \/ CloseRefused(w) PROVE Swept'
    <2>1. UNCHANGED <<inApp, apps, exited>> /\ Top.who = w /\ Owner[w] \notin gone
      BY <1>4 DEF CloseAsks, CloseRefused, Consulting, Attempting, Listening
    <2>2. QED
      BY <1>1, <1>4, <2>1, CloseAnswersNo, NoChange, SweptReturned
  <1>5. ASSUME NEW w \in Windows, ClosePermitted(w) \/ CloseUnasked(w) PROVE Swept'
    <2>1. UNCHANGED <<inApp, apps, exited>> /\ Top.who = w /\ Top.op = "close"
      BY <1>5 DEF ClosePermitted, CloseUnasked, Attempting
    <2>2. PICK f : f = SweepFrame("children", w, Nobody, Children(w)) /\ Replaces(f, {f}, {})
      BY <1>5, CloseOpens
    <2>3. f.op = "children" /\ f.who = w /\ \A c \in f.todo : ParentOf[c] = w
      BY <2>2 DEF SweepFrame, Children
    <2>4. Carries(Top, f) /\ Covers(f)'
      BY <2>1, <2>3 DEF Carries, Covers, CloseOps
    <2>5. QED
      BY <2>1, <2>2, <2>3, <2>4, SweptOne
  <1>6. CASE CloseChildren
    <2>1. UNCHANGED <<inApp, apps, exited>> /\ Top.op = "children"
      BY <1>6 DEF CloseChildren
    <2>2. CASE ret = "no" /\ Returned("no")
      <3>1. Owner[Top.who] \notin gone
        BY <1>1, <2>1, <2>2 DEF Swept, Answered
      <3>2. QED
        BY <1>1, <2>1, <2>2, <3>1, NoChange, SweptReturned
    <2>3. ASSUME NEW f, f = Frame("closed", Top.who), Replaces(f, {f}, {}) PROVE Swept'
      <3>1. f.op = "closed" /\ f.who = Top.who
        BY <2>3 DEF Frame
      <3>2. Carries(Top, f) /\ Covers(f)'
        BY <3>1 DEF Carries, Covers, CloseOps
      <3>3. QED
        BY <2>1, <2>3, <3>1, <3>2, SweptOne
    <2>4. ASSUME NEW c \in Top.todo, NEW f, NEW g, f = Frame("close", c),
                 g = SweepFrame("children", Top.who, Nobody, Top.todo \ {c}),
                 Replaces(f, {f, g}, {g})
          PROVE  Swept'
      <3>1. /\ f.op = "close" /\ f.who = c /\ g.op = "children" /\ g.who = Top.who
            /\ \A w \in g.todo : ParentOf[w] = Top.who
            /\ ParentOf[c] = Top.who
        BY <1>1, <2>1, <2>4 DEF Frame, SweepFrame, Covers
      <3>2. Carries(Top, g) /\ Covers(f)' /\ Covers(g)' /\ Awaits(f, g)'
        BY <3>1 DEF Carries, Covers, CloseOps, Awaits
      <3>3. QED
        BY <2>1, <2>4, <3>1, <3>2, SweptTwo
    <2>5. QED
      BY <1>6, <2>2, <2>3, <2>4, CloseChildrenDoes
  <1>7. CASE CloseHappens
    <2>1. UNCHANGED <<inApp, apps, exited>> /\ Top.op = "closed" /\ closed' = closed \union {Top.who}
      BY <1>7 DEF CloseHappens
    <2>2. PICK f, g : /\ f = Frame("decidedClosed", Top.who) /\ g = Frame("forget", Top.who)
                      /\ Replaces(f, {f, g}, {g}) \/ Replaces(g, {g}, {})
      BY <1>7, CloseHappensDoes
    <2>3. f.op = "decidedClosed" /\ g.op = "forget" /\ g.who = Top.who /\ g.who \in closed'
      BY <2>1, <2>2 DEF Frame
    <2>4. Carries(Top, g) /\ Covers(f)' /\ Covers(g)' /\ g.op \notin Waiting
      BY <2>1, <2>3 DEF Carries, Covers, CloseOps, Waiting
    <2>5. CASE Replaces(f, {f, g}, {g})
      BY <2>1, <2>3, <2>4, <2>5, SweptTwo
    <2>6. CASE Replaces(g, {g}, {})
      BY <2>1, <2>3, <2>4, <2>6, SweptOne
    <2>7. QED
      BY <2>2, <2>5, <2>6
  <1>8. QED
    BY <1>2, <1>3, <1>4, <1>5, <1>6, <1>7

\* The calls of an answer, and of what follows from it.
LEMMA SettleSweeps ==
  ASSUME Family, Typed, Swept, ThreadStep,
         \/ SettleAllowed \/ SettleReports \/ SettleRefused \/ Unanswered
         \/ CloseDecided("decidedClosed", "resume") \/ CloseDecided("decidedOpen", "abandon")
         \/ ResumeQuits \/ AbandonQuits
  PROVE  Swept'
  <1> USE DEF Waiting, CloseOps
  <1>1. stack # <<>> /\ closed \subseteq closed'
    BY Busy, ClosedStays DEF Next
  <1>2. CASE SettleAllowed
    <2>1. UNCHANGED <<inApp, apps, exited>> /\ Top.op = "allow"
      BY <1>2 DEF SettleAllowed
    <2>2. PICK f, g : /\ f = Frame("close", Top.who) /\ g = Frame("closing", Top.who)
                      /\ Replaces(f, {f, g}, {g})
      BY <1>2, SettleAllowedDoes
    <2>3. f.op = "close" /\ g.op = "closing"
      BY <2>2 DEF Frame
    <2>4. Carries(Top, g) /\ Covers(f)' /\ Covers(g)' /\ Awaits(f, g)'
      BY <2>1, <2>3 DEF Carries, Covers, Awaits
    <2>5. QED
      BY <2>1, <2>2, <2>3, <2>4, SweptTwo
  <1>3. CASE SettleReports
    <2>1. UNCHANGED <<inApp, apps, exited>> /\ Top.op = "closing"
      BY <1>3 DEF SettleReports
    <2>2. \E op \in {"decidedClosed", "decidedOpen"} :
            Replaces(Frame(op, Top.who), {Frame(op, Top.who)}, {})
      BY <1>3, SettleReportsDoes
    <2>3. PICK op, f : /\ op \in {"decidedClosed", "decidedOpen"}
                      /\ f = Frame(op, Top.who) /\ Replaces(f, {f}, {})
      BY <2>2
    <2>4. f.op = op
      BY <2>3 DEF Frame
    <2>5. QED
      BY <2>1, <2>3, <2>4, SweptCalm
  <1>4. CASE SettleRefused
    <2>1. UNCHANGED <<inApp, apps, exited>> /\ Top.op = "refuse"
      BY <1>4 DEF SettleRefused
    <2>2. PICK f : f = Frame("decidedOpen", Top.who) /\ Replaces(f, {f}, {})
      BY <1>4, SettleRefusedDoes
    <2>3. f.op = "decidedOpen"
      BY <2>2 DEF Frame
    <2>4. QED
      BY <2>1, <2>2, <2>3, SweptCalm
  <1>5. CASE Unanswered
    <2>1. UNCHANGED <<inApp, apps, exited>> /\ Top.op = "unanswered"
      BY <1>5 DEF Unanswered
    <2>2. CASE Returned("none")
      BY <1>1, <2>1, <2>2, NoChange, SweptReturned
    <2>3. ASSUME NEW f, f = Frame("refuse", Top.who), Replaces(f, {f}, {}) PROVE Swept'
      <3>1. f.op = "refuse"
        BY <2>3 DEF Frame
      <3>2. QED
        BY <2>1, <2>3, <3>1, SweptCalm
    <2>4. QED
      BY <1>5, <2>2, <2>3, UnansweredDoes
  <1>6. ASSUME NEW op \in {"decidedClosed", "decidedOpen"}, NEW next \in {"resume", "abandon"},
               CloseDecided(op, next)
        PROVE  Swept'
    <2>1. UNCHANGED <<inApp, apps, exited>> /\ Top.op = op
      BY <1>6 DEF CloseDecided
    <2>2. PICK F \in SUBSET {Frame("refuse", Top.who), Frame(next, Top.who)} :
            Replaces(Top', F, F)
      BY <1>6, CloseDecidedDoes DEF WindowOps
    <2>3. PICK f : f = Top'
      OBVIOUS
    <2>4. Replaces(f, F, F)
      BY <2>2, <2>3
    <2>5. \A h \in F : h.op \in {"refuse", next}
      BY <2>2 DEF Frame
    <2>6. QED
      BY <2>1, <2>4, <2>5, SweptCalm
  <1>7. CASE ResumeQuits
    <2>1. UNCHANGED <<inApp, apps, exited>> /\ Top.op = "resume"
      BY <1>7 DEF ResumeQuits
    <2>2. CASE Returned("none")
      BY <1>1, <2>1, <2>2, NoChange, SweptReturned
    <2>3. ASSUME NEW f, NEW F \in SUBSET {Frame("quitApp", Owner[Top.who]), Frame("quit", Nobody)},
                 Replaces(f, F, F)
          PROVE  Swept'
      <3>1. \A h \in F : h.op \in {"quitApp", "quit"}
        BY <2>3 DEF Frame
      <3>2. QED
        BY <2>1, <2>3, <3>1, SweptCalm
    <2>4. QED
      BY <1>7, <2>2, <2>3, ResumeQuitsDoes
  <1>8. CASE AbandonQuits
    <2>1. UNCHANGED <<inApp, apps, exited>> /\ Top.op = "abandon"
      BY <1>8 DEF AbandonQuits
    <2>2. QED
      BY <1>1, <1>8, <2>1, AbandonQuitsDoes, NoChange, SweptReturned
  <1>9. QED
    BY <1>2, <1>3, <1>4, <1>5, <1>6, <1>7, <1>8

\* The calls of a quit.
LEMMA QuitSweeps ==
  ASSUME Family, Typed, Swept, ThreadStep,
         \/ SweepBegins \/ SweepCloses("sweepApp") \/ SweepCloses("sweep")
         \/ QuitAppStops \/ QuitStops \/ QuitAppDone \/ QuitDone
  PROVE  Swept'
  <1> USE DEF Waiting, CloseOps
  <1>1. /\ stack # <<>> /\ Top \in In(stack) /\ Covers(Top)
        /\ closed \subseteq closed' /\ closed' \subseteq Windows
    BY Busy, ClosedStays DEF Swept, Next
  <1>2. CASE SweepBegins
    <2>1. UNCHANGED <<closed, inApp, apps, exited>> /\ Top.op \in {"quitApp", "quit"}
      BY <1>2 DEF SweepBegins
    <2>2. ASSUME NEW f, f = SweepFrame("sweepApp", Top.who, Nobody, AppWindows(Top.who)),
                 Replaces(f, {f}, {})
          PROVE  Swept'
      <3>1. f.op = "sweepApp" /\ f.at = Nobody /\ f.todo = {w \in inApp : Owner[w] = f.who}
        BY <2>2 DEF SweepFrame, AppWindows
      <3>2. Unclosed(f.who)' \subseteq f.todo
        BY <2>1, <3>1 DEF Unclosed, Swept, Listed
      <3>3. Carries(Top, f) /\ Covers(f)'
        BY <2>1, <3>1, <3>2 DEF Carries, Covers
      <3>4. QED
        BY <2>1, <2>2, <3>1, <3>3, SweptOne
    <2>3. ASSUME NEW f, f = SweepFrame("sweep", Nobody, Nobody, Windows \ closed),
                 Replaces(f, {f}, {})
          PROVE  Swept'
      <3>1. f.op = "sweep" /\ f.at = Nobody /\ f.todo = Windows \ closed
        BY <2>3 DEF SweepFrame
      <3>2. Carries(Top, f) /\ Covers(f)'
        BY <2>1, <3>1 DEF Carries, Covers
      <3>3. QED
        BY <2>1, <2>3, <3>1, <3>2, SweptOne
    <2>4. QED
      BY <1>2, <2>2, <2>3, SweepBeginsDoes
  <1>3. ASSUME NEW op \in {"sweepApp", "sweep"}, SweepCloses(op) PROVE Swept'
    <2>1. UNCHANGED <<closed, inApp, apps, exited>> /\ Top.op = op /\ ret # "no"
      BY <1>3 DEF SweepCloses
    <2>2. PICK w \in Top.todo :
            /\ w \in Windows
            /\ LET f == Frame("close", w)
                   g == SweepFrame(op, Top.who, w, Top.todo \ {w})
               IN  Replaces(f, {f, g}, {g})
      BY <1>3, SweepClosesDoes
    <2>3. PICK f, g : /\ f = Frame("close", w) /\ g = SweepFrame(op, Top.who, w, Top.todo \ {w})
                      /\ Replaces(f, {f, g}, {g})
      BY <2>2
    <2>4. /\ f.op = "close" /\ f.who = w /\ g.op = op /\ g.who = Top.who /\ g.at = w
          /\ g.todo = Top.todo \ {w}
      BY <2>3 DEF Frame, SweepFrame
    <2>5. Top.at \in closed \union {Nobody}
      BY <1>1, <2>1 DEF Swept, Answered
    <2>6. /\ op = "sweep" => Windows \ closed \subseteq g.todo \union {w}
          /\ op = "sweepApp" => Unclosed(g.who) \subseteq g.todo \union {w}
      BY <1>1, <2>1, <2>4, <2>5, WindowCloseAssumption DEF Covers, Unclosed
    <2>7. Unclosed(g.who)' \subseteq Unclosed(g.who)
      BY <2>1 DEF Unclosed
    <2>8. Carries(Top, g) /\ Covers(f)' /\ Awaits(f, g)'
      BY <2>1, <2>4 DEF Carries, Covers, Awaits
    <2>9. Covers(g)'
      BY <2>1, <2>4, <2>6, <2>7 DEF Covers
    <2>10. QED
      BY <2>1, <2>3, <2>4, <2>8, <2>9, SweptTwo
  <1>4. CASE QuitAppStops \/ QuitStops
    <2>1. UNCHANGED <<inApp, apps, exited>> /\ Top.op \in {"sweepApp", "sweep"}
      BY <1>4 DEF QuitAppStops, QuitStops
    <2>2. QED
      BY <1>1, <1>4, <2>1, QuitsReturn, NoChange, SweptReturned
  <1>5. CASE QuitAppDone
    <2>1. /\ UNCHANGED <<closed, inApp>> /\ apps' = apps \ {Top.who}
          /\ exited' = (exited \/ (/\ ~DesktopEnvironment
                                   /\ \A a \in apps' : AppWindows(a) = {}))
          /\ Top.op = "sweepApp" /\ Top.todo = {} /\ ret # "no"
      BY <1>5 DEF QuitAppDone
    <2>2. Top.at \in closed \union {Nobody}
      BY <1>1, <2>1 DEF Swept, Answered
    <2>3. Unclosed(Top.who) = {}
      BY <1>1, <2>1, <2>2, WindowCloseAssumption DEF Covers, Unclosed
    <2>4. Listed'
      BY <2>1, <2>3 DEF Swept, Listed, Unclosed
    <2>5. ExitLosesNothing'
      <3>1. CASE exited
        BY <1>1, <2>1, <3>1 DEF Swept, ExitLosesNothing
      <3>2. CASE \A a \in apps' : AppWindows(a) = {}
        <4>1. ASSUME NEW w \in Windows \ closed' PROVE FALSE
          <5>1. w \in inApp /\ Owner[w] \in apps'
            BY <2>1, <2>4, <4>1 DEF Listed
          <5>2. w \in AppWindows(Owner[w])
            BY <5>1 DEF AppWindows
          <5>3. QED
            BY <3>2, <5>1, <5>2
        <4>2. QED
          BY <1>1, <4>1 DEF ExitLosesNothing
      <3>3. CASE ~exited'
        BY <3>3 DEF ExitLosesNothing
      <3>4. QED
        BY <2>1, <3>1, <3>2, <3>3
    <2>6. QED
      BY <1>1, <1>5, <2>1, <2>4, <2>5, QuitsReturn, SweptReturned
  <1>6. CASE QuitDone
    <2>1. UNCHANGED <<closed, inApp, apps>> /\ Top.op = "sweep" /\ Top.todo = {} /\ ret # "no"
      BY <1>6 DEF QuitDone
    <2>2. Top.at \in closed \union {Nobody}
      BY <1>1, <2>1 DEF Swept, Answered
    <2>3. Windows \ closed = {}
      BY <1>1, <2>1, <2>2, WindowCloseAssumption DEF Covers
    <2>4. Listed' /\ ExitLosesNothing'
      BY <1>1, <2>1, <2>3 DEF Listed, ExitLosesNothing
    <2>5. QED
      BY <1>1, <1>6, <2>1, <2>4, QuitsReturn, SweptReturned
  <1>7. QED
    BY <1>2, <1>3, <1>4, <1>5, <1>6

\* The calls of a teardown.
LEMMA TeardownSweeps ==
  ASSUME Family, Typed, Swept, ThreadStep,
         TeardownSettles \/ TeardownCloses \/ TeardownRemoves
  PROVE  Swept'
  <1> USE DEF Waiting, CloseOps
  <1>1. /\ stack # <<>> /\ Top \in In(stack) /\ Covers(Top)
        /\ closed \subseteq closed' /\ closed' \subseteq Windows /\ gone' = gone
    BY Busy, ClosedStays, StaysHeeded DEF Swept, Next
  <1>2. /\ \A g : Covers(g) => Covers(g)'
        /\ \A a : Unclosed(a)' \subseteq Unclosed(a)
    BY <1>1, Onward
  <1>3. CASE TeardownSettles
    <2>1. UNCHANGED <<closed, inApp, apps, exited>> /\ Top.op = "undecided" /\ Top.who \in gone
      BY <1>1, <1>3 DEF TeardownSettles, Covers
    <2>2. PICK t : t = Top
      OBVIOUS
    <2>3. Carries(Top, t) /\ Covers(t)' /\ t.op = "undecided"
      BY <1>1, <1>2, <2>1, <2>2 DEF Carries
    <2>4. CASE Replaces(Top, {Top}, {})
      <3>1. Replaces(t, {t}, {})
        BY <2>2, <2>4
      <3>2. QED
        BY <2>1, <2>3, <3>1, SweptOne
    <2>5. ASSUME NEW d \in open,
                 LET f == Frame("unanswered", about[d]) IN Replaces(f, {f, Top}, {Top})
          PROVE  Swept'
      <3>1. PICK f : f = Frame("unanswered", about[d]) /\ Replaces(f, {f, t}, {t})
        BY <2>2, <2>5
      <3>2. f.op = "unanswered"
        BY <3>1 DEF Frame
      <3>3. Covers(f)'
        BY <3>2 DEF Covers
      <3>4. QED
        BY <2>1, <2>3, <3>1, <3>2, <3>3, SweptTwo
    <2>6. ASSUME NEW f, f = SweepFrame("teardown", Top.who, Nobody, AppWindows(Top.who)),
                 Replaces(f, {f}, {})
          PROVE  Swept'
      <3>1. /\ f.op = "teardown" /\ f.who = Top.who
            /\ f.todo = {w \in inApp : Owner[w] = f.who}
        BY <2>6 DEF SweepFrame, AppWindows
      <3>2. Unclosed(f.who)' \subseteq f.todo
        BY <2>1, <3>1 DEF Unclosed, Swept, Listed
      <3>3. Carries(Top, f) /\ Covers(f)'
        BY <1>1, <2>1, <3>1 DEF Carries, Covers
      <3>4. QED
        BY <2>1, <2>6, <3>1, <3>2, <3>3, SweptOne
    <2>7. QED
      BY <1>3, <2>4, <2>5, <2>6, TeardownSettlesDoes
  <1>4. CASE TeardownCloses
    <2>1. UNCHANGED <<closed, inApp, apps, exited>> /\ Top.op = "teardown"
      BY <1>4 DEF TeardownCloses
    <2>2. PICK w \in Top.todo :
            LET f == Frame("close", w)
                g == SweepFrame("teardown", Top.who, Nobody, Top.todo \ {w})
            IN  Replaces(f, {f, g}, {g})
      BY <1>4, TeardownClosesDoes
    <2>3. PICK f, g : /\ f = Frame("close", w)
                      /\ g = SweepFrame("teardown", Top.who, Nobody, Top.todo \ {w})
                      /\ Replaces(f, {f, g}, {g})
      BY <2>2
    <2>4. /\ f.op = "close" /\ f.who = w /\ g.op = "teardown" /\ g.who = Top.who
          /\ g.todo = Top.todo \ {w}
      BY <2>3 DEF Frame, SweepFrame
    <2>5. Unclosed(g.who) \subseteq Top.todo
      BY <1>1, <2>1, <2>4 DEF Swept, Answered
    <2>6. Unclosed(g.who)' \subseteq g.todo \union {w}
      BY <1>2, <2>4, <2>5
    <2>7. Owner[w] = g.who /\ g.who \in gone /\ \A v \in g.todo : Owner[v] = g.who
      BY <1>1, <2>1, <2>4 DEF Covers
    <2>8. Carries(Top, g) /\ Covers(f)'
      BY <2>1, <2>4 DEF Carries, Covers
    <2>9. Covers(g)' /\ Awaits(f, g)'
      BY <1>1, <2>4, <2>6, <2>7 DEF Covers, Awaits
    <2>10. QED
      BY <2>1, <2>3, <2>4, <2>8, <2>9, SweptTwo
  <1>5. CASE TeardownRemoves
    <2>1. /\ UNCHANGED <<closed, inApp, exited>> /\ apps' = apps \ {Top.who}
          /\ Top.op = "teardown" /\ Top.todo = {}
      BY <1>5 DEF TeardownRemoves
    <2>2. Unclosed(Top.who) = {}
      BY <1>1, <2>1 DEF Swept, Answered
    <2>3. Listed' /\ ExitLosesNothing'
      BY <2>1, <2>2 DEF Swept, Listed, Unclosed, ExitLosesNothing
    <2>4. QED
      BY <1>1, <1>5, <2>1, <2>3, TeardownRemovesDoes, SweptReturned
  <1>6. QED
    BY <1>3, <1>4, <1>5

\* What the thread takes up starts no wait.
LEMMA StartSweeps == ASSUME Typed, Swept, Next, ~ThreadStep PROVE Swept'
  <1>1. UNCHANGED <<closed, inApp, apps, exited>>
    BY Starts DEF Next, CloseWindow, QuitDesktop, QuitApplication, AnswerClose, KeepAsking,
       DestroyWindow, Subscribe, DeadlinePasses, DeadlineArrives, Disconnect, PersonAnswers,
       PersonClosesDialog
  <1>2. \A f \in In(stack') :
          /\ f.op \notin Waiting \union {"forget"}
          /\ f.op = "undecided" => f.who \in gone'
    BY Starts DEF Waiting
  <1>3. Stacked'
    BY NextGoesOn DEF Going
  <1>4. \A p \in Links(stack') : p[2] \in In(stack') /\ p[2].op \in Waiting
    BY <1>3, LinksIn DEF Stacked
  <1>5. \A p \in Links(stack') : Awaits(p[1], p[2])'
    BY <1>2, <1>4
  <1>6. \A g \in In(stack') : Covers(g)'
    BY <1>2 DEF Covers, Waiting
  <1>7. Answered'
    <2>1. stack' # <<>> => Top' \in In(stack')
      BY <1>3, InHeadTail DEF Stacked, Top
    <2>2. QED
      BY <1>2, <2>1 DEF Answered, Waiting
  <1>8. QED
    BY <1>1, <1>5, <1>6, <1>7 DEF Swept, Listed, ExitLosesNothing

\* Nothing waits at first.
LEMMA LinksNoneAtFirst == Links(<<>>) = {}
  BY SMT DEF Links

\* So it is always.
LEMMA AlwaysSwept == ASSUME Family PROVE Spec => []Swept
  <1>1. Init => Swept
    BY InEmpty, LinksNoneAtFirst, WindowCloseAssumption DEF Init, Swept, Answered, Listed, ExitLosesNothing
  <1>2. Typed /\ Swept /\ [Next]_vars => Swept'
    <2> SUFFICES ASSUME Typed, Swept, [Next]_vars PROVE Swept'
      OBVIOUS
    <2>1. CASE UNCHANGED vars
      BY <2>1 DEF Swept, Awaits, Covers, Unclosed, Answered, Listed, ExitLosesNothing, In, Links, Top
    <2>2. CASE Next /\ ~ThreadStep
      BY <2>2, StartSweeps
    <2>3. CASE ThreadStep
      BY <2>3, CloseSweeps, SettleSweeps, QuitSweeps, TeardownSweeps DEF ThreadStep
    <2>4. QED
      BY <2>1, <2>2, <2>3
  <1>3. QED
    BY <1>1, <1>2, AlwaysTyped, PTL DEF Spec

\* desktop.go QuitWithCode, quitApplication, display.go teardown: a desktop that
\* ends has nothing open on it, where a window and its parent are one
\* application's.
THEOREM NothingIsLost == ASSUME Family PROVE Spec => []ExitLosesNothing
  <1>1. Swept => ExitLosesNothing
    BY DEF Swept
  <1>2. QED
    BY <1>1, AlwaysSwept, PTL

-----------------------------------------------------------------------------
\* Types, and the questions.

\* Every variable has its type.
THEOREM TypeCorrect == Spec => []TypeOK
  <1>1. Typed => TypeOK
    BY DEF Typed
  <1>2. QED
    BY <1>1, AlwaysTyped, PTL

\* decision.go, window_protocol.go: what the windows do to their questions, the
\* desktop's quits and the dialogs included, is what Decisions says of questions.
THEOREM QuestionsAreDecisions == Spec => DP!Spec
  <1>1. Init => DP!Init
    BY DEF Init, D!Init, DP!Init
  <1>2. Typed /\ [Next]_vars => [DP!Next]_DP!vars
    BY QuestionStep DEF Typed
  <1>3. QED
    BY <1>1, <1>2, AlwaysTyped, PTL DEF Spec, DP!Spec
=============================================================================
