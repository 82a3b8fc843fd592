------------------------ MODULE WindowManagerProofs -------------------------
(***************************************************************************)
(* WindowManager.tla keeps its windows in order, its modal stacks true to  *)
(* what is open and its keyboard out of what is blocked, for any windows,  *)
(* owners, applications and kinds.                                         *)
(***************************************************************************)
EXTENDS WindowManager, TLAPS

-----------------------------------------------------------------------------
(* Orders.  What an order of finitely many things has, and what every       *)
(* operation on orders keeps: whichever of them are looked at, one of them  *)
(* is last and one is first.                                                *)

Ended(r) ==
  \A S \in SUBSET Members(r) : S # {} =>
    /\ \E x \in S : \A y \in S : <<y, x>> \in r
    /\ \E x \in S : \A y \in S : <<x, y>> \in r

Chain(r) == IsOrder(r) /\ Ended(r)

LEMMA EmptyChain == Chain({}) /\ Members({}) = {}
  BY DEF Chain, Ended, IsOrder, Members

\* A pair of an order is a pair of its members, each of them paired with itself.
LEMMA PairOf ==
  ASSUME NEW r, IsOrder(r), NEW p \in r
  PROVE  p[1] \in Members(r) /\ p[2] \in Members(r) /\ p = <<p[1], p[2]>>
  BY DEF IsOrder

\* What is paired with anything is a member.
LEMMA FirstOf ==
  ASSUME NEW r, NEW x, NEW y, <<x, y>> \in r
  PROVE  x \in Members(r)
  <1>1. <<x, y>>[1] = x
    OBVIOUS
  <1> QED
    BY <1>1 DEF Members

LEMMA AmongMembers ==
  ASSUME NEW r, IsOrder(r), NEW S
  PROVE  Members(Among(r, S)) = Members(r) \intersect S
  <1>1. ASSUME NEW x \in Members(r) \intersect S PROVE x \in Members(Among(r, S))
    <2>1. <<x, x>> \in r
      BY DEF IsOrder
    <2>2. <<x, x>> \in Among(r, S)
      BY <1>1, <2>1 DEF Among
    <2> QED
      BY <2>2, FirstOf
  <1>2. ASSUME NEW x \in Members(Among(r, S)) PROVE x \in Members(r) \intersect S
    BY <1>2 DEF Members, Among
  <1> QED
    BY <1>1, <1>2

\* Whatever is looked at in an order is in order.
LEMMA AmongChain ==
  ASSUME NEW r, Chain(r), NEW S
  PROVE  Chain(Among(r, S)) /\ Members(Among(r, S)) = Members(r) \intersect S
  <1>1. Members(Among(r, S)) = Members(r) \intersect S
    BY AmongMembers DEF Chain
  <1>2. \A x, y \in Members(r) \intersect S : <<x, y>> \in Among(r, S) <=> <<x, y>> \in r
    BY DEF Among
  <1>3. Among(r, S) \subseteq (Members(r) \intersect S) \X (Members(r) \intersect S)
    BY PairOf DEF Among, Chain
  <1>4. IsOrder(Among(r, S))
    BY <1>1, <1>2, <1>3 DEF Chain, IsOrder
  <1>5. Ended(Among(r, S))
    <2>1. SUFFICES ASSUME NEW T \in SUBSET (Members(r) \intersect S), T # {}
                   PROVE  /\ \E x \in T : \A y \in T : <<y, x>> \in Among(r, S)
                          /\ \E x \in T : \A y \in T : <<x, y>> \in Among(r, S)
      BY <1>1 DEF Ended
    <2>2. PICK x \in T : \A y \in T : <<y, x>> \in r
      BY <2>1 DEF Chain, Ended
    <2>3. PICK z \in T : \A y \in T : <<z, y>> \in r
      BY <2>1 DEF Chain, Ended
    <2> QED
      BY <1>2, <2>2, <2>3
  <1> QED
    BY <1>1, <1>4, <1>5 DEF Chain

LEMMA WithoutChain ==
  ASSUME NEW r, Chain(r), NEW x
  PROVE  Chain(Without(r, x)) /\ Members(Without(r, x)) = Members(r) \ {x}
  <1>1. Without(r, x) = Among(r, Members(r) \ {x})
    BY PairOf DEF Without, Among, Chain
  <1> QED
    BY <1>1, AmongChain

LEMMA AtEndChain ==
  ASSUME NEW r, Chain(r), NEW x
  PROVE  Chain(AtEnd(r, x)) /\ Members(AtEnd(r, x)) = Members(r) \union {x}
  <1> DEFINE q == Without(r, x)
             e == AtEnd(r, x)
  <1>1. Chain(q) /\ Members(q) = Members(r) \ {x}
    BY WithoutChain
  <1>2. e = q \union ((Members(r) \union {x}) \X {x})
    BY DEF AtEnd
  <1> HIDE DEF q, e
  <1>3. Members(e) = Members(r) \union {x}
    <2>1. ASSUME NEW y \in Members(r) \union {x} PROVE y \in Members(e)
      BY <1>2, <2>1, FirstOf
    <2>2. ASSUME NEW y \in Members(e) PROVE y \in Members(r) \union {x}
      <3>1. PICK p \in e : y = p[1]
        BY <2>2 DEF Members
      <3>2. CASE p \in q
        BY <1>1, <3>1, <3>2 DEF Members
      <3>3. CASE p \in (Members(r) \union {x}) \X {x}
        BY <3>1, <3>3
      <3> QED
        BY <1>2, <3>1, <3>2, <3>3
    <2> QED
      BY <2>1, <2>2
  <1>4. \A y \in Members(r) \union {x} : <<y, x>> \in e
    BY <1>2
  <1>5. \A y, z \in Members(q) : <<y, z>> \in e <=> <<y, z>> \in q
    BY <1>1, <1>2
  <1>6. \A z \in Members(q) : <<x, z>> \notin e
    BY <1>1, <1>2, PairOf DEF Chain
  <1>7. e \subseteq Members(e) \X Members(e)
    BY <1>1, <1>2, <1>3, PairOf DEF Chain
  <1>8. IsOrder(e)
    <2>1. Members(e) = Members(q) \union {x}
      BY <1>1, <1>3
    <2>2. \A y, z \in Members(e) : <<y, z>> \in e \/ <<z, y>> \in e
      BY <1>1, <1>3, <1>4, <1>5, <2>1 DEF Chain, IsOrder
    <2>3. \A y, z \in Members(e) : <<y, z>> \in e /\ <<z, y>> \in e => y = z
      BY <1>1, <1>5, <1>6, <2>1 DEF Chain, IsOrder
    <2>4. \A u, v, w \in Members(e) : <<u, v>> \in e /\ <<v, w>> \in e => <<u, w>> \in e
      BY <1>1, <1>3, <1>4, <1>5, <1>6, <2>1 DEF Chain, IsOrder
    <2> QED
      BY <1>7, <2>2, <2>3, <2>4 DEF IsOrder
  <1>9. Ended(e)
    <2>1. SUFFICES ASSUME NEW T \in SUBSET (Members(r) \union {x}), T # {}
                   PROVE  /\ \E y \in T : \A z \in T : <<z, y>> \in e
                          /\ \E y \in T : \A z \in T : <<y, z>> \in e
      BY <1>3 DEF Ended
    <2>2. CASE T = {x}
      BY <1>4, <2>2
    <2>3. CASE T # {x}
      <3>1. T \ {x} \in SUBSET Members(q) /\ T \ {x} # {}
        BY <1>1, <2>1, <2>3
      <3>2. PICK y \in T \ {x} : \A z \in T \ {x} : <<z, y>> \in q
        BY <1>1, <3>1 DEF Chain, Ended
      <3>3. PICK z \in T \ {x} : \A y2 \in T \ {x} : <<z, y2>> \in q
        BY <1>1, <3>1 DEF Chain, Ended
      <3>4. \E a \in T : \A b \in T : <<b, a>> \in e
        <4>1. CASE x \in T
          BY <1>4, <2>1, <4>1
        <4>2. CASE x \notin T
          BY <1>2, <3>2, <4>2
        <4> QED
          BY <4>1, <4>2
      <3>5. \A b \in T : <<z, b>> \in e
        BY <1>2, <1>4, <2>1, <3>3
      <3> QED
        BY <3>4, <3>5
    <2> QED
      BY <2>2, <2>3
  <1> QED
    BY <1>3, <1>8, <1>9 DEF Chain, e

LEMMA LiftedChain ==
  ASSUME NEW r, Chain(r), NEW S
  PROVE  /\ Chain(Lifted(r, S)) /\ Members(Lifted(r, S)) = Members(r)
         /\ \A x, y \in Members(r) :
              <<x, y>> \in Lifted(r, S) <=> \/ x \notin S /\ y \in S
                                            \/ (x \in S => y \in S) /\ <<x, y>> \in r
  <1> DEFINE M == Members(r)
             e == Lifted(r, S)
  <1>1. \A x, y \in M : <<x, y>> \in e <=> \/ x \notin S /\ y \in S
                                           \/ (x \in S => y \in S) /\ <<x, y>> \in r
    BY DEF Lifted
  <1>2. e \subseteq M \X M
    BY PairOf DEF Lifted, Chain
  <1>3. \A x \in M : <<x, x>> \in r
    BY DEF Chain, IsOrder
  <1>4. Members(e) = M
    <2>1. ASSUME NEW x \in M PROVE x \in Members(e)
      BY <1>1, <1>3, FirstOf
    <2>2. ASSUME NEW x \in Members(e) PROVE x \in M
      BY <1>2, <2>2 DEF Members
    <2> QED
      BY <2>1, <2>2
  <1>5. IsOrder(r) /\ Ended(r)
    BY DEF Chain
  <1> HIDE DEF e
  <1>6. IsOrder(e)
    <2>1. \A x, y \in M : <<x, y>> \in e \/ <<y, x>> \in e
      BY <1>1, <1>5 DEF IsOrder
    <2>2. \A x, y \in M : <<x, y>> \in e /\ <<y, x>> \in e => x = y
      BY <1>1, <1>5 DEF IsOrder
    <2>3. \A x, y, z \in M : <<x, y>> \in e /\ <<y, z>> \in e => <<x, z>> \in e
      BY <1>1, <1>5 DEF IsOrder
    <2> QED
      BY <1>2, <1>4, <2>1, <2>2, <2>3 DEF IsOrder
  <1>7. Ended(e)
    <2>1. SUFFICES ASSUME NEW T \in SUBSET M, T # {}
                   PROVE  /\ \E x \in T : \A y \in T : <<y, x>> \in e
                          /\ \E x \in T : \A y \in T : <<x, y>> \in e
      BY <1>4 DEF Ended
    <2>2. \E x \in T : \A y \in T : <<y, x>> \in e
      <3>1. CASE T \intersect S = {}
        <4>1. PICK x \in T : \A y \in T : <<y, x>> \in r
          BY <1>5, <2>1 DEF Ended
        <4> QED
          BY <1>1, <2>1, <3>1, <4>1
      <3>2. CASE T \intersect S # {}
        <4>1. T \intersect S \in SUBSET M
          BY <2>1
        <4>2. PICK x \in T \intersect S : \A y \in T \intersect S : <<y, x>> \in r
          BY <1>5, <3>2, <4>1 DEF Ended
        <4> QED
          BY <1>1, <2>1, <4>2
      <3> QED
        BY <3>1, <3>2
    <2>3. \E x \in T : \A y \in T : <<x, y>> \in e
      <3>1. CASE T \ S = {}
        <4>1. PICK x \in T : \A y \in T : <<x, y>> \in r
          BY <1>5, <2>1 DEF Ended
        <4> QED
          BY <1>1, <2>1, <3>1, <4>1
      <3>2. CASE T \ S # {}
        <4>1. T \ S \in SUBSET M
          BY <2>1
        <4>2. PICK x \in T \ S : \A y \in T \ S : <<x, y>> \in r
          BY <1>5, <3>2, <4>1 DEF Ended
        <4> QED
          BY <1>1, <2>1, <4>2
      <3> QED
        BY <3>1, <3>2
    <2> QED
      BY <2>2, <2>3
  <1>8. Chain(e)
    BY <1>6, <1>7 DEF Chain
  <1> QED
    BY <1>1, <1>4, <1>8 DEF e

\* The last and the first of an order are among its members.
LEMMA EndsOf ==
  ASSUME NEW r, Chain(r), r # {}
  PROVE  /\ Last(r) \in Members(r) /\ \A y \in Members(r) : <<y, Last(r)>> \in r
         /\ First(r) \in Members(r) /\ \A y \in Members(r) : <<First(r), y>> \in r
         /\ Top(r) = Last(r)
  <1>1. Members(r) # {}
    BY DEF Members
  <1>2. /\ \E x \in Members(r) : \A y \in Members(r) : <<y, x>> \in r
        /\ \E x \in Members(r) : \A y \in Members(r) : <<x, y>> \in r
    BY <1>1 DEF Chain, Ended
  <1> QED
    BY <1>2 DEF Last, First, Top

\* Where the cycle keys go from a member of an order is a member of it.
LEMMA NeighbourOf ==
  ASSUME NEW r, Chain(r), NEW x \in Members(r)
  PROVE  Before(r, x) \in Members(r) /\ After(r, x) \in Members(r)
  <1>1. r # {}
    BY DEF Members
  <1>2. /\ Last(r) \in Members(r) /\ \A y \in Members(r) : <<y, Last(r)>> \in r
        /\ First(r) \in Members(r) /\ \A y \in Members(r) : <<First(r), y>> \in r
    BY <1>1, EndsOf
  <1>3. IsOrder(r)
    BY DEF Chain
  <1>4. ASSUME x # First(r) PROVE Before(r, x) \in Members(r)
    <2> DEFINE D == {y \in Members(r) : y # x /\ <<y, x>> \in r}
               q == {p \in r : p[2] # x /\ <<p[2], x>> \in r}
    <2>1. q = Among(r, D)
      <3>1. ASSUME NEW p \in q PROVE p \in Among(r, D)
        BY <1>3, PairOf DEF Among, IsOrder
      <3>2. ASSUME NEW p \in Among(r, D) PROVE p \in q
        BY <3>2 DEF Among
      <3> QED
        BY <3>1, <3>2
    <2>2. Chain(Among(r, D)) /\ Members(Among(r, D)) = D
      BY AmongChain
    <2>3. <<First(r), First(r)>> \in Among(r, D)
      BY <1>2, <1>4 DEF Among
    <2>4. Last(Among(r, D)) \in D
      BY <2>2, <2>3, EndsOf
    <2>5. Before(r, x) = Last(q)
      BY <1>4 DEF Before
    <2> QED
      BY <2>1, <2>4, <2>5
  <1>5. ASSUME x # Last(r) PROVE After(r, x) \in Members(r)
    <2> DEFINE D == {y \in Members(r) : y # x /\ <<x, y>> \in r}
               q == {p \in r : p[1] # x /\ <<x, p[1]>> \in r}
    <2>1. q = Among(r, D)
      <3>1. ASSUME NEW p \in q PROVE p \in Among(r, D)
        BY <1>3, PairOf DEF Among, IsOrder
      <3>2. ASSUME NEW p \in Among(r, D) PROVE p \in q
        BY <3>2 DEF Among
      <3> QED
        BY <3>1, <3>2
    <2>2. Chain(Among(r, D)) /\ Members(Among(r, D)) = D
      BY AmongChain
    <2>3. <<Last(r), Last(r)>> \in Among(r, D)
      BY <1>2, <1>5 DEF Among
    <2>4. First(Among(r, D)) \in D
      BY <2>2, <2>3, EndsOf
    <2>5. After(r, x) = First(q)
      BY <1>5 DEF After
    <2> QED
      BY <2>1, <2>4, <2>5
  <1>6. x = First(r) => Before(r, x) \in Members(r)
    BY <1>2 DEF Before
  <1>7. x = Last(r) => After(r, x) \in Members(r)
    BY <1>2 DEF After
  <1> QED
    BY <1>4, <1>5, <1>6, <1>7

-----------------------------------------------------------------------------
(* The z-order *)

\* R are the windows whose type was set again.
Paired(z, R) == {w \in Members(z) : /\ Owner[w] \in Members(z) /\ Kind[w] # "main"
                                   /\ {w, Owner[w]} \intersect R = {}}

Above(z, V) == \A w \in V : <<Owner[w], w>> \in z

Stacked(z, R) == Chain(z) /\ Members(z) \subseteq Windows /\ Above(z, Paired(z, R))

\* A window brought to the front stays above what it belongs to; what belongs
\* to it may not stay above it.
LEMMA FrontKeeps ==
  ASSUME NEW z, Chain(z), NEW V \in SUBSET Members(z), \A v \in V : Owner[v] \in Members(z),
         NEW w, \A v \in V : Owner[v] # w => <<Owner[v], v>> \in z
  PROVE  /\ Chain(BringToFront(z, w)) /\ Members(BringToFront(z, w)) = Members(z)
         /\ \A v \in V : Owner[v] # w => <<Owner[v], v>> \in BringToFront(z, w)
  BY LiftedChain DEF BringToFront

-----------------------------------------------------------------------------
(* The manager *)

Places == Windows \union {Dock}

Manager ==
  [z : SUBSET (Windows \X Windows), cycle : SUBSET (Places \X Places), cycling : BOOLEAN,
   active : Windows \union {Nobody}, previous : Windows \union {Nobody},
   modals : SUBSET (Windows \X Windows), pressed : Windows \union {Nobody},
   minimized : SUBSET Windows, entries : SUBSET Windows, dock : BOOLEAN, bar : BOOLEAN,
   closed : SUBSET Windows, kind : [Windows -> Kinds], retyped : SUBSET Windows]

\* Only what was set again is of another type than it was adopted as, and what
\* was not and owns a window is no overlay.
Typed(s) ==
  /\ s.retyped \subseteq Retypes \intersect Known(s)
  /\ \A w \in Windows \ s.retyped : s.kind[w] = Kind[w]
  /\ \A w \in Known(s) : Owner[w] # Nobody =>
       Owner[w] \in Known(s) /\ (Owner[w] \notin s.retyped => Kind[Owner[w]] = "main")

\* the inductive invariant, of a manager between two of its methods
Good(s) ==
  /\ s \in Manager
  /\ Stacked(s.z, s.retyped) /\ Chain(s.cycle) /\ Chain(s.modals)
  /\ Members(s.z) \intersect s.closed \subseteq Doomed
  /\ Members(s.z) \subseteq Members(s.cycle)
  /\ Members(s.cycle) \subseteq Known(s) \union {Dock}
  /\ {s.active, s.previous, s.pressed} \subseteq Known(s) \union {Nobody}
  /\ s.minimized \union s.entries \subseteq Known(s)
  /\ s.minimized \intersect Members(s.z) \subseteq s.entries
  /\ Typed(s)
  /\ Members(s.modals) = {w \in Members(s.z) : Kind[w] = "modal"}

\* What a method that opens and closes nothing may do of s: the keyboard goes to
\* nobody or, unless it is blocked, to one of W, and the cycle order gains no
\* more than W and the dock.
Moves(s, t, W) ==
  /\ Good(t)
  /\ t.closed = s.closed /\ t.kind = s.kind /\ t.retyped = s.retyped /\ t.modals = s.modals /\ Members(t.z) = Members(s.z)
  /\ \/ t.active \in {s.active, Nobody}
     \/ t.active \in W /\ ~Blocked(t, t.active)
  /\ Members(t.cycle) \subseteq Members(s.cycle) \union W \union {Dock}

\* What blocks a window depends on the modals alone.
LEMMA SameModals ==
  ASSUME NEW s, NEW t, s.modals = t.modals, NEW w
  PROVE  Blocked(s, w) <=> Blocked(t, w)
  BY DEF Blocked, BlockedByOwned, BlockedByApp, BlockedBySystem, TopSystemModal, TopAppModal,
         TopOwnedModal

LEMMA MovesTwice ==
  ASSUME NEW s, NEW t, NEW u, NEW V, NEW W, Moves(s, t, V), Moves(t, u, W)
  PROVE  Moves(s, u, V \union W)
  <1>1. Blocked(t, u.active) <=> Blocked(u, u.active)
    BY SameModals DEF Moves
  <1>2. t.modals = s.modals /\ u.modals = t.modals
    BY DEF Moves
  <1>3. \/ u.active \in {s.active, Nobody}
        \/ u.active \in V \union W /\ ~Blocked(u, u.active)
    BY <1>1 DEF Moves
  <1> QED
    BY <1>2, <1>3 DEF Moves

LEMMA MovesNot ==
  ASSUME NEW s, Good(s), NEW W
  PROVE  Moves(s, s, W)
  BY DEF Moves

LEMMA NotAWindow == Nobody \notin Windows /\ Dock \notin Windows \union {Nobody}
  BY WindowManagerAssumption

\* The cycle order with one more at its end
LEMMA CycleEnd ==
  ASSUME NEW s, Good(s), NEW x \in Known(s) \union {Dock}
  PROVE  /\ Chain(AtEnd(s.cycle, x)) /\ AtEnd(s.cycle, x) \in SUBSET (Places \X Places)
         /\ Members(AtEnd(s.cycle, x)) = Members(s.cycle) \union {x}
  <1>1. /\ Chain(AtEnd(s.cycle, x))
        /\ Members(AtEnd(s.cycle, x)) = Members(s.cycle) \union {x}
    BY AtEndChain DEF Good
  <1>2. Known(s) \subseteq Windows
    BY DEF Good, Typed, Known, Managed, Stacked, Manager
  <1>3. Members(s.cycle) \union {x} \subseteq Places
    BY <1>2 DEF Good, Places
  <1>4. AtEnd(s.cycle, x) \subseteq Places \X Places
    BY <1>1, <1>3 DEF Chain, IsOrder
  <1> QED
    BY <1>1, <1>4

\* Raising keeps what floats above its owner there.
LEMMA ZRaised ==
  ASSUME NEW s, Good(s), NEW w \in Windows
  PROVE  /\ Stacked(RaiseWithOverlays(s, w), s.retyped)
         /\ RaiseWithOverlays(s, w) \in SUBSET (Windows \X Windows)
         /\ Members(RaiseWithOverlays(s, w)) = Members(s.z)
  <1> DEFINE M == Members(s.z)
             V == Paired(s.z, s.retyped)
             Kept(z) == Chain(z) /\ Members(z) = M /\ Above(z, V)
  <1>1. Kept(s.z) /\ M \subseteq Windows
    BY DEF Good, Stacked
  <1>2. V \in SUBSET M /\ \A v \in V : Owner[v] \in M
    BY DEF Paired
  <1>3. ASSUME NEW v \in V PROVE IsOverlay(s, v) /\ ~IsOverlay(s, Owner[v])
    <2>1. /\ v \in Windows \ s.retyped /\ Owner[v] \in Windows \ s.retyped /\ Kind[v] # "main"
          /\ v \in Known(s)
      BY <1>1, <1>2 DEF Paired, Known, Managed
    <2>2. s.kind[v] = Kind[v] /\ s.kind[Owner[v]] = "main"
      BY <2>1, NotAWindow DEF Good, Typed
    <2>3. Kind[v] \in Kinds
      BY <2>1, WindowManagerAssumption
    <2> QED
      BY <2>1, <2>2, <2>3 DEF IsOverlay, Kinds
  <1>4. ASSUME NEW z, Kept(z), IsOverlay(s, w) PROVE Kept(BringToFront(z, w))
    <2>1. \A v \in V : Owner[v] # w
      BY <1>3, <1>4
    <2> QED
      BY <1>2, <1>4, <2>1, FrontKeeps DEF Above
  <1>5. ASSUME NEW o PROVE Kept(RaiseGroup(s, o))
    <2> DEFINE f == BringToFront(s.z, o)
               g == Lifted(f, OverlaysOf(s, o))
    <2>1. Chain(f) /\ Members(f) = M /\ \A v \in V : Owner[v] # o => <<Owner[v], v>> \in f
      BY <1>1, <1>2, FrontKeeps DEF Above
    <2> HIDE DEF f
    <2>2. /\ Chain(g) /\ Members(g) = M
          /\ \A x, y \in M : <<x, y>> \in g <=>
               \/ x \notin OverlaysOf(s, o) /\ y \in OverlaysOf(s, o)
               \/ (x \in OverlaysOf(s, o) => y \in OverlaysOf(s, o)) /\ <<x, y>> \in f
      BY <2>1, LiftedChain
    <2> HIDE DEF g
    <2>3. ASSUME NEW v \in V PROVE <<Owner[v], v>> \in g
      <3>1. v \in M /\ Owner[v] \in M /\ v \in Windows
        BY <1>1, <1>2
      <3>2. Owner[v] \notin OverlaysOf(s, o)
        BY <1>3 DEF OverlaysOf
      <3>3. Owner[v] = o => v \in OverlaysOf(s, o)
        BY <1>3, <3>1 DEF OverlaysOf
      <3> QED
        BY <2>1, <2>2, <3>1, <3>2, <3>3
    <2> QED
      BY <2>2, <2>3 DEF Above, RaiseGroup, RaiseOverlays, f, g
  <1>6. s.kind[w] \in Kinds
    BY DEF Good, Manager
  <1> HIDE DEF Kept
  <1>7. Kept(RaiseWithOverlays(s, w))
    <2>1. CASE s.kind[w] = "main"
      <3>1. RaiseWithOverlays(s, w) = RaiseGroup(s, w)
        BY <2>1 DEF RaiseWithOverlays, IsOverlay
      <3> QED
        BY <1>5, <3>1
    <2>2. CASE s.kind[w] = "palette" /\ Owner[w] # Nobody
      <3>1. RaiseWithOverlays(s, w) = BringToFront(RaiseGroup(s, Owner[w]), w) /\ IsOverlay(s, w)
        BY <2>2 DEF RaiseWithOverlays, IsOverlay
      <3> QED
        BY <1>4, <1>5, <3>1
    <2>3. CASE IsOverlay(s, w) /\ ~(s.kind[w] = "palette" /\ Owner[w] # Nobody)
      <3>1. RaiseWithOverlays(s, w) = BringToFront(s.z, w)
        BY <2>3 DEF RaiseWithOverlays, IsOverlay
      <3> QED
        BY <1>1, <1>4, <2>3, <3>1
    <2> QED
      BY <1>6, <2>1, <2>2, <2>3 DEF IsOverlay, Kinds
  <1> DEFINE z == RaiseWithOverlays(s, w)
  <1>8. Chain(z) /\ Members(z) = M /\ Above(z, V)
    BY <1>7 DEF Kept
  <1> HIDE DEF z
  <1>9. Paired(z, s.retyped) = V
    BY <1>8 DEF Paired
  <1>10. z \in SUBSET (Windows \X Windows)
    BY <1>1, <1>8 DEF Chain, IsOrder
  <1> QED
    BY <1>1, <1>8, <1>9, <1>10 DEF Stacked, z

LEMMA EndCycleMoves ==
  ASSUME NEW s, Good(s)
  PROVE  Moves(s, EndCycle(s), {s.active} \ {Nobody})
  <1> DEFINE c == IF s.active # Nobody THEN AtEnd(s.cycle, s.active)
                  ELSE IF s.dock THEN AtEnd(s.cycle, Dock) ELSE s.cycle
             t == [s EXCEPT !.cycling = FALSE, !.cycle = c]
  <1>1. /\ Chain(c) /\ c \in SUBSET (Places \X Places)
        /\ Members(s.cycle) \subseteq Members(c)
        /\ Members(c) \subseteq Members(s.cycle) \union ({s.active} \ {Nobody}) \union {Dock}
    <2>1. CASE s.active # Nobody
      <3>1. s.active \in Known(s) \union {Dock}
        BY <2>1 DEF Good
      <3> QED
        BY <2>1, <3>1, CycleEnd
    <2>2. CASE s.active = Nobody /\ s.dock
      BY <2>2, CycleEnd
    <2>3. CASE s.active = Nobody /\ ~s.dock
      BY <2>3 DEF Good, Manager
    <2> QED
      BY <2>1, <2>2, <2>3
  <1> HIDE DEF c
  <1>2. t \in Manager
    BY <1>1 DEF Good, Manager
  <1>3. /\ t.z = s.z /\ t.cycle = c /\ t.active = s.active /\ t.previous = s.previous
        /\ t.pressed = s.pressed /\ t.modals = s.modals /\ t.minimized = s.minimized
        /\ t.entries = s.entries /\ t.closed = s.closed /\ t.kind = s.kind /\ t.retyped = s.retyped
    BY DEF Good, Manager
  <1> HIDE DEF t
  <1>4. Good(t)
    BY <1>1, <1>2, <1>3 DEF Good, Typed, Known, Managed
  <1>5. Moves(s, t, {s.active} \ {Nobody})
    BY <1>1, <1>3, <1>4 DEF Moves
  <1> QED
    BY <1>5, MovesNot DEF EndCycle, t, c

\* What activation leaves alone
Beside(s, t) ==
  /\ t.minimized = s.minimized /\ t.entries = s.entries
  /\ t.previous = s.previous /\ t.pressed = s.pressed

LEMMA EndCycleBeside ==
  ASSUME NEW s, Good(s)
  PROVE  Beside(s, EndCycle(s)) /\ EndCycle(s).active = s.active
  BY DEF Beside, EndCycle, Good, Manager

LEMMA ActivateMoves ==
  ASSUME NEW s, Good(s), NEW w \in Known(s), NEW promote \in BOOLEAN
  PROVE  Moves(s, Activate(s, w, promote), {w}) /\ Beside(s, Activate(s, w, promote))
  <1> DEFINE c == IF promote THEN AtEnd(s.cycle, w) ELSE s.cycle
             z == RaiseWithOverlays(s, w)
             t == [s EXCEPT !.active = w, !.z = z, !.cycle = c, !.bar = FALSE, !.dock = FALSE]
  <1>1. /\ Chain(c) /\ c \in SUBSET (Places \X Places)
        /\ Members(s.cycle) \subseteq Members(c)
        /\ Members(c) \subseteq Members(s.cycle) \union {w}
    <2>1. CASE promote
      BY <2>1, CycleEnd
    <2>2. CASE ~promote
      BY <2>2 DEF Good, Manager
    <2> QED
      BY <2>1, <2>2
  <1>2. w \in Windows
    BY DEF Good, Typed, Known, Managed, Stacked, Manager
  <1>3. Stacked(z, s.retyped) /\ z \in SUBSET (Windows \X Windows) /\ Members(z) = Members(s.z)
    BY <1>2, ZRaised
  <1> HIDE DEF c, z
  <1>4. t \in Manager
    BY <1>1, <1>2, <1>3 DEF Good, Manager
  <1>5. /\ t.z = z /\ t.cycle = c /\ t.active = w /\ t.previous = s.previous
        /\ t.pressed = s.pressed /\ t.modals = s.modals /\ t.minimized = s.minimized
        /\ t.entries = s.entries /\ t.closed = s.closed /\ t.kind = s.kind /\ t.retyped = s.retyped
    BY DEF Good, Manager
  <1> HIDE DEF t
  <1>6. Good(t)
    BY <1>1, <1>3, <1>4, <1>5 DEF Good, Typed, Known, Managed
  <1>7. CASE w = s.active \/ Blocked(s, w)
    <2>1. Activate(s, w, promote) = s
      BY <1>7 DEF Activate
    <2> QED
      BY <2>1, MovesNot DEF Beside
  <1>8. CASE ~(w = s.active \/ Blocked(s, w))
    <2>1. Activate(s, w, promote) = t
      BY <1>8 DEF Activate, t, c, z
    <2>2. ~Blocked(t, w)
      BY <1>5, <1>8, SameModals
    <2>3. Moves(s, t, {w}) /\ Beside(s, t)
      BY <1>1, <1>3, <1>5, <1>6, <2>2 DEF Moves, Beside
    <2> QED
      BY <2>1, <2>3
  <1> QED
    BY <1>7, <1>8

LEMMA ActivateWindowMoves ==
  ASSUME NEW s, Good(s), NEW w \in Known(s)
  PROVE  /\ Moves(s, ActivateWindow(s, w), {s.active, w} \ {Nobody})
         /\ Beside(s, ActivateWindow(s, w))
  <1> DEFINE e == EndCycle(s)
             t == Activate(e, w, TRUE)
  <1>1. Moves(s, e, {s.active} \ {Nobody}) /\ Beside(s, e)
    BY EndCycleMoves, EndCycleBeside
  <1>2. Good(e) /\ w \in Known(e)
    BY <1>1 DEF Moves, Known, Managed
  <1> HIDE DEF e
  <1>3. Moves(e, t, {w}) /\ Beside(e, t)
    BY <1>2, ActivateMoves
  <1> HIDE DEF t
  <1>4. w # Nobody
    BY NotAWindow DEF Good, Typed, Known, Managed, Stacked, Manager
  <1>5. ({s.active} \ {Nobody}) \union {w} = {s.active, w} \ {Nobody}
    BY <1>4
  <1>6. Moves(s, t, {s.active, w} \ {Nobody}) /\ Beside(s, t)
    BY <1>1, <1>3, <1>5, MovesTwice DEF Beside
  <1> QED
    BY <1>6 DEF ActivateWindow, e, t

LEMMA FocusWindowMoves ==
  ASSUME NEW s, Good(s), NEW w \in Known(s)
  PROVE  /\ Moves(s, FocusWindow(s, w), {s.active, w} \ {Nobody})
         /\ Beside(s, FocusWindow(s, w))
  <1> DEFINE e == EndCycle(s)
             t == [e EXCEPT !.active = w]
  <1>1. Moves(s, e, {s.active} \ {Nobody}) /\ Beside(s, e)
    BY EndCycleMoves, EndCycleBeside
  <1>2. Good(e) /\ w \in Known(e)
    BY <1>1 DEF Moves, Known, Managed
  <1>3. w \in Windows
    BY DEF Good, Typed, Known, Managed, Stacked, Manager
  <1>4. ({s.active} \ {Nobody}) \union {w} = {s.active, w} \ {Nobody}
    BY <1>3, NotAWindow
  <1> HIDE DEF e
  <1>5. t \in Manager
    BY <1>2, <1>3 DEF Good, Manager
  <1>6. /\ t.z = e.z /\ t.cycle = e.cycle /\ t.active = w /\ t.previous = e.previous
        /\ t.pressed = e.pressed /\ t.modals = e.modals /\ t.minimized = e.minimized
        /\ t.entries = e.entries /\ t.closed = e.closed /\ t.kind = e.kind /\ t.retyped = e.retyped
    BY <1>2 DEF Good, Manager
  <1> HIDE DEF t
  <1>7. Good(t)
    BY <1>2, <1>5, <1>6 DEF Good, Typed, Known, Managed
  <1>8. CASE w = e.active \/ Blocked(e, w)
    <2>1. FocusWindow(s, w) = e
      BY <1>8 DEF FocusWindow, e
    <2>2. Moves(e, e, {w})
      BY <1>2, MovesNot
    <2> QED
      BY <1>1, <1>4, <2>1, <2>2, MovesTwice
  <1>9. CASE ~(w = e.active \/ Blocked(e, w))
    <2>1. FocusWindow(s, w) = t
      BY <1>9 DEF FocusWindow, e, t
    <2>2. ~Blocked(t, w)
      BY <1>6, <1>9, SameModals
    <2>3. Moves(e, t, {w}) /\ Beside(e, t)
      BY <1>6, <1>7, <2>2 DEF Moves, Beside
    <2> QED
      BY <1>1, <1>4, <2>1, <2>3, MovesTwice DEF Beside
  <1> QED
    BY <1>8, <1>9

\* The top of a modal stack is on it, and there is one where the stack has any.
LEMMA TopOf ==
  ASSUME NEW s, Good(s), NEW S
  PROVE  /\ Top(Among(s.modals, S)) \in (Members(s.modals) \intersect S) \union {Nobody}
         /\ Members(s.modals) \intersect S # {} =>
              Top(Among(s.modals, S)) \in Members(s.modals) \intersect S
         /\ Members(s.modals) \intersect S = {} => Top(Among(s.modals, S)) = Nobody
  <1> DEFINE a == Among(s.modals, S)
  <1>1. Chain(a) /\ Members(a) = Members(s.modals) \intersect S
    BY AmongChain DEF Good
  <1> HIDE DEF a
  <1>2. CASE a = {}
    <2>1. Members(a) = {}
      BY <1>2 DEF Members
    <2> QED
      BY <1>1, <1>2, <2>1 DEF Top, a
  <1>3. CASE a # {}
    BY <1>1, <1>3, EndsOf DEF a
  <1> QED
    BY <1>2, <1>3

LEMMA ModalsKnown ==
  ASSUME NEW s, Good(s)
  PROVE  /\ Members(s.modals) \subseteq Members(s.z) /\ Members(s.z) \subseteq Known(s)
         /\ Known(s) \subseteq Windows
  BY DEF Good, Typed, Known, Managed, Stacked, Manager

LEMMA BlockerKnown ==
  ASSUME NEW s, Good(s), NEW w, NEW t \in Blocker(s, w)
  PROVE  t \in Members(s.z)
  <1>1. t # Nobody
    BY DEF Blocker, BlockedByOwned, BlockedByApp, BlockedBySystem
  <1>2. \E S : t = Top(Among(s.modals, S))
    BY <1>1 DEF Blocker, BlockedByOwned, BlockedByApp, BlockedBySystem, TopSystemModal,
               TopAppModal, TopOwnedModal
  <1> QED
    BY <1>1, <1>2, TopOf, ModalsKnown

\* where the keyboard and the cycle order may go
Reach(s) == {s.active, s.previous} \union s.entries \union Members(s.cycle)

LEMMA MovesWider ==
  ASSUME NEW s, NEW t, NEW V, NEW W, Moves(s, t, V), V \subseteq W
  PROVE  Moves(s, t, W)
  BY DEF Moves

LEMMA RestoreMoves ==
  ASSUME NEW s, Good(s), NEW w \in Known(s)
  PROVE  Moves(s, RestoreWindow(s, w), {s.active, w})
  <1> DEFINE a == [s EXCEPT !.minimized = @ \ {w}]
             r == ActivateWindow(a, w)
             t == [r EXCEPT !.entries = @ \ {w}]
  <1>1. a \in Manager
    BY DEF Good, Manager
  <1>2. /\ a.z = s.z /\ a.cycle = s.cycle /\ a.active = s.active /\ a.previous = s.previous
        /\ a.pressed = s.pressed /\ a.modals = s.modals /\ a.minimized = s.minimized \ {w}
        /\ a.entries = s.entries /\ a.closed = s.closed /\ a.kind = s.kind /\ a.retyped = s.retyped
    BY DEF Good, Manager
  <1> HIDE DEF a
  <1>3. Good(a) /\ w \in Known(a)
    BY <1>1, <1>2 DEF Good, Typed, Known, Managed
  <1>4. Moves(a, r, {a.active, w} \ {Nobody}) /\ Beside(a, r)
    BY <1>3, ActivateWindowMoves
  <1> HIDE DEF r
  <1>5. r \in Manager
    BY <1>4 DEF Moves, Good
  <1>6. t \in Manager
    BY <1>5 DEF Manager
  <1>7. /\ t.z = r.z /\ t.cycle = r.cycle /\ t.active = r.active /\ t.previous = r.previous
        /\ t.pressed = r.pressed /\ t.modals = r.modals /\ t.minimized = r.minimized
        /\ t.entries = r.entries \ {w} /\ t.closed = r.closed /\ t.kind = r.kind /\ t.retyped = r.retyped
    BY <1>5 DEF Manager
  <1> HIDE DEF t
  <1>8. r.minimized = s.minimized \ {w} /\ r.entries = s.entries
    BY <1>2, <1>4 DEF Beside
  <1>9. Good(t)
    BY <1>4, <1>6, <1>7, <1>8 DEF Good, Typed, Known, Managed, Moves
  <1>10. Blocked(t, t.active) <=> Blocked(r, r.active)
    BY <1>7, SameModals
  <1>11. Moves(s, t, {s.active, w})
    BY <1>2, <1>4, <1>7, <1>9, <1>10 DEF Moves
  <1> QED
    BY <1>11 DEF RestoreWindow, a, r, t

LEMMA AttentionMoves ==
  ASSUME NEW s, Good(s), NEW w \in Known(s)
  PROVE  Moves(s, BringToAttention(s, w), {s.active, w})
  <1>1. Moves(s, RestoreWindow(s, w), {s.active, w})
    BY RestoreMoves
  <1>2. Moves(s, ActivateWindow(s, w), {s.active, w})
    <2>1. Moves(s, ActivateWindow(s, w), {s.active, w} \ {Nobody})
      BY ActivateWindowMoves
    <2>2. {s.active, w} \ {Nobody} \subseteq {s.active, w}
      OBVIOUS
    <2> QED
      BY <2>1, <2>2, MovesWider
  <1> QED
    BY <1>1, <1>2 DEF BringToAttention

LEMMA ModalOverMoves ==
  ASSUME NEW s, Good(s), NEW w
  PROVE  Moves(s, RaiseTopModalOver(s, w), {s.active} \union Members(s.modals))
  <1> DEFINE top == TopSystemModal(s)
  <1>1. CASE top \in {Nobody, w} \union s.minimized
    BY <1>1, MovesNot DEF RaiseTopModalOver
  <1>2. CASE top \notin {Nobody, w} \union s.minimized
    <2>1. top \in Members(s.modals)
      BY <1>2, TopOf DEF TopSystemModal
    <2>2. top \in Known(s)
      BY <2>1, ModalsKnown
    <2>3. Moves(s, ActivateWindow(s, top), {s.active, top} \ {Nobody})
      BY <2>2, ActivateWindowMoves
    <2> QED
      BY <1>2, <2>1, <2>3, MovesWider DEF RaiseTopModalOver
  <1> QED
    BY <1>1, <1>2

LEMMA PreviousMoves ==
  ASSUME NEW s, Good(s)
  PROVE  Moves(s, RestorePrevious(s), {s.active, s.previous} \ {Nobody})
  <1> DEFINE r == [s EXCEPT !.previous = Nobody]
  <1>1. r \in Manager
    BY DEF Good, Manager
  <1>2. /\ r.z = s.z /\ r.cycle = s.cycle /\ r.active = s.active /\ r.previous = Nobody
        /\ r.pressed = s.pressed /\ r.modals = s.modals /\ r.minimized = s.minimized
        /\ r.entries = s.entries /\ r.closed = s.closed /\ r.kind = s.kind /\ r.retyped = s.retyped
    BY DEF Good, Manager
  <1> HIDE DEF r
  <1>3. Good(r)
    BY <1>1, <1>2 DEF Good, Typed, Known, Managed
  <1>4. Moves(s, r, {})
    BY <1>2, <1>3 DEF Moves
  <1>5. CASE s.previous = Nobody
    <2>1. Moves(s, r, {s.active, s.previous} \ {Nobody})
      BY <1>4, MovesWider
    <2>2. RestorePrevious(s) = r
      BY <1>5 DEF RestorePrevious, r
    <2> QED
      BY <2>1, <2>2
  <1>6. CASE s.previous # Nobody
    <2>1. s.previous \in Known(r)
      BY <1>2, <1>6 DEF Good, Typed, Known, Managed
    <2>2. Moves(r, ActivateWindow(r, s.previous), {r.active, s.previous} \ {Nobody})
      BY <1>3, <2>1, ActivateWindowMoves
    <2>3. Moves(s, ActivateWindow(r, s.previous), {s.active, s.previous} \ {Nobody})
      BY <1>2, <1>4, <2>2, MovesTwice
    <2> QED
      BY <1>6, <2>3 DEF RestorePrevious, r
  <1> QED
    BY <1>5, <1>6

-----------------------------------------------------------------------------
(* The steps that open and close nothing *)

LEMMA PressMoves ==
  ASSUME NEW s, NEW t, NEW u, NEW W, Moves(s, t, W), NEW p \in Known(s) \union {Nobody},
         u = [t EXCEPT !.pressed = p]
  PROVE  Moves(s, u, W)
  <1>1. t \in Manager /\ p \in Windows \union {Nobody}
    BY DEF Moves, Good, Known, Managed, Stacked, Manager
  <1>2. u \in Manager
    BY <1>1 DEF Manager
  <1>3. /\ u.z = t.z /\ u.cycle = t.cycle /\ u.active = t.active /\ u.previous = t.previous
        /\ u.pressed = p /\ u.modals = t.modals /\ u.minimized = t.minimized
        /\ u.entries = t.entries /\ u.closed = t.closed /\ u.kind = t.kind /\ u.retyped = t.retyped
    BY <1>1 DEF Manager
  <1>4. Good(u)
    BY <1>2, <1>3 DEF Moves, Good, Typed, Known, Managed
  <1>5. Blocked(t, t.active) <=> Blocked(u, u.active)
    BY <1>3, SameModals
  <1> QED
    BY <1>3, <1>4, <1>5 DEF Moves

\* How the cycle keys and the menu bar set the keyboard and the bar
LEMMA SetMoves ==
  ASSUME NEW s, Good(s), NEW t, NEW cyc \in BOOLEAN, NEW d \in BOOLEAN, NEW b \in BOOLEAN,
         NEW act \in {s.active, Nobody}, NEW prev \in {s.active, s.previous},
         t = [s EXCEPT !.cycling = cyc, !.active = act, !.previous = prev, !.dock = d, !.bar = b]
  PROVE  Moves(s, t, {})
  <1>1. t \in Manager
    BY DEF Good, Manager
  <1>2. /\ t.z = s.z /\ t.cycle = s.cycle /\ t.active = act /\ t.previous = prev
        /\ t.pressed = s.pressed /\ t.modals = s.modals /\ t.minimized = s.minimized
        /\ t.entries = s.entries /\ t.closed = s.closed /\ t.kind = s.kind /\ t.retyped = s.retyped
    BY DEF Good, Manager
  <1>3. Good(t)
    BY <1>1, <1>2 DEF Good, Typed, Known, Managed
  <1> QED
    BY <1>2, <1>3 DEF Moves

LEMMA WalkIn ==
  ASSUME NEW s, Good(s), Walk(s) # {}
  PROVE  /\ Before(Walk(s), Standing(s)) \in Members(s.cycle) \union {Dock}
         /\ After(Walk(s), Standing(s)) \in Members(s.cycle) \union {Dock}
  <1> DEFINE shown == {x \in Members(s.cycle) : x = Dock \/ x \notin s.minimized}
             r == Among(s.cycle, IF s.entries = {} THEN shown \ {Dock} ELSE shown)
  <1>1. Chain(r) /\ Members(r) \subseteq Members(s.cycle)
    BY AmongChain DEF Good
  <1>2. Chain(AtEnd(r, Dock)) /\ Members(AtEnd(r, Dock)) = Members(r) \union {Dock}
    BY <1>1, AtEndChain
  <1>3. Walk(s) = IF s.entries # {} /\ Dock \notin shown THEN AtEnd(r, Dock) ELSE r
    BY DEF Walk
  <1> HIDE DEF shown, r
  <1>4. Chain(Walk(s)) /\ Members(Walk(s)) \subseteq Members(s.cycle) \union {Dock}
    BY <1>1, <1>2, <1>3
  <1>5. Standing(s) \in Members(Walk(s))
    BY <1>4, EndsOf DEF Standing
  <1> QED
    BY <1>4, <1>5, NeighbourOf

\* The steps that open and close nothing move the keyboard and the cycle order
\* within what they reach.
Quiet ==
  \/ \E w \in Windows :
       \/ ClickDock(w) \/ SurfaceWindow(w) \/ PressTitle(w) \/ PressContent(w) \/ PressBlocked(w)
       \/ MinimizeWindow(w)
  \/ Release \/ OpenMenu \/ DismissMenu \/ EndRun \/ CycleWindows

LEMMA QuietMoves ==
  ASSUME Good(m), Quiet
  PROVE  Moves(m, m', Reach(m))
  <1>1. Members(m.z) \subseteq Members(m.cycle) /\ Members(m.z) \subseteq Known(m)
        /\ m.entries \subseteq Known(m) /\ Known(m) \subseteq Windows
        /\ {m.active, m.previous, m.pressed} \subseteq Known(m) \union {Nobody}
        /\ Members(m.cycle) \subseteq Known(m) \union {Dock}
        /\ m.minimized \subseteq Known(m)
    BY ModalsKnown DEF Good
  <1>15. {m.cycling, m.dock, m.bar} \subseteq BOOLEAN
    BY DEF Good, Manager
  <1>2. OnScreen(m) \subseteq Members(m.z)
    BY DEF OnScreen, Managed
  <1>3. ASSUME NEW w \in Windows, ClickDock(w) PROVE Moves(m, m', Reach(m))
    <2>1. w \in Known(m) /\ {m.active, w} \subseteq Reach(m) /\ m' = RestoreWindow(m, w)
      BY <1>1, <1>3 DEF ClickDock, Reach
    <2> QED
      BY <2>1, RestoreMoves, MovesWider
  <1>4. ASSUME NEW w \in Windows, SurfaceWindow(w) PROVE Moves(m, m', Reach(m))
    <2>1. w \in Known(m) /\ {m.active, w} \subseteq Reach(m) /\ m' = BringToAttention(m, w)
      BY <1>1, <1>4 DEF SurfaceWindow, Reach, Managed
    <2> QED
      BY <2>1, AttentionMoves, MovesWider
  <1>5. ASSUME NEW w \in Windows, PressTitle(w) PROVE Moves(m, m', Reach(m))
    <2>1. PICK p \in {Nobody, m.pressed} : m' = [ActivateWindow(m, w) EXCEPT !.pressed = p]
      BY <1>5 DEF PressTitle
    <2>2. w \in Known(m) /\ {m.active, w} \ {Nobody} \subseteq Reach(m)
      BY <1>1, <1>2, <1>5 DEF PressTitle, Reach
    <2>3. p \in Known(m) \union {Nobody}
      BY <1>1
    <2>4. Moves(m, ActivateWindow(m, w), Reach(m))
      BY <2>2, ActivateWindowMoves, MovesWider
    <2> QED
      BY <2>1, <2>3, <2>4, PressMoves
  <1>6. ASSUME NEW w \in Windows, PressContent(w) PROVE Moves(m, m', Reach(m))
    <2>1. m' = [FocusWindow(m, w) EXCEPT !.pressed = w]
      BY <1>6 DEF PressContent
    <2>2. w \in Known(m) /\ {m.active, w} \ {Nobody} \subseteq Reach(m)
      BY <1>1, <1>2, <1>6 DEF PressContent, Reach
    <2>3. Moves(m, FocusWindow(m, w), Reach(m))
      BY <2>2, FocusWindowMoves, MovesWider
    <2> QED
      BY <2>1, <2>2, <2>3, PressMoves
  <1>7. ASSUME NEW w \in Windows, PressBlocked(w) PROVE Moves(m, m', Reach(m))
    <2> DEFINE top == TopSystemModal(m)
    <2>1. PICK p \in {Nobody, m.pressed} :
            IF top \in m.minimized
            THEN m' = [RestoreWindow(m, top) EXCEPT !.pressed = p]
            ELSE \E t \in Blocker(m, w) : m' = [BringToAttention(m, t) EXCEPT !.pressed = p]
      BY <1>7 DEF PressBlocked
    <2>2. p \in Known(m) \union {Nobody}
      BY <1>1
    <2>3. CASE top \in m.minimized
      <3>1. top \in Known(m) /\ top # Nobody
        BY <1>1, <2>3, NotAWindow
      <3>2. top \in Members(m.z)
        BY <3>1, TopOf, ModalsKnown DEF TopSystemModal
      <3>3. {m.active, top} \subseteq Reach(m)
        BY <1>1, <3>2 DEF Reach
      <3>4. Moves(m, RestoreWindow(m, top), Reach(m))
        BY <3>1, <3>3, RestoreMoves, MovesWider
      <3> QED
        BY <2>1, <2>2, <2>3, <3>4, PressMoves
    <2>4. CASE top \notin m.minimized
      <3>1. PICK t \in Blocker(m, w) : m' = [BringToAttention(m, t) EXCEPT !.pressed = p]
        BY <2>1, <2>4
      <3>2. t \in Members(m.z)
        BY BlockerKnown
      <3>3. t \in Known(m) /\ {m.active, t} \subseteq Reach(m)
        BY <1>1, <3>2 DEF Reach
      <3>4. Moves(m, BringToAttention(m, t), Reach(m))
        BY <3>3, AttentionMoves, MovesWider
      <3> QED
        BY <2>2, <3>1, <3>4, PressMoves
    <2> QED
      BY <2>3, <2>4
  <1>8. ASSUME NEW w \in Windows, MinimizeWindow(w) PROVE Moves(m, m', Reach(m))
    <2>1. m' = [m EXCEPT !.minimized = @ \union {w}, !.entries = @ \union {w}] /\ w \in Known(m)
      BY <1>1, <1>2, <1>8 DEF MinimizeWindow
    <2>2. m' \in Manager
      BY <2>1 DEF Good, Manager
    <2>3. /\ m'.z = m.z /\ m'.cycle = m.cycle /\ m'.active = m.active /\ m'.previous = m.previous
          /\ m'.pressed = m.pressed /\ m'.modals = m.modals /\ m'.closed = m.closed /\ m'.kind = m.kind /\ m'.retyped = m.retyped
          /\ m'.minimized = m.minimized \union {w} /\ m'.entries = m.entries \union {w}
      BY <2>1 DEF Good, Manager
    <2>4. Good(m')
      BY <2>1, <2>2, <2>3 DEF Good, Typed, Known, Managed
    <2> QED
      BY <2>3, <2>4 DEF Moves
  <1>9. CASE Release
    <2> DEFINE n == [m EXCEPT !.z = RaiseWithOverlays(m, m.pressed)]
    <2>1. CASE m' = [m EXCEPT !.pressed = Nobody]
      BY <2>1, MovesNot, PressMoves
    <2>2. CASE /\ m.pressed \in OnScreen(m)
               /\ m' = [m EXCEPT !.pressed = Nobody, !.z = RaiseWithOverlays(m, m.pressed)]
      <3> DEFINE z == RaiseWithOverlays(m, m.pressed)
      <3>1. m.pressed \in Windows
        BY <1>1, <1>2, <2>2
      <3>2. Stacked(z, m.retyped) /\ z \in SUBSET (Windows \X Windows) /\ Members(z) = Members(m.z)
        BY <3>1, ZRaised
      <3> HIDE DEF z
      <3>3. m' = [m EXCEPT !.pressed = Nobody, !.z = z]
        BY <2>2 DEF z
      <3>4. m' \in Manager
        BY <3>2, <3>3 DEF Good, Manager
      <3>5. /\ m'.z = z /\ m'.cycle = m.cycle /\ m'.active = m.active /\ m'.previous = m.previous
            /\ m'.pressed = Nobody /\ m'.modals = m.modals /\ m'.minimized = m.minimized
            /\ m'.entries = m.entries /\ m'.closed = m.closed /\ m'.kind = m.kind /\ m'.retyped = m.retyped
        BY <3>3 DEF Good, Manager
      <3>6. Good(m')
        BY <3>2, <3>4, <3>5 DEF Good, Typed, Known, Managed
      <3> QED
        BY <3>2, <3>5, <3>6 DEF Moves
    <2> QED
      BY <1>9, <2>1, <2>2 DEF Release
  <1>10. CASE OpenMenu
    <2>1. CASE m.active = Nobody
      <3>1. m' = [m EXCEPT !.cycling = m.cycling, !.active = m.active, !.previous = m.previous,
                           !.dock = m.dock, !.bar = TRUE]
        BY <1>10, <2>1 DEF OpenMenu, DeactivateActive, Good, Manager
      <3>2. Moves(m, m', {})
        BY <1>15, <3>1, SetMoves
      <3> QED
        BY <3>2, MovesWider
    <2>2. CASE m.active # Nobody
      <3>1. m' = [m EXCEPT !.cycling = m.cycling, !.active = Nobody, !.previous = m.active,
                           !.dock = m.dock, !.bar = TRUE]
        BY <1>10, <2>2 DEF OpenMenu, DeactivateActive, Good, Manager
      <3>2. Moves(m, m', {})
        BY <1>15, <3>1, SetMoves
      <3> QED
        BY <3>2, MovesWider
    <2> QED
      BY <2>1, <2>2
  <1>11. CASE DismissMenu
    <2> DEFINE a == [m EXCEPT !.bar = FALSE]
    <2>1. a = [m EXCEPT !.cycling = m.cycling, !.active = m.active, !.previous = m.previous,
                        !.dock = m.dock, !.bar = FALSE]
      BY DEF Good, Manager
    <2>2. Moves(m, a, {})
      BY <1>15, <2>1, SetMoves
    <2>3. a.active = m.active /\ a.previous = m.previous
      BY DEF Good, Manager
    <2> HIDE DEF a
    <2>4. Moves(a, RestorePrevious(a), {m.active, m.previous} \ {Nobody})
      BY <2>2, <2>3, PreviousMoves DEF Moves
    <2>5. Moves(m, RestorePrevious(a), {} \union ({m.active, m.previous} \ {Nobody}))
      BY <2>2, <2>4, MovesTwice
    <2>6. m' = RestorePrevious(a)
      BY <1>11 DEF DismissMenu, a
    <2> QED
      BY <2>5, <2>6, MovesWider DEF Reach
  <1>12. CASE EndRun
    <2>1. Moves(m, EndCycle(m), {m.active} \ {Nobody})
      BY EndCycleMoves
    <2> QED
      BY <1>12, <2>1, MovesWider DEF EndRun, Reach
  <1>13. CASE CycleWindows
    <2>1. ASSUME NEW x \in Members(m.cycle) \union {Dock}, CycleTo(x) PROVE Moves(m, m', Reach(m))
      <3>1. CASE x = Dock
        <4>1. m' = [m EXCEPT !.cycling = TRUE, !.active = Nobody, !.previous = m.previous,
                             !.dock = TRUE, !.bar = m.bar]
          BY <2>1, <3>1 DEF CycleTo, Good, Manager
        <4>2. Moves(m, m', {})
          BY <1>15, <4>1, SetMoves
        <4> QED
          BY <4>2, MovesWider
      <3>2. CASE x # Dock
        <4> DEFINE a == [m EXCEPT !.cycling = TRUE, !.dock = FALSE]
        <4>1. a = [m EXCEPT !.cycling = TRUE, !.active = m.active, !.previous = m.previous,
                            !.dock = FALSE, !.bar = m.bar]
          BY DEF Good, Manager
        <4>2. Moves(m, a, {})
          BY <1>15, <4>1, SetMoves
        <4> HIDE DEF a
        <4>3. x \in Known(a)
          BY <1>1, <3>2, <4>2 DEF Moves, Known, Managed
        <4>4. Moves(a, Activate(a, x, FALSE), {x})
          BY <4>2, <4>3, ActivateMoves DEF Moves
        <4>5. Moves(m, Activate(a, x, FALSE), {} \union {x})
          BY <4>2, <4>4, MovesTwice
        <4>6. m' = Activate(a, x, FALSE)
          BY <2>1, <3>2 DEF CycleTo, a
        <4>7. {} \union {x} \subseteq Reach(m)
          BY <3>2 DEF Reach
        <4> QED
          BY <4>5, <4>6, <4>7, MovesWider
      <3> QED
        BY <3>1, <3>2
    <2>2. CASE Walk(m) = {} /\ m' = [m EXCEPT !.cycling = TRUE]
      <3>1. m' = [m EXCEPT !.cycling = TRUE, !.active = m.active, !.previous = m.previous,
                           !.dock = m.dock, !.bar = m.bar]
        BY <2>2 DEF Good, Manager
      <3>2. Moves(m, m', {})
        BY <1>15, <3>1, SetMoves
      <3> QED
        BY <3>2, MovesWider
    <2> QED
      BY <1>13, <2>1, <2>2, WalkIn DEF CycleWindows
  <1> QED
    BY <1>3, <1>4, <1>5, <1>6, <1>7, <1>8, <1>9, <1>10, <1>11, <1>12, <1>13 DEF Quiet

-----------------------------------------------------------------------------
(* The steps that open a window *)

Opened(s, r, w, C) ==
  /\ Good(r) /\ r.closed = C /\ r.active = s.active
  /\ Members(r.z) = Members(s.z) \union {w}
  /\ Members(r.cycle) = Members(s.cycle) \union {w}

\* A window put on top and in the cycle order, and on its modal stack, whether
\* it is open or has closed already
LEMMA RegisteredGood ==
  ASSUME NEW s, Good(s), NEW w \in Windows, w \notin Known(s),
         Owner[w] # Nobody => Owner[w] \in Known(s) /\ ~IsOverlay(s, Owner[w]),
         NEW C, C = s.closed \/ (w \in Doomed /\ C = s.closed \union {w})
  PROVE  Opened(s, Registered([s EXCEPT !.z = AtEnd(@, w), !.cycle = AtEnd(@, w), !.closed = C], w), w, C)
  <1> DEFINE z == AtEnd(s.z, w)
             c == AtEnd(s.cycle, w)
             l == IF Kind[w] = "modal" THEN AtEnd(s.modals, w) ELSE s.modals
             t == [s EXCEPT !.z = z, !.cycle = c, !.modals = l, !.closed = C]
  <1>1. Chain(z) /\ Members(z) = Members(s.z) \union {w}
    BY AtEndChain DEF Good, Stacked
  <1>2. Chain(c) /\ Members(c) = Members(s.cycle) \union {w}
    BY AtEndChain DEF Good
  <1>3. Chain(l) /\ Members(l) = {v \in Members(z) : Kind[v] = "modal"}
    <2>1. Members(s.modals) = {v \in Members(s.z) : Kind[v] = "modal"} /\ Chain(s.modals)
      BY DEF Good
    <2>2. CASE Kind[w] = "modal"
      <3>1. Chain(l) /\ Members(l) = Members(s.modals) \union {w}
        BY <2>1, <2>2, AtEndChain
      <3> QED
        BY <1>1, <2>1, <2>2, <3>1
    <2>3. CASE Kind[w] # "modal"
      BY <1>1, <2>1, <2>3
    <2> QED
      BY <2>2, <2>3
  <1>4. Above(z, Paired(z, s.retyped))
    <2>1. SUFFICES ASSUME NEW v \in Paired(z, s.retyped)
                   PROVE  <<Owner[v], v>> \in z
      BY DEF Above
    <2>2. v \in Members(s.z) \union {w} /\ Owner[v] \in Members(s.z) \union {w}
      BY <1>1, <2>1 DEF Paired
    <2>3. CASE v = w
      BY <2>2, <2>3 DEF AtEnd
    <2>4. CASE v # w
      <3>1. v \in Known(s) /\ Owner[v] \in Windows
        BY <2>2, <2>4, ModalsKnown
      <3>2. Owner[v] \in Known(s)
        BY <3>1, NotAWindow DEF Good, Typed
      <3>3. Owner[v] # w /\ Owner[v] \in Members(s.z)
        BY <2>2, <3>2
      <3>4. v \in Paired(s.z, s.retyped)
        BY <2>1, <2>2, <2>4, <3>3 DEF Paired
      <3>5. <<Owner[v], v>> \in s.z
        BY <3>4 DEF Good, Stacked, Above
      <3> QED
        BY <2>4, <3>3, <3>5 DEF AtEnd, Without
    <2> QED
      BY <2>3, <2>4
  <1>5. Members(s.z) \subseteq Windows /\ Members(s.cycle) \subseteq Places
    BY ModalsKnown DEF Good, Places
  <1>6. z \in SUBSET (Windows \X Windows) /\ l \in SUBSET (Windows \X Windows)
    <2>1. Members(z) \subseteq Windows /\ Members(l) \subseteq Windows
      BY <1>1, <1>3, <1>5
    <2> QED
      BY <1>1, <1>3, <2>1 DEF Chain, IsOrder
  <1>7. c \in SUBSET (Places \X Places)
    <2>1. Members(c) \subseteq Places
      BY <1>2, <1>5 DEF Places
    <2> QED
      BY <1>2, <2>1 DEF Chain, IsOrder
  <1>8. w \notin s.retyped /\ s.kind[w] = Kind[w]
    BY DEF Good, Typed
  <1>9. Registered([s EXCEPT !.z = AtEnd(@, w), !.cycle = AtEnd(@, w), !.closed = C], w) = t
    BY <1>8 DEF Registered, Good, Manager
  <1>10. C \in SUBSET Windows
    BY DEF Good, Manager
  <1> HIDE DEF z, c, l
  <1>11. t \in Manager
    BY <1>6, <1>7, <1>10 DEF Good, Manager
  <1>12. /\ t.z = z /\ t.cycle = c /\ t.active = s.active /\ t.previous = s.previous
         /\ t.pressed = s.pressed /\ t.modals = l /\ t.minimized = s.minimized
         /\ t.entries = s.entries /\ t.closed = C /\ t.kind = s.kind /\ t.retyped = s.retyped
    BY DEF Good, Manager
  <1> HIDE DEF t
  <1>13. Known(t) = Known(s) \union {w}
    BY <1>1, <1>12 DEF Known, Managed
  <1>14. Typed(t)
    <2>1. ASSUME NEW v \in Known(t), Owner[v] # Nobody
          PROVE  /\ Owner[v] \in Known(t)
                 /\ Owner[v] \notin t.retyped => Kind[Owner[v]] = "main"
      <3>1. CASE v = w
        <4>1. Owner[w] \in Known(s) /\ Owner[w] \in Windows /\ s.kind[Owner[w]] = "main"
          BY <2>1, <3>1, ModalsKnown DEF IsOverlay, Good, Manager, Kinds
        <4> QED
          BY <1>12, <1>13, <3>1, <4>1 DEF Good, Typed
      <3>2. CASE v # w
        BY <1>12, <1>13, <2>1, <3>2 DEF Good, Typed
      <3> QED
        BY <3>1, <3>2
    <2>2. t.retyped \subseteq Retypes \intersect Known(t)
      BY <1>12, <1>13 DEF Good, Typed
    <2>3. \A v \in Windows \ t.retyped : t.kind[v] = Kind[v]
      BY <1>12 DEF Good, Typed
    <2> QED
      BY <2>1, <2>2, <2>3 DEF Typed
  <1>15. Stacked(t.z, t.retyped)
    BY <1>1, <1>4, <1>5, <1>12 DEF Stacked
  <1>16. Good(t)
    <2>1. Members(t.z) \intersect t.closed \subseteq Doomed
      <3>1. Members(s.z) \intersect s.closed \subseteq Doomed
        BY DEF Good
      <3> QED
        BY <1>1, <1>12, <3>1 DEF Known, Managed
    <2>2. t.minimized \intersect Members(t.z) \subseteq t.entries
      BY <1>1, <1>12 DEF Good
    <2>3. /\ Members(t.z) \subseteq Members(t.cycle)
          /\ Members(t.cycle) \subseteq Known(t) \union {Dock}
      BY <1>1, <1>2, <1>12, <1>13 DEF Good
    <2>4. /\ {t.active, t.previous, t.pressed} \subseteq Known(t) \union {Nobody}
          /\ t.minimized \union t.entries \subseteq Known(t)
      BY <1>12, <1>13 DEF Good
    <2>5. Members(t.modals) = {v \in Members(t.z) : Kind[v] = "modal"}
      BY <1>3, <1>12
    <2> QED
      BY <1>2, <1>3, <1>11, <1>12, <1>14, <1>15, <2>1, <2>2, <2>3, <2>4, <2>5 DEF Good
  <1> QED
    BY <1>1, <1>2, <1>9, <1>12, <1>16 DEF Opened

\* Opening a window gives the keyboard to it, to a modal or to nobody else.
LEMMA AddMoves ==
  ASSUME Good(m), NEW w \in Windows, AddWindow(w)
  PROVE  /\ Good(m')
         /\ m'.closed = m.closed \/ m'.closed = m.closed \union {w}
         /\ w \notin Members(m.z) /\ Members(m'.z) = Members(m.z) \union {w}
         /\ m'.active \in {m.active, Nobody} \/ ~Blocked(m', m'.active)
         /\ {m'.active} \union Members(m'.cycle) \subseteq
              {m.active, Nobody, Dock} \union Members(m'.z) \union Members(m.cycle)
  <1>1. /\ w \notin Known(m)
        /\ Owner[w] # Nobody => Owner[w] \in Known(m) /\ ~IsOverlay(m, Owner[w])
    BY DEF AddWindow
  <1>2. PICK C : /\ C = m.closed \/ (w \in Doomed /\ C = m.closed \union {w})
                 /\ m' = Added([m EXCEPT !.closed = C], w)
    <2>1. [m EXCEPT !.closed = m.closed] = m
      BY DEF Good, Manager
    <2>2. CASE m' = Added(m, w)
      BY <2>1, <2>2
    <2>3. CASE w \in Doomed /\ m' = Added([m EXCEPT !.closed = @ \union {w}], w)
      BY <2>3
    <2> QED
      BY <2>2, <2>3 DEF AddWindow
  <1> DEFINE p == [m EXCEPT !.z = AtEnd(@, w), !.cycle = AtEnd(@, w), !.closed = C]
             r == Registered(p, w)
             a == ActivateWindow(r, w)
             W == ({r.active, w} \ {Nobody}) \union ({a.active} \union Members(a.modals))
  <1>3. /\ Good(r) /\ r.closed = C /\ r.active = m.active
        /\ Members(r.z) = Members(m.z) \union {w}
        /\ Members(r.cycle) = Members(m.cycle) \union {w}
    <2>1. Opened(m, r, w, C)
      BY <1>1, <1>2, RegisteredGood
    <2> QED
      BY <2>1 DEF Opened
  <1>4. m' = RaiseTopModalOver(a, w)
    <2> DEFINE b == [m EXCEPT !.closed = C]
    <2>1. [b EXCEPT !.z = AtEnd(@, w), !.cycle = AtEnd(@, w)] = p
      BY DEF Good, Manager
    <2> QED
      BY <1>2, <2>1 DEF Added
  <1> HIDE DEF p, r
  <1>5. Moves(r, a, {r.active, w} \ {Nobody})
    BY <1>3, ActivateWindowMoves DEF Known, Managed
  <1> HIDE DEF a
  <1>6. Moves(a, m', {a.active} \union Members(a.modals))
    BY <1>4, <1>5, ModalOverMoves DEF Moves
  <1>7. Moves(r, m', W)
    BY <1>5, <1>6, MovesTwice
  <1>8. Members(m'.z) = Members(m.z) \union {w}
    BY <1>3, <1>7 DEF Moves
  <1>9. a.active \in {m.active, Nobody, w}
    BY <1>3, <1>5 DEF Moves
  <1>10. Members(a.modals) \subseteq Members(m'.z)
    BY <1>5, <1>6, ModalsKnown DEF Moves
  <1>11. W \subseteq {m.active, Nobody} \union Members(m'.z)
    BY <1>3, <1>8, <1>9, <1>10
  <1>12. w \notin Members(m.z) /\ (m'.closed = m.closed \/ m'.closed = m.closed \union {w})
    BY <1>1, <1>2, <1>3, <1>7 DEF Moves, Known, Managed
  <1> HIDE DEF W
  <1> QED
    BY <1>3, <1>7, <1>8, <1>11, <1>12 DEF Moves

\* Setting a type moves nothing.
LEMMA TypeMoves ==
  ASSUME Good(m), NEW w \in Windows, NEW k \in Kinds, SetType(w, k)
  PROVE  /\ Good(m') /\ m'.active = m.active /\ m'.closed = m.closed /\ m'.cycle = m.cycle
  <1>1. w \in Retypes \intersect Known(m) /\ m' = [m EXCEPT !.kind[w] = k, !.retyped = @ \union {w}]
    BY DEF SetType
  <1>2. m' \in Manager
    BY <1>1 DEF Good, Manager
  <1>3. /\ m'.z = m.z /\ m'.cycle = m.cycle /\ m'.active = m.active /\ m'.previous = m.previous
        /\ m'.pressed = m.pressed /\ m'.modals = m.modals /\ m'.minimized = m.minimized
        /\ m'.entries = m.entries /\ m'.closed = m.closed
        /\ m'.kind = [m.kind EXCEPT ![w] = k] /\ m'.retyped = m.retyped \union {w}
    BY <1>1 DEF Good, Manager
  <1>4. Known(m') = Known(m)
    BY <1>3 DEF Known, Managed
  <1>5. Typed(m')
    BY <1>1, <1>3, <1>4 DEF Good, Typed, Manager
  <1>6. Stacked(m'.z, m'.retyped)
    <2>1. Paired(m'.z, m'.retyped) \subseteq Paired(m.z, m.retyped)
      BY <1>3 DEF Paired
    <2> QED
      BY <1>3, <2>1 DEF Good, Stacked, Above
  <1>7. Good(m')
    BY <1>2, <1>3, <1>4, <1>5, <1>6 DEF Good
  <1> QED
    BY <1>3, <1>7

-----------------------------------------------------------------------------
(* The steps that close a window *)

LEMMA ClosedGood ==
  ASSUME NEW s, Good(s), NEW w \in Members(s.z), w \notin s.closed
  PROVE  LET t == Closed(s, w)
         IN /\ Good(t) /\ t.closed = s.closed \union {w}
            /\ t.active # s.active => s.active = w
            /\ t.active # s.active => t.active \in Members(t.z) \union {Nobody}
            /\ s.active = w => t.active \in Members(t.z) \union {Nobody}
            /\ Members(t.cycle) = Members(s.cycle) \ {w}
  <1> DEFINE z == Without(s.z, w)
             c == Without(s.cycle, w)
             l == Without(s.modals, w)
             k == IF s.active = w THEN Top(z) ELSE s.active
             t == [s EXCEPT !.z = z, !.cycle = c, !.active = k, !.modals = l,
                            !.closed = @ \union {w}]
  <1>1. Chain(z) /\ Members(z) = Members(s.z) \ {w}
    BY WithoutChain DEF Good, Stacked
  <1>2. Chain(c) /\ Members(c) = Members(s.cycle) \ {w}
    BY WithoutChain DEF Good
  <1>3. Chain(l) /\ Members(l) = Members(s.modals) \ {w}
    BY WithoutChain DEF Good
  <1>4. Above(z, Paired(z, s.retyped))
    BY <1>1 DEF Above, Paired, Without, Good, Stacked
  <1>5. Top(z) \in Members(z) \union {Nobody}
    BY <1>1, EndsOf DEF Top
  <1>6. z \subseteq s.z /\ c \subseteq s.cycle /\ l \subseteq s.modals
    BY DEF Without
  <1>7. w \in Windows /\ Members(s.z) \subseteq Windows
    BY ModalsKnown
  <1>8. Closed(s, w) = t
    <2>1. CASE s.active = w
      BY <2>1 DEF Closed, Removed, Good, Manager
    <2>2. CASE s.active # w
      BY <2>2 DEF Closed, Removed, Good, Manager
    <2> QED
      BY <2>1, <2>2
  <1>9. k \in Windows \union {Nobody}
    BY <1>1, <1>5, <1>7 DEF Good, Manager
  <1>10. /\ k # s.active => s.active = w
         /\ k # s.active \/ s.active = w => k \in Members(z) \union {Nobody}
    BY <1>5
  <1> HIDE DEF z, c, l, k
  <1>11. t \in Manager
    BY <1>6, <1>7, <1>9 DEF Good, Manager
  <1>12. /\ t.z = z /\ t.cycle = c /\ t.active = k /\ t.previous = s.previous
         /\ t.pressed = s.pressed /\ t.modals = l /\ t.minimized = s.minimized
         /\ t.entries = s.entries /\ t.closed = s.closed \union {w}
         /\ t.kind = s.kind /\ t.retyped = s.retyped
    BY DEF Good, Manager
  <1> HIDE DEF t
  <1>13. Known(t) = Known(s)
    BY <1>1, <1>12 DEF Known, Managed
  <1>14. Stacked(t.z, t.retyped)
    BY <1>1, <1>4, <1>7, <1>12 DEF Stacked
  <1>15. Good(t)
    <2>1. Members(t.z) \intersect t.closed \subseteq Doomed
      BY <1>1, <1>12 DEF Good
    <2>2. t.minimized \intersect Members(t.z) \subseteq t.entries
      BY <1>1, <1>12 DEF Good
    <2>3. /\ Members(t.z) \subseteq Members(t.cycle)
          /\ Members(t.cycle) \subseteq Known(t) \union {Dock}
      BY <1>1, <1>2, <1>12, <1>13 DEF Good
    <2>4. /\ {t.previous, t.pressed} \subseteq Known(t) \union {Nobody}
          /\ t.minimized \union t.entries \subseteq Known(t)
      BY <1>12, <1>13 DEF Good
    <2>5. t.active \in Known(t) \union {Nobody}
      BY <1>10, <1>12, <1>13, <1>1 DEF Good, Typed, Known, Managed
    <2>6. Members(t.modals) = {v \in Members(t.z) : Kind[v] = "modal"}
      BY <1>1, <1>3, <1>12 DEF Good
    <2>7. Typed(t)
      BY <1>12, <1>13 DEF Good, Typed
    <2> QED
      BY <1>2, <1>3, <1>11, <1>12, <1>14, <2>1, <2>2, <2>3, <2>4, <2>5, <2>6, <2>7 DEF Good
  <1> QED
    BY <1>2, <1>8, <1>10, <1>12, <1>15

\* The prompt that takes the answer is the one on top of the system stack.
LEMMA AnsweredIsTop ==
  ASSUME Good(m), NEW w \in Windows, AnswerModal(w)
  PROVE  TopSystemModal(m) = w /\ w \in Members(m.z) \ m.closed /\ m' = Closed(m, w)
  <1>1. w \in SystemModals /\ w \in Members(m.modals) /\ ~Blocked(m, w)
    BY DEF AnswerModal, TakesInput
  <1>2. TopSystemModal(m) \in Members(m.modals) \intersect SystemModals
    BY <1>1, TopOf DEF TopSystemModal
  <1>3. TopSystemModal(m) # Nobody
    BY <1>2, NotAWindow DEF SystemModals
  <1>4. Exempt(w, TopSystemModal(m))
    BY <1>1, <1>3, NotAWindow DEF Blocked, BlockedBySystem
  <1>5. Owner[w] = Nobody
    BY <1>1 DEF SystemModals
  <1>6. w \in Members(m.z) /\ w \notin Doomed
    BY <1>1, ModalsKnown, WindowManagerAssumption DEF SystemModals
  <1>7. w \notin m.closed
    BY <1>6 DEF Good
  <1> QED
    BY <1>3, <1>4, <1>5, <1>6, <1>7, NotAWindow DEF Exempt, AnswerModal

-----------------------------------------------------------------------------
(* The invariant and what follows from it *)

LEMMA InitGood == Init => Good(m)
  <1>1. SUFFICES ASSUME Init
                 PROVE  Good(m)
    OBVIOUS
  <1>2. /\ m.z = {} /\ m.cycle = {} /\ m.modals = {} /\ m.closed = {} /\ m.retyped = {}
        /\ m.minimized = {} /\ m.entries = {} /\ m.kind = Kind
        /\ m.active = Nobody /\ m.previous = Nobody /\ m.pressed = Nobody
    BY <1>1 DEF Init
  <1>3. m \in Manager
    BY <1>1, WindowManagerAssumption DEF Init, Manager
  <1>4. Members(m.z) = {} /\ Members(m.cycle) = {} /\ Members(m.modals) = {}
        /\ Chain(m.z) /\ Chain(m.cycle) /\ Chain(m.modals)
    BY <1>2, EmptyChain
  <1>5. Known(m) = {}
    BY <1>2, <1>4 DEF Known, Managed
  <1>6. Stacked(m.z, m.retyped) /\ Typed(m)
    BY <1>2, <1>4, <1>5 DEF Stacked, Above, Paired, Typed
  <1> QED
    BY <1>2, <1>3, <1>4, <1>5, <1>6 DEF Good

\* A step within reach brings back nothing that has closed and is not remembered,
\* and gives the keyboard to nothing blocked.
LEMMA QuietKeeps ==
  ASSUME NEW s, NEW t, Good(s), Moves(s, t, Reach(s))
  PROVE  /\ Good(t)
         /\ Ghosts(t) \subseteq Ghosts(s) \union {s.previous} \union s.entries
         /\ t.active # s.active => ~Blocked(t, t.active)
  <1>1. s.closed \subseteq Windows
    BY DEF Good, Manager
  <1>2. t.closed = s.closed /\ t.kind = s.kind /\ t.retyped = s.retyped /\ Good(t)
    BY DEF Moves
  <1>3. t.active # s.active => ~Blocked(t, t.active)
    BY DEF Moves, Blocked
  <1>4. ASSUME NEW w \in Ghosts(t)
        PROVE  w \in Ghosts(s) \union {s.previous} \union s.entries
    <2>1. w \in s.closed /\ w # Nobody /\ w # Dock
      BY <1>1, <1>2, NotAWindow DEF Ghosts
    <2>2. CASE w = t.active
      <3>1. w = s.active \/ w \in Reach(s)
        BY <2>1, <2>2 DEF Moves
      <3> QED
        BY <2>1, <3>1 DEF Ghosts, Reach
    <2>3. CASE w \in Members(t.cycle)
      <3>1. w \in Members(s.cycle) \/ w \in Reach(s)
        BY <2>1, <2>3 DEF Moves
      <3> QED
        BY <2>1, <3>1 DEF Ghosts, Reach
    <2> QED
      BY <2>2, <2>3 DEF Ghosts
  <1> QED
    BY <1>2, <1>3, <1>4

\* Every step keeps the manager good, opens or closes at most what it says, and
\* gives the keyboard and the cycle order nothing that has closed and is not
\* remembered.
LEMMA GoodStep ==
  ASSUME Good(m), [Next]_vars
  PROVE  /\ Good(m')
         /\ Ghosts(m') \subseteq Ghosts(m) \union {m.previous} \union m.entries
                                   \union (AdoptedClosed(m') \ AdoptedClosed(m))
         /\ m'.active # m.active /\ Blocked(m', m'.active) => m.active \in m'.closed \ m.closed
  <1>1. ASSUME NEW w \in Windows, AddWindow(w)
        PROVE  /\ Good(m')
               /\ Ghosts(m') \subseteq Ghosts(m) \union (AdoptedClosed(m') \ AdoptedClosed(m))
               /\ m'.active # m.active => ~Blocked(m', m'.active)
    <2>1. /\ Good(m')
          /\ m'.closed = m.closed \/ m'.closed = m.closed \union {w}
          /\ w \notin Members(m.z) /\ Members(m'.z) = Members(m.z) \union {w}
          /\ m'.active \in {m.active, Nobody} \/ ~Blocked(m', m'.active)
          /\ {m'.active} \union Members(m'.cycle) \subseteq
               {m.active, Nobody, Dock} \union Members(m'.z) \union Members(m.cycle)
      BY <1>1, AddMoves
    <2>2. Members(m.z) \subseteq Members(m.cycle) /\ m'.closed \subseteq Windows
      BY <2>1 DEF Good, Manager
    <2>3. w \notin Known(m)
      BY <1>1 DEF AddWindow
    <2>4. m.active # w /\ w \notin Members(m.cycle)
      BY <2>3, <1>1, NotAWindow DEF Good
    <2>5. ASSUME NEW g \in Ghosts(m')
          PROVE  g \in Ghosts(m) \union (AdoptedClosed(m') \ AdoptedClosed(m))
      <3>1. g \in m'.closed /\ g # Nobody /\ g # Dock
        BY <2>2, <2>5, NotAWindow DEF Ghosts
      <3>2. g \in {m.active} \union Members(m.cycle) \union {w}
        BY <2>1, <2>2, <2>5, <3>1 DEF Ghosts
      <3>3. CASE g = w
        BY <2>1, <3>1, <3>3 DEF AdoptedClosed, Managed
      <3>4. CASE g # w
        BY <2>1, <3>1, <3>2, <3>4 DEF Ghosts
      <3> QED
        BY <3>3, <3>4
    <2>6. m'.active # m.active => ~Blocked(m', m'.active)
      BY <2>1 DEF Blocked
    <2> QED
      BY <2>1, <2>5, <2>6
  <1>2. ASSUME NEW w \in Members(m.z) \ m.closed, m' = Closed(m, w)
        PROVE  /\ Good(m') /\ Ghosts(m') \subseteq Ghosts(m)
               /\ m'.active # m.active => m.active \in m'.closed \ m.closed
    <2>1. /\ Good(m') /\ m'.closed = m.closed \union {w}
          /\ m'.active # m.active => m.active = w
          /\ m'.active # m.active => m'.active \in Members(m'.z) \union {Nobody}
          /\ m.active = w => m'.active \in Members(m'.z) \union {Nobody}
          /\ Members(m'.cycle) = Members(m.cycle) \ {w}
      BY <1>2, ClosedGood
    <2>2. Members(m'.z) \subseteq Members(m'.cycle) /\ m'.closed \subseteq Windows
      BY <2>1 DEF Good, Manager
    <2>3. m'.active \in m'.closed => m'.active \in {m.active} \union Members(m.cycle) /\ m'.active # w
      BY <2>1, <2>2, NotAWindow
    <2> QED
      BY <1>2, <2>1, <2>3 DEF Ghosts
  <1>3. CASE Quiet
    <2>1. Moves(m, m', Reach(m))
      BY <1>3, QuietMoves
    <2> QED
      BY <2>1, QuietKeeps
  <1>4. CASE UNCHANGED vars
    <2>1. m' = m
      BY <1>4 DEF vars
    <2> QED
      BY <2>1
  <1>5. ASSUME NEW w \in Windows, CloseWindow(w) \/ AnswerModal(w)
        PROVE  \E v \in Members(m.z) \ m.closed : m' = Closed(m, v)
    BY <1>5, AnsweredIsTop DEF CloseWindow, Managed
  <1>6. \/ Quiet \/ UNCHANGED vars
        \/ \E w \in Windows : AddWindow(w) \/ CloseWindow(w) \/ AnswerModal(w)
        \/ \E w \in Windows, k \in Kinds : SetType(w, k)
    BY DEF Next, Quiet
  <1>7. CASE \E w \in Windows : AddWindow(w)
    BY <1>1, <1>7
  <1>8. CASE \E w \in Windows : CloseWindow(w) \/ AnswerModal(w)
    BY <1>2, <1>5, <1>8
  <1>9. CASE \E w \in Windows, k \in Kinds : SetType(w, k)
    BY <1>9, TypeMoves DEF Ghosts
  <1> QED
    BY <1>3, <1>4, <1>6, <1>7, <1>8, <1>9

LEMMA GoodAlways == Spec => []Good(m)
  <1>1. Good(m) /\ [Next]_vars => Good(m)'
    BY GoodStep
  <1> QED
    BY <1>1, InitGood, PTL DEF Spec

\* No dialog, palette or modal is ever below the window it belongs to, however
\* many windows, owners and groups there are, unless the type of one of the two
\* was set again (raiseWithOverlaysLocked).
THEOREM OverlayAboveOwnerAlways == Spec => []OverlayAboveOwner
  <1>1. ASSUME Good(m) PROVE OverlayAboveOwner
    <2>1. SUFFICES ASSUME NEW w \in Managed(m), IsOverlay(m, w), Owner[w] \in Managed(m),
                          {w, Owner[w]} \intersect m.retyped = {}
                   PROVE  <<Owner[w], w>> \in m.z
      BY DEF OverlayAboveOwner
    <2>2. w \in Windows \ m.retyped
      BY <1>1, <2>1, ModalsKnown DEF Managed
    <2>3. Kind[w] # "main"
      BY <1>1, <2>1, <2>2 DEF Good, Typed, IsOverlay
    <2>4. w \in Paired(m.z, m.retyped)
      BY <2>1, <2>3 DEF Paired, Managed
    <2> QED
      BY <1>1, <2>4 DEF Good, Stacked, Above
  <1> QED
    BY <1>1, GoodAlways, PTL

\* The modal stacks hold exactly the windows adopted as modals that are still
\* managed, those adopted closed among them (ensureModalCloseObserver).
THEOREM ModalsAreManagedAlways == Spec => []ModalsAreManaged
  <1>1. Good(m) => ModalsAreManaged
    BY DEF Good, ModalsAreManaged, Managed
  <1> QED
    BY <1>1, GoodAlways, PTL

\* A modal whose type was not set again owns no modal, and the top of the stack it is on lets it through.
LEMMA ModalOwnsNone ==
  ASSUME NEW s, Good(s), NEW t \in Members(s.modals), t \notin s.retyped
  PROVE  TopOwnedModal(s, t) = Nobody
  <1>1. Kind[t] = "modal"
    BY DEF Good
  <1>2. \A u \in Members(s.modals) : Owner[u] # t
    BY <1>1, ModalsKnown, NotAWindow DEF Good, Typed
  <1>3. Members(s.modals) \intersect OwnedModals(t) = {}
    BY <1>2 DEF OwnedModals
  <1> QED
    BY <1>3, TopOf DEF TopOwnedModal

LEMMA OneIsFree ==
  ASSUME NEW s, Good(s), Members(s.modals) # {}, Members(s.modals) \intersect s.retyped = {}
  PROVE  \E t \in Members(s.modals) : ~Blocked(s, t)
  <1> DEFINE M == Members(s.modals)
  <1>1. M \subseteq Windows
    BY ModalsKnown
  <1>2. CASE M \intersect SystemModals # {}
    <2>1. PICK t \in M \intersect SystemModals : t = TopSystemModal(s)
      BY <1>2, TopOf DEF TopSystemModal
    <2>2. TopOwnedModal(s, t) = Nobody /\ TopOwnedModal(s, Owner[t]) = Nobody
      BY <2>1, ModalOwnsNone DEF TopOwnedModal, SystemModals
    <2>3. TopAppModal(s, App[t]) = Nobody
      BY <2>1 DEF TopAppModal, SystemModals
    <2> QED
      BY <2>1, <2>2, <2>3 DEF Blocked, BlockedByOwned, BlockedByApp, BlockedBySystem, Exempt
  <1>3. ASSUME M \intersect SystemModals = {}, NEW u \in M, Owner[u] = Nobody
        PROVE  \E t \in M : ~Blocked(s, t)
    <2>1. TopSystemModal(s) = Nobody
      BY <1>3, TopOf DEF TopSystemModal
    <2>2. App[u] # Nobody /\ u \in M \intersect AppModals(App[u])
      BY <1>1, <1>3 DEF SystemModals, AppModals
    <2>3. PICK t \in M \intersect AppModals(App[u]) : t = TopAppModal(s, App[u])
      BY <2>2, TopOf DEF TopAppModal
    <2>4. Owner[t] = Nobody /\ App[t] = App[u]
      BY <2>3 DEF AppModals
    <2>5. TopOwnedModal(s, t) = Nobody /\ TopOwnedModal(s, Owner[t]) = Nobody
      BY <2>3, <2>4, ModalOwnsNone DEF TopOwnedModal
    <2> QED
      BY <2>1, <2>3, <2>4, <2>5
      DEF Blocked, BlockedByOwned, BlockedByApp, BlockedBySystem, Exempt
  <1>4. ASSUME M \intersect SystemModals = {}, \A u \in M : Owner[u] # Nobody
        PROVE  \E t \in M : ~Blocked(s, t)
    <2>1. TopSystemModal(s) = Nobody
      BY <1>4, TopOf DEF TopSystemModal
    <2>2. \A a : TopAppModal(s, a) = Nobody
      <3>1. \A a : M \intersect AppModals(a) = {}
        BY <1>4 DEF AppModals
      <3> QED
        BY <3>1, TopOf DEF TopAppModal
    <2>3. PICK u \in M : Owner[u] # Nobody /\ u \in M \intersect OwnedModals(Owner[u])
      BY <1>1, <1>4 DEF OwnedModals
    <2>4. PICK t \in M \intersect OwnedModals(Owner[u]) : t = TopOwnedModal(s, Owner[u])
      BY <2>3, TopOf DEF TopOwnedModal
    <2>5. Owner[t] = Owner[u]
      BY <2>4 DEF OwnedModals
    <2>6. TopOwnedModal(s, t) = Nobody
      BY <2>4, ModalOwnsNone
    <2> QED
      BY <2>1, <2>2, <2>4, <2>5, <2>6
      DEF Blocked, BlockedByOwned, BlockedByApp, BlockedBySystem, Exempt
  <1> QED
    BY <1>2, <1>3, <1>4

\* Whatever is blocked, some modal is not, and can be answered or restored or
\* was adopted closed: the three scopes of modal never block each other in a
\* ring unless the type of a modal was set again (isModalBlockedLocked).
THEOREM WayOutAlways == Spec => []WayOut
  <1>1. ASSUME Good(m), NEW w \in Managed(m), Blocked(m, w),
               Members(m.modals) \intersect m.retyped = {}
        PROVE  \E t \in Members(m.modals) :
                 ~Blocked(m, t) /\ t \in OnScreen(m) \union m.entries \union AdoptedClosed(m)
    <2>1. Blocker(m, w) # {}
      BY <1>1 DEF Blocked, Blocker
    <2>2. PICK b \in Blocker(m, w) : TRUE
      BY <2>1
    <2>3. b # Nobody /\ \E S : b = Top(Among(m.modals, S))
      BY <2>2 DEF Blocker, BlockedByOwned, BlockedByApp, BlockedBySystem, TopSystemModal,
                  TopAppModal, TopOwnedModal
    <2>4. b \in Members(m.modals)
      BY <1>1, <2>3, TopOf
    <2>5. PICK t \in Members(m.modals) : ~Blocked(m, t)
      BY <1>1, <2>4, OneIsFree
    <2>6. t \in OnScreen(m) \union m.entries \union AdoptedClosed(m)
      BY <1>1, ModalsKnown DEF OnScreen, AdoptedClosed, Managed, Good
    <2> QED
      BY <2>5, <2>6
  <1>2. Good(m) => WayOut
    BY <1>1 DEF WayOut
  <1> QED
    BY <1>2, GoodAlways, PTL

\* The answer to a prompt closes that prompt, though what closes is the top of
\* the stack (CloseModal).
THEOREM AnswerClosesOwnAlways == Spec => AnswerClosesOwn
  <1>1. Good(m) => [\A w \in Windows : AnswerModal(w) => m'.closed = m.closed \union {w}]_vars
    <2>1. ASSUME Good(m), NEW w \in Windows, AnswerModal(w)
          PROVE  m'.closed = m.closed \union {w}
      BY <2>1, AnsweredIsTop, ClosedGood
    <2> QED
      BY <2>1
  <1> QED
    BY <1>1, GoodAlways, PTL DEF AnswerClosesOwn

\* A closed window has the keyboard or a place in the cycle order only because
\* it is adopted closed, or out of the menu bar's memory or the dock
\* (AddWindow, RestorePreviousActiveWindow, the dock's restore).
THEOREM GhostsAreRememberedAlways == Spec => GhostsAreRemembered
  <1>1. Good(m) /\ [Next]_vars =>
          [Ghosts(m') \subseteq Ghosts(m) \union {m.previous} \union m.entries
                                    \union (AdoptedClosed(m') \ AdoptedClosed(m))]_vars
    BY GoodStep
  <1> QED
    BY <1>1, GoodAlways, PTL DEF Spec, GhostsAreRemembered

\* A blocked window gets the keyboard only from a window that closes.
THEOREM BlockedOnlyInheritsAlways == Spec => BlockedOnlyInherits
  <1>1. Good(m) /\ [Next]_vars =>
          [m'.active # m.active /\ Blocked(m', m'.active) => m.active \in m'.closed \ m.closed]_vars
    BY GoodStep
  <1> QED
    BY <1>1, GoodAlways, PTL DEF Spec, BlockedOnlyInherits

-----------------------------------------------------------------------------
(* Types *)

\* Type correctness of the window manager, of which an order of the windows is
\* part: no list holds a window twice, and no method leaves one half-moved.
THEOREM TypeCorrect == Spec => []TypeOK
  <1>1. Good(m) => TypeOK
    <2>1. SUFFICES ASSUME Good(m)
                   PROVE  TypeOK
      OBVIOUS
    <2>2. Known(m) \subseteq Windows
      BY <2>1, ModalsKnown
    <2>3. /\ {m.cycling, m.dock, m.bar} \subseteq BOOLEAN
          /\ m.kind \in [Windows -> Kinds]
      BY <2>1 DEF Good, Manager
    <2>4. m.retyped \subseteq Retypes
      BY <2>1 DEF Good, Typed
    <2>5. IsOrder(m.z) /\ IsOrder(m.cycle) /\ IsOrder(m.modals)
      BY <2>1 DEF Good, Stacked, Chain
    <2>6. /\ AdoptedClosed(m) \subseteq Doomed /\ Managed(m) \subseteq Members(m.cycle)
          /\ Members(m.cycle) \subseteq Known(m) \union {Dock}
          /\ {m.active, m.previous, m.pressed} \subseteq Known(m) \union {Nobody}
          /\ m.minimized \union m.entries \subseteq Known(m)
      BY <2>1 DEF Good, AdoptedClosed, Managed
    <2> QED
      BY <2>2, <2>3, <2>4, <2>5, <2>6 DEF TypeOK
  <1> QED
    BY <1>1, GoodAlways, PTL

=============================================================================
