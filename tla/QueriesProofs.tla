---------------------------- MODULE QueriesProofs ----------------------------
(***************************************************************************)
(* Theorems about Queries.  The first invariant, Kept, is of any number of *)
(* sources and any readers: each number is in one place -- the reply that  *)
(* says it, the scope that reads under it, or the destroy that gives it up *)
(* -- and questions come in the order they were put.  From it come the     *)
(* types, that a destroy is never answered with an error, and that an      *)
(* ended scope is told nothing more.                                       *)
(*                                                                         *)
(* The second, Counted, is of any readers and sources too. It counts the   *)
(* numbers said against the scopes named, refused and let go. From it      *)
(* comes that no more queries are left with the application than scopes    *)
(* were let go with no number to destroy.                                  *)
(*                                                                         *)
(* The third, Orderly, holds while the scopes that wait for a number are   *)
(* of one source and none of them is let go (InOneLine). An answer names   *)
(* no question, so that it is taken by the scope it is for is a fact about *)
(* two queues at once: the answers on their way back and, behind them, the *)
(* questions still on their way out. From it comes that such a source      *)
(* keeps the promise of Answers.                                           *)
(***************************************************************************)
EXTENDS Queries, FunctionTheorems, FiniteSetTheorems, WellFoundedInduction, SequenceTheorems, TLAPS

USE DEF display, app, vars

-----------------------------------------------------------------------------
\* Questions in order.

\* A set of numbers that is not empty has a least one.
LEMMA LeastOf ==
  ASSUME NEW S \in SUBSET Nat, S # {}
  PROVE  \E x \in S : \A y \in S : x <= y
  <1> DEFINE R == OpToRel(<, Nat)
  <1>1. \A x, y \in Nat : <<x, y>> \in R <=> x < y
    BY DEF OpToRel
  <1>2. IsWellFoundedOn(R, Nat)
    BY NatLessThanWellFounded
  <1> HIDE DEF R
  <1>3. PICK x \in S : \A y \in S : <<y, x>> \notin R
    BY <1>2, WFMin
  <1>4. ASSUME NEW y \in S PROVE x <= y
    <2>1. x \in Nat /\ y \in Nat /\ <<y, x>> \notin R
      BY <1>3
    <2>2. ~(y < x)
      BY <1>1, <2>1
    <2>3. QED
      BY <2>1, <2>2
  <1>5. QED
    BY <1>4

\* Min, by which the display picks the scope an answer is for, is that one.
LEMMA MinIs ==
  ASSUME NEW S \in SUBSET Nat, S # {}
  PROVE  Min(S) \in S /\ \A y \in S : Min(S) <= y
  BY LeastOf DEF Min

Rising(S) ==
  {s \in [1..Cardinality(S) -> S] : \A i, j \in DOMAIN s : i < j => s[i] < s[j]}

\* A set of questions can be put in order: there is no least n of which some set
\* within 1..n cannot.
LEMMA RisingExists ==
  ASSUME NEW N \in Nat, NEW S \in SUBSET (1..N)
  PROVE  Rising(S) # {}
  <1> DEFINE Bad == {n \in Nat : \E U \in SUBSET (1..n) : Rising(U) = {}}
  <1>1. SUFFICES Bad = {}
    OBVIOUS
  <1>2. SUFFICES ASSUME Bad # {} PROVE FALSE
    OBVIOUS
  <1>3. PICK n \in Bad : \A m \in Bad : n <= m
    BY <1>2, LeastOf
  <1>4. PICK U \in SUBSET (1..n) : Rising(U) = {}
    BY <1>3
  <1>5. n \in Nat /\ IsFiniteSet(U)
    <2>1. n \in Nat /\ 1 \in Int /\ n \in Int
      BY <1>3
    <2>2. IsFiniteSet(1..n)
      BY <2>1, FS_Interval
    <2>3. QED
      BY <2>1, <2>2, FS_Subset
  <1>6. CASE n \notin U
    <2>1. n # 0
      <3>1. ASSUME n = 0 PROVE FALSE
        <4>1. U = {}
          BY <3>1
        <4>2. Cardinality(U) = 0 /\ 1..0 = {}
          BY <4>1, FS_EmptySet
        <4>3. [i \in {} |-> i] \in Rising(U)
          BY <4>2 DEF Rising
        <4>4. QED
          BY <1>4, <4>3
      <3>2. QED
        BY <3>1
    <2>2. U \in SUBSET (1..(n - 1)) /\ n - 1 \in Nat
      BY <1>5, <1>6, <2>1
    <2>3. n - 1 \in Bad
      BY <1>4, <2>2
    <2>4. n <= n - 1
      BY <1>3, <2>3
    <2>5. QED
      BY <1>5, <2>4
  <1>7. CASE n \in U
    <2> DEFINE V == U \ {n}
               k == Cardinality(V)
    <2>1. V \in SUBSET (1..(n - 1)) /\ n - 1 \in Nat
      BY <1>5, <1>7
    <2>2. Rising(V) # {}
      <3>1. n - 1 \notin Bad
        <4>1. ~(n <= n - 1)
          BY <1>5
        <4>2. QED
          BY <1>3, <4>1
      <3>2. QED
        BY <2>1, <3>1
    <2>3. k \in Nat /\ Cardinality(U) = k + 1
      <3>1. IsFiniteSet(V) /\ Cardinality(V) = Cardinality(U) - 1
        BY <1>5, <1>7, FS_RemoveElement
      <3>2. QED
        BY <1>5, <3>1, FS_CardinalityType
    <2>4. PICK s \in [1..k -> V] : \A i, j \in 1..k : i < j => s[i] < s[j]
      BY <2>2 DEF Rising
    <2> HIDE DEF V, k
    <2> DEFINE t == [i \in 1..(k + 1) |-> IF i = k + 1 THEN n ELSE s[i]]
    <2>5. \A x \in V : x \in U /\ x < n /\ x \in Nat
      BY <2>1 DEF V
    <2>6. t \in [1..(k + 1) -> U]
      BY <1>7, <2>3, <2>4, <2>5
    <2>7. \A i, j \in 1..(k + 1) : i < j => t[i] < t[j]
      BY <2>3, <2>4, <2>5
    <2>8. t \in Rising(U)
      BY <2>3, <2>6, <2>7 DEF Rising
    <2>9. QED
      BY <1>4, <2>8
  <1>8. QED
    BY <1>6, <1>7

\* InOrder puts each question of a set in one place.
LEMMA OrderIs ==
  ASSUME NEW S \in SUBSET Scopes
  PROVE  /\ InOrder(S) \in [1..Cardinality(S) -> S] /\ Cardinality(S) \in Nat
         /\ \A i, j \in 1..Cardinality(S) : InOrder(S)[i] = InOrder(S)[j] => i = j
         /\ \A q \in S : \E i \in 1..Cardinality(S) : InOrder(S)[i] = q
  <1> DEFINE s == InOrder(S)
             k == Cardinality(S)
  <1>1. IsFiniteSet(S) /\ k \in Nat
    <2>1. 1 \in Int /\ MaxScopes \in Int
      BY QueriesAssumption
    <2>2. IsFiniteSet(Scopes)
      BY <2>1, FS_Interval DEF Scopes
    <2>3. IsFiniteSet(S)
      BY <2>2, FS_Subset
    <2>4. QED
      BY <2>3, FS_CardinalityType
  <1>2. s \in [1..k -> S] /\ \A i, j \in 1..k : i < j => s[i] < s[j]
    <2>1. \E u \in [1..k -> S] : \A i, j \in DOMAIN u : i < j => u[i] < u[j]
      BY QueriesAssumption, RisingExists DEF Rising, Scopes
    <2>2. QED
      BY <2>1 DEF InOrder
  <1> HIDE DEF s
  <1>3. \A q \in S : q \in Nat
    BY DEF Scopes
  <1>4. \A i, j \in 1..k : s[i] = s[j] => i = j
    BY <1>1, <1>2, <1>3
  <1>5. s \in Injection(1..k, S)
    BY <1>2, <1>4, Fun_IsInj
  <1>6. IsFiniteSet(1..k) /\ Cardinality(1..k) = k
    BY <1>1, FS_Interval
  <1>7. s \in Surjection(1..k, S)
    BY <1>1, <1>5, <1>6, FS_Injection
  <1> HIDE DEF k
  <1>8. \A q \in S : \E i \in 1..k : s[i] = q
    <2>1. s \in Surjection(1..k, S)
      BY <1>7
    <2>2. QED
      BY <2>1 DEF Surjection
  <1>9. QED
    BY <1>1, <1>2, <1>4, <1>8 DEF s, k

-----------------------------------------------------------------------------
\* What is in a sequence of messages, and what is in it once at most.
In(s) == {s[i] : i \in DOMAIN s}
OnceIn(s, x) == \A i, j \in DOMAIN s : s[i] = x /\ s[j] = x => i = j

\* What Append does to a queue of messages.
LEMMA AppendIs ==
  ASSUME NEW S, NEW s \in Seq(S), NEW x \in S
  PROVE  /\ Append(s, x) \in Seq(S)
         /\ DOMAIN s = 1..Len(s) /\ Len(s) \in Nat /\ Len(Append(s, x)) = Len(s) + 1
         /\ DOMAIN Append(s, x) = 1..(Len(s) + 1)
         /\ \A i \in 1..Len(s) : Append(s, x)[i] = s[i]
         /\ Append(s, x)[Len(s) + 1] = x
         /\ In(Append(s, x)) = In(s) \union {x}
         /\ \A y : OnceIn(s, y) /\ (y # x \/ y \notin In(s)) => OnceIn(Append(s, x), y)
  <1> DEFINE t == Append(s, x)
  <1>1. /\ t \in Seq(S) /\ Len(s) \in Nat /\ Len(t) = Len(s) + 1
        /\ DOMAIN s = 1..Len(s) /\ DOMAIN t = 1..(Len(s) + 1)
        /\ \A i \in 1..Len(s) : t[i] = s[i]
        /\ t[Len(s) + 1] = x
    BY AppendProperties, LenProperties
  <1>2. \A i \in DOMAIN t : (i \in DOMAIN s /\ t[i] = s[i]) \/ (i = Len(s) + 1 /\ t[i] = x)
    BY <1>1
  <1>3. Len(s) + 1 \in DOMAIN t /\ \A i \in DOMAIN s : i \in DOMAIN t
    BY <1>1
  <1> HIDE DEF t
  <1>4. In(t) = In(s) \union {x}
    BY <1>1, <1>2, <1>3 DEF In
  <1>5. ASSUME NEW y, OnceIn(s, y), y # x \/ y \notin In(s) PROVE OnceIn(t, y)
    BY <1>2, <1>5 DEF OnceIn, In
  <1>6. QED
    BY <1>1, <1>4, <1>5 DEF t

\* What taking the head of a queue of messages leaves.
LEMMA TailIs ==
  ASSUME NEW S, NEW s \in Seq(S), s # <<>>
  PROVE  /\ Tail(s) \in Seq(S) /\ Head(s) \in S /\ Head(s) = s[1]
         /\ DOMAIN s = 1..Len(s) /\ Len(s) \in Nat \ {0}
         /\ DOMAIN Tail(s) = 1..(Len(s) - 1) /\ Len(Tail(s)) = Len(s) - 1
         /\ \A i \in 1..(Len(s) - 1) : Tail(s)[i] = s[i + 1]
         /\ In(s) = {Head(s)} \union In(Tail(s))
         /\ \A y : OnceIn(s, y) => OnceIn(Tail(s), y)
         /\ OnceIn(s, Head(s)) => Head(s) \notin In(Tail(s))
  <1> DEFINE t == Tail(s)
  <1>1. /\ t \in Seq(S) /\ Head(s) \in S /\ Len(s) \in Nat \ {0} /\ Len(t) = Len(s) - 1
        /\ DOMAIN s = 1..Len(s) /\ DOMAIN t = 1..(Len(s) - 1)
        /\ \A i \in 1..(Len(s) - 1) : t[i] = s[i + 1]
        /\ Head(s) = s[1]
    BY HeadTailProperties, LenProperties, EmptySeq
  <1>2. \A i \in DOMAIN t : i \in Nat /\ i + 1 \in DOMAIN s /\ i + 1 # 1 /\ t[i] = s[i + 1]
    BY <1>1
  <1>3. \A i \in DOMAIN s : i = 1 \/ (i - 1 \in DOMAIN t /\ t[i - 1] = s[i])
    BY <1>1
  <1>4. 1 \in DOMAIN s
    BY <1>1
  <1> HIDE DEF t
  <1>5. In(s) = {Head(s)} \union In(t)
    <2>1. \A i \in DOMAIN s : s[i] \in {Head(s)} \union In(t)
      BY <1>1, <1>3 DEF In
    <2>2. Head(s) \in In(s) /\ \A i \in DOMAIN t : t[i] \in In(s)
      BY <1>1, <1>2, <1>4 DEF In
    <2>3. QED
      BY <2>1, <2>2 DEF In
  <1>6. ASSUME NEW y, OnceIn(s, y) PROVE OnceIn(t, y)
    <2> SUFFICES ASSUME NEW i \in DOMAIN t, NEW j \in DOMAIN t, t[i] = y, t[j] = y
                 PROVE  i = j
      BY DEF OnceIn
    <2>1. i + 1 = j + 1
      BY <1>2, <1>6 DEF OnceIn
    <2>2. QED
      BY <1>2, <2>1
  <1>7. OnceIn(s, Head(s)) => Head(s) \notin In(t)
    BY <1>1, <1>2, <1>4 DEF OnceIn, In
  <1>8. QED
    BY <1>1, <1>5, <1>6, <1>7 DEF t

\* What sending several messages at once does to a queue.
LEMMA ConcatIs ==
  ASSUME NEW S, NEW s \in Seq(S), NEW t \in Seq(S)
  PROVE  /\ s \o t \in Seq(S)
         /\ DOMAIN s = 1..Len(s) /\ Len(s) \in Nat
         /\ DOMAIN (s \o t) = 1..(Len(s) + Len(t))
         /\ \A i \in 1..Len(s) : (s \o t)[i] = s[i]
         /\ \A i \in (Len(s) + 1)..(Len(s) + Len(t)) : (s \o t)[i] \in In(t)
         /\ In(s \o t) = In(s) \union In(t)
         /\ \A y : OnceIn(s, y) /\ OnceIn(t, y) /\ (y \notin In(t) \/ y \notin In(s))
                   => OnceIn(s \o t, y)
  <1> DEFINE c == s \o t
  <1>1. /\ c \in Seq(S) /\ Len(s) \in Nat /\ Len(t) \in Nat
        /\ DOMAIN s = 1..Len(s) /\ DOMAIN t = 1..Len(t) /\ DOMAIN c = 1..(Len(s) + Len(t))
        /\ \A i \in 1..(Len(s) + Len(t)) : c[i] = IF i <= Len(s) THEN s[i] ELSE t[i - Len(s)]
    BY ConcatProperties, LenProperties
  <1> HIDE DEF c
  <1>2. \A i \in DOMAIN s : i \in DOMAIN c /\ c[i] = s[i]
    BY <1>1
  <1>3. \A i \in DOMAIN t : Len(s) + i \in DOMAIN c /\ c[Len(s) + i] = t[i]
    BY <1>1
  <1>4. \A i \in DOMAIN c : \/ i \in DOMAIN s /\ c[i] = s[i]
                            \/ i - Len(s) \in DOMAIN t /\ c[i] = t[i - Len(s)]
    BY <1>1
  <1>5. In(c) = In(s) \union In(t)
    BY <1>2, <1>3, <1>4 DEF In
  <1>6. ASSUME NEW y, OnceIn(s, y), OnceIn(t, y), y \notin In(t) \/ y \notin In(s)
        PROVE  OnceIn(c, y)
    <2> SUFFICES ASSUME NEW i \in DOMAIN c, NEW j \in DOMAIN c, c[i] = y, c[j] = y
                 PROVE  i = j
      BY DEF OnceIn
    <2>1. CASE y \notin In(t)
      <3>1. i \in DOMAIN s /\ s[i] = y /\ j \in DOMAIN s /\ s[j] = y
        BY <1>4, <2>1 DEF In
      <3>2. QED
        BY <1>6, <3>1 DEF OnceIn
    <2>2. CASE y \notin In(s)
      <3>1. /\ i - Len(s) \in DOMAIN t /\ t[i - Len(s)] = y
            /\ j - Len(s) \in DOMAIN t /\ t[j - Len(s)] = y
        BY <1>4, <2>2 DEF In
      <3>2. i - Len(s) = j - Len(s)
        BY <1>6, <3>1 DEF OnceIn
      <3>3. QED
        BY <1>1, <3>2
    <2>3. QED
      BY <1>6, <2>1, <2>2
  <1>7. \A i \in (Len(s) + 1)..(Len(s) + Len(t)) : c[i] \in In(t)
    <2> SUFFICES ASSUME NEW i \in (Len(s) + 1)..(Len(s) + Len(t)) PROVE c[i] \in In(t)
      OBVIOUS
    <2>1. i - Len(s) \in DOMAIN t /\ c[i] = t[i - Len(s)]
      BY <1>1
    <2>2. QED
      BY <2>1 DEF In
  <1>8. QED
    BY <1>1, <1>2, <1>5, <1>6, <1>7 DEF c

-----------------------------------------------------------------------------
\* Types.

\* The places of records.
LEMMA Places ==
  /\ 0 \in 0..MaxRecords /\ MaxRecords \in Nat
  /\ \A p \in 0..MaxRecords : p # 0 => p \in 1..MaxRecords
  BY QueriesAssumption

\* Each message is one of its kind.
LEMMA NewIs == ASSUME NEW q \in Scopes PROVE New(q) \in ToApp
  BY DEF New, ToApp

\* The same of a destroy.
LEMMA DestroyIs == ASSUME NEW n \in Numbers PROVE Destroy(n) \in ToApp
  BY DEF Destroy, ToApp, Numbers, Scopes

\* The same of a reply and of an error.
LEMMA AnswersAre ==
  ASSUME NEW n \in {0} \union Numbers
  PROVE  Reply(n) \in ToDisplay /\ Error \in ToDisplay
  BY DEF Reply, Error, ToDisplay

\* The same of a result, of a question that was given a number.
LEMMA ResultIs ==
  ASSUME NEW q \in Scopes, number[q] \in Numbers,
         NEW place \in 0..MaxRecords, NEW end \in {""} \union Endings
  PROVE  Result(q, place, end) \in ToDisplay
  BY DEF Result, ToDisplay

\* A message to the application is one of its own kind.
LEMMA ToAppIs ==
  ASSUME NEW x \in ToApp
  PROVE  /\ x.of \in Scopes
         /\ \/ x.verb = "new" /\ x = New(x.of)
            \/ x.verb = "destroy" /\ x = Destroy(x.of)
  <1>1. PICK v \in {"new", "destroy"}, q \in Scopes : x = [verb |-> v, of |-> q]
    BY DEF ToApp
  <1>2. x.verb = v /\ x.of = q
    BY <1>1
  <1>3. v = "new" => x = New(q)
    BY <1>1 DEF New
  <1>4. v = "destroy" => x = Destroy(q)
    BY <1>1 DEF Destroy
  <1>5. QED
    BY <1>2, <1>3, <1>4

\* The destroys of some scopes: one for each that has a number.
LEMMA DestroysAre ==
  ASSUME NEW Q \in SUBSET Scopes, named \in [Scopes -> {0} \union Numbers]
  PROVE  /\ Destroys(Q) \in Seq(ToApp)
         /\ In(Destroys(Q)) = {Destroy(named[q]) : q \in {r \in Q : named[r] # 0}}
         /\ \A n : (\A q, r \in Q : named[q] = n /\ named[r] = n => q = r)
                     => OnceIn(Destroys(Q), Destroy(n))
  <1> DEFINE S == {q \in Q : named[q] # 0}
             o == InOrder(S)
             k == Cardinality(S)
             d == [i \in 1..k |-> Destroy(named[o[i]])]
  <1>1. /\ o \in [1..k -> S] /\ k \in Nat
        /\ \A i, j \in 1..k : o[i] = o[j] => i = j
        /\ \A q \in S : \E i \in 1..k : o[i] = q
    BY OrderIs
  <1>2. Destroys(Q) = d
    BY <1>1 DEF Destroys
  <1> HIDE DEF o, k
  <1>3. \A q \in S : q \in Q /\ named[q] \in Numbers
    OBVIOUS
  <1> HIDE DEF S
  <1>4. DOMAIN d = 1..k /\ \A i \in 1..k : d[i] = Destroy(named[o[i]])
    OBVIOUS
  <1>5. d \in Seq(ToApp)
    <2>1. d \in [1..k -> ToApp]
      BY <1>1, <1>3, DestroyIs
    <2>2. QED
      BY <1>1, <2>1
  <1> HIDE DEF d
  <1>6. In(d) = {Destroy(named[q]) : q \in S}
    <2>1. \A i \in DOMAIN d : d[i] \in {Destroy(named[q]) : q \in S}
      BY <1>1, <1>4
    <2>2. \A q \in S : Destroy(named[q]) \in In(d)
      BY <1>1, <1>4 DEF In
    <2>3. QED
      BY <2>1, <2>2 DEF In
  <1>7. ASSUME NEW n, \A q, r \in Q : named[q] = n /\ named[r] = n => q = r
        PROVE  OnceIn(d, Destroy(n))
    <2> SUFFICES ASSUME NEW i \in DOMAIN d, NEW j \in DOMAIN d,
                        d[i] = Destroy(n), d[j] = Destroy(n)
                 PROVE  i = j
      BY DEF OnceIn
    <2>1. named[o[i]] = n /\ named[o[j]] = n
      BY <1>4 DEF Destroy
    <2>2. o[i] = o[j]
      BY <1>1, <1>3, <1>4, <1>7, <2>1
    <2>3. QED
      BY <1>1, <1>4, <2>2
  <1>8. QED
    BY <1>2, <1>5, <1>6, <1>7 DEF S

-----------------------------------------------------------------------------
\* The inductive invariant of the two halves.

\* What the application's answer to a question it took up may stand at.
TakenUp == {"open"} \union Endings

\* A question asked is outstanding until its sink is told it is over; of one not
\* asked nothing is known anywhere.
Outstanding ==
  /\ live = {q \in 1..asked : ended[q] = "no"}
  /\ \A q \in Scopes : q <= asked => setOf[q] \in Sets
  /\ \A q \in Scopes : q > asked =>
       ended[q] = "no" /\ named[q] = 0 /\ got[q] = <<>> /\ fate[q] = "none"

\* A question taken up has a number of its own, and only of such a one are there
\* records.
Taken ==
  /\ \A q \in Scopes :
       /\ fate[q] \in TakenUp <=> number[q] # 0
       /\ fate[q] \notin TakenUp => made[q] = 0
       /\ q \in waiting => fate[q] = "open" /\ made[q] # 0
       /\ number[q] <= minted
  /\ \A q, r \in Scopes : number[q] = number[r] /\ number[q] # 0 => q = r

\* The questions on their way come in the order they were asked, each of them
\* later than any that was given a number.
Rises(s) ==
  \A i, j \in DOMAIN s : s[i].verb = "new" /\ s[j].verb = "new" /\ i < j => s[i].of < s[j].of

Coming ==
  /\ minted <= asked
  /\ \A q \in Scopes : New(q) \in In(toApp) => q <= asked /\ minted < q /\ fate[q] = "none"
  /\ Rises(toApp)

\* A number is in one place: the reply that says it, the scope that reads under
\* it, or the destroy that gives it up; and then its query is held.
Once ==
  /\ queries \subseteq 1..minted
  /\ \A n \in Numbers :
       /\ OnceIn(toDisplay, Reply(n)) /\ OnceIn(toApp, Destroy(n))
       /\ \A q, r \in Addressed(n) : q = r
       /\ Reply(n) \in In(toDisplay) =>
            n \in queries /\ Addressed(n) = {} /\ Destroy(n) \notin In(toApp)
       /\ Addressed(n) # {} => n \in queries /\ Destroy(n) \notin In(toApp)
       /\ Destroy(n) \in In(toApp) => n \in queries

\* The inductive invariant of the two halves, whoever reads.
Kept == TypeOK /\ Outstanding /\ Taken /\ Coming /\ Once

\* The questions on their way stay in order when one is put, or taken, and when
\* other things are sent.
LEMMA RisesOn ==
  ASSUME NEW s \in Seq(ToApp), Rises(s)
  PROVE  /\ \A q \in Scopes :
              (\A r \in Scopes : New(r) \in In(s) => r < q) => Rises(Append(s, New(q)))
         /\ s # <<>> => /\ Rises(Tail(s))
                        /\ Head(s).verb = "new" =>
                             \A r \in Scopes : New(r) \in In(Tail(s)) => Head(s).of < r
         /\ \A t \in Seq(ToApp) : (\A x \in In(t) : x.verb # "new") => Rises(s \o t)
  <1>1. ASSUME NEW q \in Scopes, \A r \in Scopes : New(r) \in In(s) => r < q
        PROVE  Rises(Append(s, New(q)))
    <2> DEFINE t == Append(s, New(q))
    <2>1. /\ DOMAIN s = 1..Len(s) /\ Len(s) \in Nat /\ DOMAIN t = 1..(Len(s) + 1)
          /\ \A i \in 1..Len(s) : t[i] = s[i]
          /\ t[Len(s) + 1] = New(q)
      BY NewIs, AppendIs
    <2>2. ASSUME NEW i \in DOMAIN s, s[i].verb = "new" PROVE s[i].of < q
      <3>1. s[i] \in ToApp /\ s[i] \in In(s)
        BY <2>1, ElementOfSeq DEF In
      <3>2. s[i].of \in Scopes /\ s[i] = New(s[i].of)
        BY <2>2, <3>1, ToAppIs
      <3>3. QED
        BY <1>1, <3>1, <3>2
    <2> HIDE DEF t
    <2>3. Rises(t)
      <3> SUFFICES ASSUME NEW i \in DOMAIN t, NEW j \in DOMAIN t,
                          t[i].verb = "new", t[j].verb = "new", i < j
                   PROVE  t[i].of < t[j].of
        BY DEF Rises
      <3>1. i \in DOMAIN s /\ t[i] = s[i]
        BY <2>1
      <3>2. CASE j \in DOMAIN s
        <4>1. t[j] = s[j]
          BY <2>1, <3>2
        <4>2. QED
          BY <3>1, <3>2, <4>1 DEF Rises
      <3>3. CASE j = Len(s) + 1
        <4>1. t[j].of = q
          BY <2>1, <3>3 DEF New
        <4>2. QED
          BY <2>2, <3>1, <4>1
      <3>4. QED
        BY <2>1, <3>2, <3>3
    <2>4. QED
      BY <2>3 DEF t
  <1>2. ASSUME s # <<>>
        PROVE  /\ Rises(Tail(s))
               /\ Head(s).verb = "new" =>
                    \A r \in Scopes : New(r) \in In(Tail(s)) => Head(s).of < r
    <2> DEFINE t == Tail(s)
    <2>1. /\ DOMAIN s = 1..Len(s) /\ Len(s) \in Nat \ {0} /\ DOMAIN t = 1..(Len(s) - 1)
          /\ \A i \in 1..(Len(s) - 1) : t[i] = s[i + 1]
          /\ Head(s) = s[1]
      BY <1>2, TailIs
    <2> HIDE DEF t
    <2>2. \A i \in DOMAIN t : i \in Nat /\ i + 1 \in DOMAIN s /\ 1 < i + 1 /\ t[i] = s[i + 1]
      BY <2>1
    <2>3. Rises(t)
      <3> SUFFICES ASSUME NEW i \in DOMAIN t, NEW j \in DOMAIN t,
                          t[i].verb = "new", t[j].verb = "new", i < j
                   PROVE  t[i].of < t[j].of
        BY DEF Rises
      <3>1. i + 1 < j + 1
        BY <2>2
      <3>2. QED
        BY <2>2, <3>1 DEF Rises
    <2>4. ASSUME Head(s).verb = "new", NEW r \in Scopes, New(r) \in In(t)
          PROVE  Head(s).of < r
      <3>1. PICK i \in DOMAIN t : t[i] = New(r)
        BY <2>4 DEF In
      <3>2. s[i + 1].verb = "new" /\ s[i + 1].of = r
        BY <2>2, <3>1 DEF New
      <3>3. 1 \in DOMAIN s
        BY <2>1
      <3>4. QED
        BY <2>1, <2>2, <2>4, <3>2, <3>3 DEF Rises
    <2>5. QED
      BY <2>3, <2>4 DEF t
  <1>3. ASSUME NEW t \in Seq(ToApp), \A x \in In(t) : x.verb # "new" PROVE Rises(s \o t)
    <2> DEFINE c == s \o t
    <2>1. /\ DOMAIN s = 1..Len(s) /\ Len(s) \in Nat
          /\ DOMAIN c = 1..(Len(s) + Len(t)) /\ Len(t) \in Nat
          /\ \A i \in 1..Len(s) : c[i] = s[i]
          /\ \A i \in (Len(s) + 1)..(Len(s) + Len(t)) : c[i] \in In(t)
      BY ConcatIs, LenProperties
    <2> HIDE DEF c
    <2>2. \A i \in DOMAIN c : c[i].verb = "new" => i \in DOMAIN s /\ c[i] = s[i]
      BY <1>3, <2>1
    <2>3. Rises(c)
      BY <2>2 DEF Rises
    <2>4. QED
      BY <2>3 DEF c
  <1>4. QED
    BY <1>1, <1>2, <1>3

\* What finishWith leaves.
LEMMA FinishWithDoes ==
  ASSUME Kept, NEW Q \in SUBSET live, NEW how, FinishWith(Q, how)
  PROVE  /\ live' = live \ Q
         /\ ended' = [q \in Scopes |-> IF q \in Q THEN how ELSE ended[q]]
         /\ toApp' = toApp \o Destroys(Q) /\ toApp' \in Seq(ToApp)
         /\ In(toApp') = In(toApp) \union {Destroy(named[q]) : q \in {r \in Q : named[r] # 0}}
         /\ \A q \in Scopes : New(q) \in In(toApp') => New(q) \in In(toApp)
         /\ Rises(toApp')
  <1>1. Q \subseteq Scopes /\ {q \in Q : ended[q] = "no"} = Q
    BY DEF Kept, TypeOK, Outstanding
  <1>2. /\ live' = live \ Q
        /\ ended' = [q \in Scopes |-> IF q \in Q THEN how ELSE ended[q]]
        /\ toApp' = toApp \o Destroys(Q)
    BY <1>1 DEF FinishWith, Forget
  <1>3. /\ Destroys(Q) \in Seq(ToApp)
        /\ In(Destroys(Q)) = {Destroy(named[q]) : q \in {r \in Q : named[r] # 0}}
    BY <1>1, DestroysAre DEF Kept, TypeOK
  <1>4. /\ toApp' \in Seq(ToApp)
        /\ In(toApp') = In(toApp) \union In(Destroys(Q))
    BY <1>2, <1>3, ConcatIs DEF Kept, TypeOK
  <1>5. \A x \in In(Destroys(Q)) : x.verb = "destroy"
    BY <1>3 DEF Destroy
  <1>6. Rises(toApp')
    BY <1>2, <1>3, <1>5, RisesOn DEF Kept, TypeOK, Coming
  <1>7. \A q \in Scopes : New(q) \in In(toApp') => New(q) \in In(toApp)
    BY <1>4, <1>5 DEF New
  <1>8. QED
    BY <1>2, <1>3, <1>4, <1>6, <1>7

\* A reply or an error is taken by an outstanding scope with no number.
LEMMA FirstIs ==
  ASSUME Kept, NEW s \in Takers
  PROVE  FirstUnnamed(s) \in Unnamed(s) /\ \A q \in Unnamed(s) : FirstUnnamed(s) <= q
  <1>1. live \subseteq Nat
    BY DEF Kept, TypeOK, Scopes
  <1>2. Unnamed(s) \in SUBSET Nat /\ Unnamed(s) # {}
    BY <1>1 DEF Takers, Unnamed
  <1>3. QED
    BY <1>2, MinIs DEF FirstUnnamed

\* What is at the head of the messages to the display.
LEMMA Arrived ==
  ASSUME Kept, NEW verb, Arrives(verb)
  PROVE  LET x == Head(toDisplay)
         IN  /\ x \in ToDisplay /\ x.verb = verb
             /\ x = toDisplay[1] /\ toDisplay # <<>> /\ toDisplay' = Tail(toDisplay)
             /\ toDisplay' \in Seq(ToDisplay) /\ In(toDisplay) = {x} \union In(toDisplay')
             /\ verb = "reply" => x.n \in {0} \union Numbers /\ x = Reply(x.n)
             /\ verb = "error" => x = Error
             /\ verb = "result" =>
                  /\ x.n \in Numbers /\ x.of \in Scopes /\ x.place \in 0..MaxRecords
                  /\ x.end \in {""} \union Endings
  <1> DEFINE x == Head(toDisplay)
  <1>1. /\ x \in ToDisplay /\ x.verb = verb
        /\ x = toDisplay[1] /\ toDisplay # <<>> /\ toDisplay' = Tail(toDisplay)
        /\ toDisplay' \in Seq(ToDisplay) /\ In(toDisplay) = {x} \union In(toDisplay')
    BY TailIs DEF Kept, TypeOK, Arrives
  <1> HIDE DEF x
  <1>2. ASSUME verb = "reply" PROVE x.n \in {0} \union Numbers /\ x = Reply(x.n)
    <2>1. PICK n \in {0} \union Numbers : x = [verb |-> "reply", n |-> n]
      BY <1>1, <1>2 DEF ToDisplay
    <2>2. QED
      BY <2>1 DEF Reply
  <1>3. verb = "error" => x = Error
    BY <1>1 DEF ToDisplay, Error
  <1>4. verb = "result" =>
          /\ x.n \in Numbers /\ x.of \in Scopes /\ x.place \in 0..MaxRecords
          /\ x.end \in {""} \union Endings
    BY <1>1 DEF ToDisplay
  <1>5. QED
    BY <1>1, <1>2, <1>3, <1>4 DEF x

\* What is at the head of the batches to the application.
LEMMA Taking ==
  ASSUME Kept, toApp # <<>>, toApp' = Tail(toApp)
  PROVE  LET x == Head(toApp)
         IN  /\ toApp' \in Seq(ToApp) /\ In(toApp) = {x} \union In(toApp') /\ Rises(toApp')
             /\ x.of \in Scopes
             /\ x.verb = "new" => /\ x = New(x.of)
                                  /\ \A r \in Scopes : New(r) \in In(toApp') => x.of < r
             /\ x.verb = "destroy" => x = Destroy(x.of) /\ x \notin In(toApp')
             /\ \A y : OnceIn(toApp, y) => OnceIn(toApp', y)
  <1> DEFINE x == Head(toApp)
  <1>1. /\ toApp \in Seq(ToApp) /\ x \in ToApp
        /\ toApp' \in Seq(ToApp) /\ In(toApp) = {x} \union In(toApp')
        /\ \A y : OnceIn(toApp, y) => OnceIn(toApp', y)
        /\ OnceIn(toApp, x) => x \notin In(toApp')
    BY TailIs DEF Kept, TypeOK
  <1>2. /\ Rises(toApp')
        /\ x.verb = "new" => \A r \in Scopes : New(r) \in In(toApp') => x.of < r
    BY <1>1, RisesOn DEF Kept, Coming
  <1> HIDE DEF x
  <1>3. /\ x.of \in Scopes
        /\ x.verb = "new" => x = New(x.of)
        /\ x.verb = "destroy" => x = Destroy(x.of)
    BY <1>1, ToAppIs
  <1>4. x.verb = "destroy" => OnceIn(toApp, x)
    BY <1>3 DEF Kept, Once, Numbers, Scopes
  <1>5. QED
    BY <1>1, <1>2, <1>3, <1>4 DEF x

\* Numbers are scarce enough: of a question on its way to the application, the
\* next number is one.
LEMMA NextNumber ==
  ASSUME Kept, NEW q \in Scopes, New(q) \in In(toApp)
  PROVE  /\ minted + 1 \in Numbers /\ minted + 1 <= q /\ q <= asked
         /\ fate[q] = "none" /\ number[q] = 0 /\ q \notin waiting
         /\ \A r \in Scopes : number[r] # minted + 1
         /\ minted + 1 \notin queries
  <1>1. asked \in 0..MaxScopes /\ minted \in Nat /\ queries \subseteq 1..minted
    BY DEF Kept, TypeOK, Once
  <1>2. minted < q /\ q <= asked /\ fate[q] = "none" /\ q \in Nat
    BY DEF Kept, Coming, Scopes
  <1>3. number[q] = 0 /\ q \notin waiting
    BY <1>2 DEF Kept, Taken, TakenUp, Endings
  <1>4. \A r \in Scopes : number[r] \in Nat /\ number[r] <= minted
    BY DEF Kept, TypeOK, Taken, Numbers, Scopes
  <1>5. QED
    BY <1>1, <1>2, <1>3, <1>4, QueriesAssumption DEF Numbers, Scopes

\* What is sent of a question being answered.
LEMMA SentIs ==
  ASSUME Kept, NEW q \in Scopes, q \in waiting \/ fate[q] = "open",
         NEW end \in {""} \union Endings, NEW place, place = 0 \/ place = made[q]
  PROVE  Result(q, place, end) \in ToDisplay
  <1>1. number[q] \in Numbers
    BY DEF Kept, TypeOK, Taken, TakenUp
  <1>2. made[q] \in 0..MaxRecords
    BY DEF Kept, TypeOK
  <1>3. 0 \in 0..MaxRecords
    BY Places
  <1>4. QED
    BY <1>1, <1>2, <1>3, ResultIs

\* TypeOK is preserved.
LEMMA TypeStep == ASSUME Kept, Next PROVE TypeOK'
  <1>1. ASSUME NEW t \in Sets, Read(t) PROVE TypeOK'
    <2>1. asked + 1 \in Scopes
      BY <1>1, QueriesAssumption DEF Kept, TypeOK, Read, Scopes
    <2>2. toApp' \in Seq(ToApp)
      BY <1>1, <2>1, NewIs, AppendIs DEF Kept, TypeOK, Read
    <2>3. asked' \in 0..MaxScopes
      BY <1>1, <2>1, QueriesAssumption DEF Kept, TypeOK, Read, Scopes
    <2>4. setOf' \in [Scopes -> Sets \union {NoSet}] /\ live' \subseteq Scopes
      BY <1>1, <2>1 DEF Kept, TypeOK, Read
    <2>5. QED
      BY <1>1, <2>2, <2>3, <2>4 DEF Kept, TypeOK, Read
  <1>2. ASSUME NEW Q \in SUBSET live, NEW how \in {"closed", "refused"} \union Endings,
               FinishWith(Q, how)
        PROVE  /\ live' \subseteq Scopes /\ toApp' \in Seq(ToApp)
               /\ ended' \in [Scopes -> {"no", "closed", "refused"} \union Endings]
    <2>1. /\ live' = live \ Q /\ toApp' \in Seq(ToApp)
          /\ ended' = [q \in Scopes |-> IF q \in Q THEN how ELSE ended[q]]
      BY <1>2, FinishWithDoes
    <2>2. ended' \in [Scopes -> {"no", "closed", "refused"} \union Endings]
      BY <2>1 DEF Kept, TypeOK
    <2>3. QED
      BY <2>1, <2>2 DEF Kept, TypeOK
  <1>3. ASSUME NEW t \in Sets, CloseSet(t) PROVE TypeOK'
    <2>1. Of(t) \in SUBSET live
      BY DEF Kept, TypeOK, Of
    <2>2. QED
      BY <1>2, <1>3, <2>1 DEF Kept, TypeOK, CloseSet
  <1>4. CASE TakeReply
    <2> DEFINE n == Head(toDisplay).n
    <2>1. n \in {0} \union Numbers /\ toDisplay' \in Seq(ToDisplay)
      BY <1>4, Arrived DEF TakeReply
    <2>2. named' \in [Scopes -> {0} \union Numbers]
      BY <1>4, <2>1 DEF Kept, TypeOK, TakeReply
    <2>3. QED
      BY <1>4, <2>1, <2>2 DEF Kept, TypeOK, TakeReply
  <1>5. CASE TakeError
    <2>1. toDisplay' \in Seq(ToDisplay)
      BY <1>5, Arrived DEF TakeError
    <2>2. \/ UNCHANGED <<live, ended, toApp>>
          \/ \E Q \in SUBSET live : FinishWith(Q, "refused")
      BY <1>5, FirstIs DEF TakeError, Refuse, Unnamed
    <2>3. QED
      BY <1>2, <1>5, <2>1, <2>2 DEF Kept, TypeOK, TakeError
  <1>6. CASE TakeResult
    <2> DEFINE r == Head(toDisplay)
    <2>1. /\ toDisplay' \in Seq(ToDisplay)
          /\ r.of \in Scopes /\ r.place \in 0..MaxRecords /\ r.end \in {""} \union Endings
      BY <1>6, Arrived DEF TakeResult
    <2>2. \/ UNCHANGED <<live, ended, toApp>>
          \/ \E Q \in SUBSET live, how \in Endings : FinishWith(Q, how)
      BY <1>6, <2>1 DEF Kept, TypeOK, TakeResult, Addressed
    <2>3. got' \in [Scopes -> Seq(Scopes \X (1..MaxRecords))]
      <3>1. ASSUME NEW q \in Scopes, r.place # 0
            PROVE  Append(got[q], <<r.of, r.place>>) \in Seq(Scopes \X (1..MaxRecords))
        <4>1. <<r.of, r.place>> \in Scopes \X (1..MaxRecords)
          BY <2>1, <3>1, Places
        <4> HIDE DEF r
        <4>2. QED
          BY <4>1, AppendIs DEF Kept, TypeOK
      <3>2. got' = got \/ \E q \in Scopes : /\ r.place # 0
                                            /\ got' = [got EXCEPT ![q] = Append(@, <<r.of, r.place>>)]
        BY <1>6 DEF Kept, TypeOK, TakeResult, Addressed
      <3> HIDE DEF r
      <3>3. ASSUME NEW q \in Scopes, r.place # 0,
                   got' = [got EXCEPT ![q] = Append(@, <<r.of, r.place>>)]
            PROVE  got' \in [Scopes -> Seq(Scopes \X (1..MaxRecords))]
        <4>1. Append(got[q], <<r.of, r.place>>) \in Seq(Scopes \X (1..MaxRecords))
          BY <3>1, <3>3 DEF Kept, TypeOK
        <4>2. QED
          BY <3>3, <4>1 DEF Kept, TypeOK
      <3>4. QED
        BY <3>2, <3>3 DEF Kept, TypeOK
    <2>4. QED
      BY <1>2, <1>6, <2>1, <2>2, <2>3 DEF Kept, TypeOK, TakeResult
  <1>7. ASSUME NEW s \in Sources, Provide(s) PROVE TypeOK'
    BY <1>7 DEF Kept, TypeOK, Provide
  <1>8. CASE TakeNew
    <2> DEFINE q == Head(toApp).of
    <2>1. q \in Scopes /\ New(q) \in In(toApp) /\ toApp' \in Seq(ToApp)
      BY <1>8, Taking DEF TakeNew, TakeUp, TurnDown
    <2>2. minted + 1 \in Numbers
      BY <2>1, NextNumber
    <2>3. toDisplay' \in Seq(ToDisplay)
      <3>1. PICK x \in {Reply(minted + 1), Error} : toDisplay' = Append(toDisplay, x)
        BY <1>8 DEF Kept, TypeOK, TakeNew, TakeUp, TurnDown
      <3>2. x \in ToDisplay
        BY <2>2, <3>1, AnswersAre DEF Kept, TypeOK
      <3>3. QED
        BY <3>1, <3>2, AppendIs DEF Kept, TypeOK
    <2>4. /\ minted' \in 0..MaxScopes /\ number' \in [Scopes -> {0} \union Numbers]
          /\ queries' \subseteq Numbers
          /\ fate' \in [Scopes -> {"none", "open", "refused"} \union Endings]
      <3>1. \/ /\ minted' = minted + 1
               /\ number' = [number EXCEPT ![q] = minted + 1]
               /\ queries' = queries \union {minted + 1}
               /\ fate' = [fate EXCEPT ![q] = "open"]
            \/ /\ minted' = minted + 1 /\ UNCHANGED number
               /\ queries' = queries \union {minted + 1}
               /\ fate' = [fate EXCEPT ![q] = "refused"]
            \/ fate' = [fate EXCEPT ![q] = "refused"] /\ UNCHANGED <<minted, number, queries>>
        BY <1>8 DEF Kept, TypeOK, TakeNew, TakeUp, TurnDown
      <3> HIDE DEF q
      <3>2. minted' \in 0..MaxScopes
        BY <2>2, <3>1 DEF Kept, TypeOK, Numbers
      <3>3. QED
        BY <2>1, <2>2, <3>1, <3>2 DEF Kept, TypeOK
    <2>5. QED
      BY <1>8, <2>1, <2>3, <2>4 DEF Kept, TypeOK, TakeNew, TakeUp, TurnDown
  <1>9. CASE TakeDestroy
    <2>1. toApp' \in Seq(ToApp)
      BY <1>9, Taking DEF TakeDestroy
    <2>2. toDisplay' \in Seq(ToDisplay)
      BY <1>9, AnswersAre, AppendIs DEF Kept, TypeOK, TakeDestroy
    <2>3. QED
      BY <1>9, <2>1, <2>2 DEF Kept, TypeOK, TakeDestroy
  <1>10. ASSUME NEW q \in Scopes, q \in waiting \/ fate[q] = "open",
                NEW end \in {""} \union Endings, NEW place, place = 0 \/ place = made[q]
         PROVE  Append(toDisplay, Result(q, place, end)) \in Seq(ToDisplay)
    BY <1>10, SentIs, AppendIs DEF Kept, TypeOK
  <1>11. ASSUME NEW q \in Scopes, Record(q) PROVE TypeOK'
    <2>1. toDisplay' \in Seq(ToDisplay)
      BY <1>10, <1>11 DEF Kept, TypeOK, Record, SendHeld
    <2>2. made' \in [Scopes -> 0..MaxRecords]
      BY <1>11, QueriesAssumption DEF Kept, TypeOK, Record
    <2>3. QED
      BY <1>11, <2>1, <2>2 DEF Kept, TypeOK, Record
  <1>12. ASSUME NEW q \in Scopes, Flush(q) PROVE TypeOK'
    <2>1. toDisplay' \in Seq(ToDisplay)
      BY <1>10, <1>12 DEF Kept, TypeOK, Flush, SendHeld
    <2>2. QED
      BY <1>12, <2>1 DEF Kept, TypeOK, Flush
  <1>13. ASSUME NEW q \in Scopes, NEW how \in Endings, Finish(q, how) PROVE TypeOK'
    <2>1. toDisplay' \in Seq(ToDisplay)
      BY <1>10, <1>13 DEF Kept, TypeOK, Finish, LastOf
    <2>2. QED
      BY <1>13, <2>1 DEF Kept, TypeOK, Finish
  <1>14. QED
    BY <1>1, <1>3, <1>4, <1>5, <1>6, <1>7, <1>8, <1>9, <1>11, <1>12, <1>13 DEF Next

\* What the three handlers of the display do to its scopes.
LEMMA ReplyDoes ==
  ASSUME Kept, TakeReply
  PROVE  LET n == Head(toDisplay).n
         IN  /\ n \in {0} \union Numbers /\ Head(toDisplay) = Reply(n)
             /\ \/ named' = named /\ (n = 0 \/ Takers = {})
                \/ /\ n # 0
                   /\ \E s \in Takers : named' = [named EXCEPT ![FirstUnnamed(s)] = n]
  BY Arrived DEF TakeReply, Kept, TypeOK

\* An error is the refusal of the first scope of some source, if any waits.
LEMMA ErrorDoes ==
  ASSUME Kept, TakeError
  PROVE  /\ Head(toDisplay) = Error
         /\ \/ UNCHANGED <<live, ended, toApp>> /\ Takers = {}
            \/ \E s \in Takers : FinishWith({FirstUnnamed(s)}, "refused")
  BY Arrived DEF TakeError, Refuse, Kept, TypeOK

\* A result is taken by the scope its number names, if there is one.
LEMMA ResultDoes ==
  ASSUME Kept, TakeResult
  PROVE  LET r == Head(toDisplay)
         IN  /\ r.n \in Numbers /\ r.of \in Scopes /\ r.place \in 0..MaxRecords
             /\ r.end \in {""} \union Endings
             /\ \/ Addressed(r.n) = {} /\ UNCHANGED <<live, got, ended, toApp>>
                \/ \E q \in Addressed(r.n) :
                     /\ got' = IF r.place = 0 THEN got
                                 ELSE [got EXCEPT ![q] = Append(@, <<r.of, r.place>>)]
                     /\ IF r.end = "" THEN UNCHANGED <<live, ended, toApp>>
                          ELSE FinishWith({q}, r.end)
  BY Arrived DEF TakeResult, Kept, TypeOK

\* The display goes on holding the questions whose sinks were not told the end.
LEMMA OutstandingStep == ASSUME Kept, Next PROVE Outstanding'
  <1> USE DEF Outstanding
  <1>1. /\ asked \in 0..MaxScopes /\ live \subseteq Scopes
        /\ ended \in [Scopes -> {"no", "closed", "refused"} \union Endings]
        /\ named \in [Scopes -> {0} \union Numbers] /\ setOf \in [Scopes -> Sets \union {NoSet}]
        /\ got \in [Scopes -> Seq(Scopes \X (1..MaxRecords))]
        /\ fate \in [Scopes -> {"none", "open", "refused"} \union Endings]
        /\ Outstanding
    BY DEF Kept, TypeOK
  <1>2. ASSUME NEW t \in Sets, Read(t) PROVE Outstanding'
    <2>1. asked \in Nat /\ asked + 1 \in Scopes /\ \A q \in Scopes : q \in Nat
      BY <1>1, <1>2, QueriesAssumption DEF Read, Scopes
    <2>2. 1..(asked + 1) = 1..asked \union {asked + 1}
      BY <2>1
    <2>3. live' = {q \in 1..asked' : ended'[q] = "no"}
      BY <1>1, <1>2, <2>1, <2>2 DEF Read
    <2>4. \A q \in Scopes : q <= asked' => setOf'[q] \in Sets
      BY <1>1, <1>2, <2>1 DEF Read
    <2>5. QED
      BY <1>1, <1>2, <2>1, <2>3, <2>4 DEF Read
  <1>3. ASSUME NEW Q \in SUBSET live, NEW how \in {"closed", "refused"} \union Endings,
               FinishWith(Q, how), UNCHANGED <<asked, setOf, named, fate>>,
               \A q \in Scopes : q > asked => got'[q] = got[q]
        PROVE  Outstanding'
    <2>1. /\ live' = live \ Q
          /\ ended' = [q \in Scopes |-> IF q \in Q THEN how ELSE ended[q]]
      BY <1>3, FinishWithDoes
    <2>2. how # "no"
      BY <1>3 DEF Endings
    <2>3. \A q \in live : q \in Scopes /\ q \in 1..asked
      BY <1>1
    <2>4. 1..asked \subseteq Scopes
      BY <1>1, QueriesAssumption DEF Scopes
    <2>5. live' = {q \in 1..asked' : ended'[q] = "no"}
      BY <1>1, <1>3, <2>1, <2>2, <2>3, <2>4
    <2>6. \A q \in Scopes : q > asked => q \notin Q
      BY <1>1, <2>3
    <2>7. QED
      BY <1>1, <1>3, <2>1, <2>5, <2>6
  <1>4. \A q \in live : q \in Scopes /\ q \in Nat /\ q <= asked
    BY <1>1
  <1>5. ASSUME NEW t \in Sets, CloseSet(t) PROVE Outstanding'
    <2>1. Of(t) \in SUBSET live
      BY DEF Of
    <2>2. QED
      BY <1>3, <1>5, <2>1 DEF CloseSet
  <1>6. CASE TakeReply
    <2>1. named' = named \/ \E q \in live : \E n : named' = [named EXCEPT ![q] = n]
      BY <1>6, ReplyDoes, FirstIs DEF Unnamed
    <2>2. QED
      BY <1>1, <1>4, <1>6, <2>1 DEF TakeReply
  <1>7. CASE TakeError
    <2>1. \/ UNCHANGED <<live, ended, toApp>>
          \/ \E Q \in SUBSET live : FinishWith(Q, "refused")
      BY <1>7, ErrorDoes, FirstIs DEF Unnamed
    <2>2. QED
      BY <1>1, <1>3, <1>7, <2>1 DEF TakeError
  <1>8. CASE TakeResult
    <2> DEFINE r == Head(toDisplay)
    <2>1. /\ r.end \in {""} \union Endings
          /\ \/ UNCHANGED <<live, got, ended, toApp>>
             \/ \E q \in live :
                     /\ \/ got' = got
                        \/ got' = [got EXCEPT ![q] = Append(@, <<r.of, r.place>>)]
                     /\ IF r.end = "" THEN UNCHANGED <<live, ended, toApp>>
                          ELSE FinishWith({q}, r.end)
      BY <1>8, ResultDoes DEF Addressed
    <2>2. UNCHANGED <<asked, setOf, named, fate>>
      BY <1>8 DEF TakeResult
    <2> HIDE DEF r
    <2>3. \A q \in Scopes : q > asked => got'[q] = got[q]
      <3>1. \A q \in Scopes : q > asked => q \notin live
        BY <1>1
      <3>2. got' = got \/ \E q \in live : \E x : got' = [got EXCEPT ![q] = x]
        BY <2>1
      <3>3. QED
        BY <1>1, <3>1, <3>2
    <2>4. CASE UNCHANGED <<live, ended, toApp>>
      BY <1>1, <2>2, <2>3, <2>4
    <2>5. CASE \E Q \in SUBSET live, how \in Endings : FinishWith(Q, how)
      BY <1>3, <2>2, <2>3, <2>5
    <2>6. QED
      BY <2>1, <2>4, <2>5
  <1>9. ASSUME NEW s \in Sources, Provide(s) PROVE Outstanding'
    BY <1>1, <1>9 DEF Provide
  <1>10. CASE TakeNew
    <2>1. New(Head(toApp).of) \in In(toApp) /\ Head(toApp).of \in Scopes
      BY <1>10, Taking DEF TakeNew, TakeUp, TurnDown
    <2>2. Head(toApp).of <= asked
      BY <2>1, NextNumber
    <2>3. \E how : fate' = [fate EXCEPT ![Head(toApp).of] = how]
      BY <1>10 DEF TakeNew, TakeUp, TurnDown
    <2>4. \A q \in Scopes : q \in Nat
      BY DEF Scopes
    <2>5. \A q \in Scopes : q > asked => fate'[q] = fate[q]
      BY <1>1, <2>1, <2>2, <2>3, <2>4
    <2>6. QED
      BY <1>1, <1>10, <2>5 DEF TakeNew, TakeUp, TurnDown
  <1>11. CASE TakeDestroy
    BY <1>1, <1>11 DEF TakeDestroy
  <1>12. ASSUME NEW q \in Scopes, Record(q) PROVE Outstanding'
    BY <1>1, <1>12 DEF Record
  <1>13. ASSUME NEW q \in Scopes, Flush(q) PROVE Outstanding'
    BY <1>1, <1>13 DEF Flush
  <1>14. ASSUME NEW q \in Scopes, NEW how \in Endings, Finish(q, how) PROVE Outstanding'
    BY <1>1, <1>14 DEF Finish
  <1>15. QED
    BY <1>2, <1>5, <1>6, <1>7, <1>8, <1>9, <1>10, <1>11, <1>12, <1>13, <1>14 DEF Next

\* Numbers stay distinct, and records only of questions taken up.
LEMMA TakenStep == ASSUME Kept, Next PROVE Taken'
  <1> USE DEF Taken, TakenUp, Endings
  <1>1. /\ made \in [Scopes -> 0..MaxRecords] /\ minted \in Nat /\ waiting \subseteq Scopes
        /\ number \in [Scopes -> {0} \union Numbers]
        /\ fate \in [Scopes -> {"none", "open", "refused"} \union Endings]
        /\ Taken
        /\ \A q \in Scopes : made[q] \in Nat /\ number[q] \in Nat
    <2>1. /\ made \in [Scopes -> 0..MaxRecords] /\ minted \in 0..MaxScopes
          /\ waiting \subseteq Scopes
          /\ number \in [Scopes -> {0} \union Numbers]
          /\ fate \in [Scopes -> {"none", "open", "refused"} \union Endings]
          /\ Taken
      BY DEF Kept, TypeOK
    <2>2. MaxRecords \in Nat /\ \A n \in {0} \union Numbers : n \in Nat
      BY Places DEF Numbers, Scopes
    <2>3. \A q \in Scopes : made[q] \in Nat
      BY <2>1, <2>2
    <2>4. \A q \in Scopes : number[q] \in Nat
      BY <2>1, <2>2
    <2>5. QED
      BY <2>1, <2>3, <2>4
  <1>2. CASE UNCHANGED <<number, minted, fate, made, waiting>>
    BY <1>1, <1>2
  <1>3. CASE TakeNew
    <2> DEFINE q == Head(toApp).of
    <2>1. q \in Scopes /\ New(q) \in In(toApp)
      BY <1>3, Taking DEF TakeNew, TakeUp, TurnDown
    <2>2. /\ number[q] = 0 /\ q \notin waiting /\ \A r \in Scopes : number[r] # minted + 1
          /\ fate[q] = "none"
      BY <2>1, NextNumber
    <2>3. /\ UNCHANGED <<made, waiting>>
          /\ \/ /\ minted' = minted + 1
                /\ number' = [number EXCEPT ![q] = minted + 1]
                /\ fate' = [fate EXCEPT ![q] = "open"]
             \/ /\ minted' = minted \/ minted' = minted + 1
                /\ fate' = [fate EXCEPT ![q] = "refused"] /\ UNCHANGED number
      BY <1>3 DEF TakeNew, TakeUp, TurnDown
    <2> HIDE DEF q
    <2>4. QED
      BY <1>1, <2>1, <2>2, <2>3
  <1>4. ASSUME NEW q \in Scopes, Record(q) PROVE Taken'
    BY <1>1, <1>4 DEF Record
  <1>5. ASSUME NEW q \in Scopes, Flush(q) PROVE Taken'
    BY <1>1, <1>5 DEF Flush
  <1>6. ASSUME NEW q \in Scopes, NEW how \in Endings, Finish(q, how) PROVE Taken'
    BY <1>1, <1>6 DEF Finish
  <1>7. \/ UNCHANGED <<number, minted, fate, made, waiting>>
        \/ TakeNew
        \/ \E q \in Scopes : Record(q) \/ Flush(q) \/ \E how \in Endings : Finish(q, how)
    BY DEF Next, Read, CloseSet, TakeReply, TakeError, TakeResult, Provide, TakeDestroy
  <1>8. QED
    BY <1>2, <1>3, <1>4, <1>5, <1>6, <1>7

\* A question on its way stays later than any that was given a number.
LEMMA ComingStep == ASSUME Kept, Next PROVE Coming'
  <1> USE DEF Coming
  <1>1. /\ asked \in Nat /\ minted \in Nat /\ toApp \in Seq(ToApp)
        /\ fate \in [Scopes -> {"none", "open", "refused"} \union Endings]
        /\ Coming
        /\ \A q \in Scopes : q \in Nat
    BY DEF Kept, TypeOK, Scopes
  <1>2. CASE UNCHANGED <<asked, minted, toApp, fate>>
    BY <1>1, <1>2 DEF In, Rises
  <1>3. ASSUME NEW t \in Sets, Read(t) PROVE Coming'
    <2>1. asked + 1 \in Scopes
      BY <1>1, <1>3, QueriesAssumption DEF Read, Scopes
    <2>2. toApp' = Append(toApp, New(asked + 1)) /\ asked' = asked + 1 /\ UNCHANGED <<minted, fate>>
      BY <1>3 DEF Read
    <2>3. In(toApp') = In(toApp) \union {New(asked + 1)}
      BY <1>1, <2>1, <2>2, AppendIs, NewIs
    <2>4. \A r \in Scopes : New(r) \in In(toApp) => r < asked + 1
      BY <1>1
    <2>5. Rises(toApp')
      BY <1>1, <2>1, <2>2, <2>4, RisesOn
    <2>6. fate[asked + 1] = "none"
      BY <1>1, <2>1 DEF Kept, Outstanding
    <2>7. \A q \in Scopes : New(q) = New(asked + 1) => q = asked + 1
      BY DEF New
    <2>8. QED
      BY <1>1, <2>2, <2>3, <2>5, <2>6, <2>7
  <1>4. ASSUME NEW Q \in SUBSET live, NEW how, FinishWith(Q, how),
               UNCHANGED <<asked, minted, fate>>
        PROVE  Coming'
    BY <1>1, <1>4, FinishWithDoes
  <1>5. ASSUME NEW t \in Sets, CloseSet(t) PROVE Coming'
    BY <1>4, <1>5 DEF CloseSet, Of
  <1>6. CASE TakeError
    <2>1. \/ UNCHANGED <<live, ended, toApp>>
          \/ \E Q \in SUBSET live : FinishWith(Q, "refused")
      BY <1>6, ErrorDoes, FirstIs DEF Unnamed
    <2>2. QED
      BY <1>2, <1>4, <1>6, <2>1 DEF TakeError
  <1>7. CASE TakeResult
    <2>1. \/ UNCHANGED <<live, ended, toApp>>
          \/ \E Q \in SUBSET live, how \in Endings : FinishWith(Q, how)
      BY <1>7, ResultDoes DEF Addressed
    <2>2. QED
      BY <1>2, <1>4, <1>7, <2>1 DEF TakeResult
  <1>8. CASE TakeNew
    <2> DEFINE q == Head(toApp).of
    <2>1. /\ q \in Scopes /\ New(q) \in In(toApp) /\ In(toApp') \subseteq In(toApp)
          /\ Rises(toApp')
          /\ \A r \in Scopes : New(r) \in In(toApp') => q < r
      BY <1>8, Taking DEF TakeNew, TakeUp, TurnDown
    <2>2. minted + 1 <= q /\ q <= asked
      BY <2>1, NextNumber
    <2>3. /\ \/ minted' = minted + 1
             \/ minted' = minted
          /\ \E how : fate' = [fate EXCEPT ![q] = how]
          /\ asked' = asked
      BY <1>8 DEF TakeNew, TakeUp, TurnDown
    <2> HIDE DEF q
    <2>4. QED
      BY <1>1, <2>1, <2>2, <2>3
  <1>9. CASE TakeDestroy
    <2>1. In(toApp') \subseteq In(toApp) /\ Rises(toApp')
      BY <1>9, Taking DEF TakeDestroy
    <2>2. QED
      BY <1>1, <1>9, <2>1 DEF TakeDestroy
  <1>10. ASSUME NEW q \in Scopes, NEW how \in Endings, Finish(q, how) PROVE Coming'
    <2>1. New(q) \notin In(toApp)
      BY <1>1, <1>10 DEF Finish
    <2>2. UNCHANGED <<asked, minted, toApp>> /\ fate' = [fate EXCEPT ![q] = how]
      BY <1>10 DEF Finish
    <2>3. In(toApp') = In(toApp) /\ Rises(toApp')
      BY <1>1, <2>2 DEF In, Rises
    <2>4. QED
      BY <1>1, <2>1, <2>2, <2>3
  <1>11. \/ UNCHANGED <<asked, minted, toApp, fate>>
         \/ \E t \in Sets : Read(t) \/ CloseSet(t)
         \/ TakeError \/ TakeResult \/ TakeNew \/ TakeDestroy
         \/ \E q \in Scopes, how \in Endings : Finish(q, how)
    BY DEF Next, TakeReply, Provide, Record, Flush
  <1>12. QED
    BY <1>2, <1>3, <1>5, <1>6, <1>7, <1>8, <1>9, <1>10, <1>11

\* A number stays in one place when scopes end.
LEMMA OnceFinish ==
  ASSUME Kept, NEW Q \in SUBSET live, NEW how, FinishWith(Q, how),
         UNCHANGED <<named, queries, minted>>,
         In(toDisplay') \subseteq In(toDisplay),
         \A y : OnceIn(toDisplay, y) => OnceIn(toDisplay', y)
  PROVE  Once'
  <1>1. /\ live' = live \ Q
        /\ toApp' = toApp \o Destroys(Q)
        /\ In(toApp') = In(toApp) \union {Destroy(named[q]) : q \in {r \in Q : named[r] # 0}}
    BY FinishWithDoes
  <1>2. Q \subseteq Scopes /\ toApp \in Seq(ToApp) /\ named \in [Scopes -> {0} \union Numbers]
    BY DEF Kept, TypeOK
  <1>3. /\ Destroys(Q) \in Seq(ToApp)
        /\ In(Destroys(Q)) = {Destroy(named[q]) : q \in {r \in Q : named[r] # 0}}
        /\ \A n : (\A q, r \in Q : named[q] = n /\ named[r] = n => q = r)
                    => OnceIn(Destroys(Q), Destroy(n))
    BY <1>2, DestroysAre
  <1>4. ASSUME NEW n \in Numbers
        PROVE  /\ Addressed(n)' = Addressed(n) \ Q
               /\ n # 0
               /\ Destroy(n) \in In(Destroys(Q)) => \E q \in Q : q \in Addressed(n)
               /\ Destroy(n) \in In(Destroys(Q)) => Addressed(n)' = {}
               /\ OnceIn(Destroys(Q), Destroy(n))
    <2>1. Addressed(n)' = Addressed(n) \ Q /\ n # 0
      BY <1>1 DEF Addressed, Numbers
    <2>2. Destroy(n) \in In(Destroys(Q)) => \E q \in Q : q \in Addressed(n)
      BY <1>3 DEF Addressed, Destroy
    <2>3. \A q, r \in Addressed(n) : q = r
      BY DEF Kept, Once
    <2>4. \A q \in Q : named[q] = n => q \in Addressed(n)
      BY DEF Addressed
    <2>5. OnceIn(Destroys(Q), Destroy(n))
      BY <1>3, <2>3, <2>4
    <2>6. QED
      BY <2>1, <2>2, <2>3, <2>5
  <1>5. ASSUME NEW n \in Numbers
        PROVE  /\ OnceIn(toDisplay', Reply(n)) /\ OnceIn(toApp', Destroy(n))
               /\ \A q, r \in Addressed(n)' : q = r
               /\ Reply(n) \in In(toDisplay') =>
                    n \in queries /\ Addressed(n)' = {} /\ Destroy(n) \notin In(toApp')
               /\ Addressed(n)' # {} => n \in queries /\ Destroy(n) \notin In(toApp')
               /\ Destroy(n) \in In(toApp') => n \in queries
    <2>1. /\ OnceIn(toDisplay, Reply(n)) /\ OnceIn(toApp, Destroy(n))
          /\ \A q, r \in Addressed(n) : q = r
          /\ Reply(n) \in In(toDisplay) =>
               n \in queries /\ Addressed(n) = {} /\ Destroy(n) \notin In(toApp)
          /\ Addressed(n) # {} => n \in queries /\ Destroy(n) \notin In(toApp)
          /\ Destroy(n) \in In(toApp) => n \in queries
      BY DEF Kept, Once
    <2>2. Destroy(n) \in In(toApp') <=>
            (Destroy(n) \in In(toApp) \/ Destroy(n) \in In(Destroys(Q)))
      BY <1>1, <1>3
    <2>3. OnceIn(toApp', Destroy(n))
      BY <1>1, <1>2, <1>3, <1>4, <2>1, ConcatIs
    <2>4. QED
      BY <1>4, <2>1, <2>2, <2>3
  <1>6. queries' \subseteq 1..minted'
    BY DEF Kept, Once
  <1>7. QED
    BY <1>5, <1>6 DEF Once

\* Nor does it move when neither its scope nor its query changes, and no reply
\* or destroy of it comes to be under way.
LEMMA OnceStays ==
  ASSUME Kept, UNCHANGED <<live, named>>,
         \/ UNCHANGED <<queries, minted>>
         \/ queries \subseteq queries' /\ queries' \subseteq 1..minted',
         \A n \in Numbers :
           /\ Reply(n) \in In(toDisplay') => Reply(n) \in In(toDisplay)
           /\ OnceIn(toDisplay, Reply(n)) => OnceIn(toDisplay', Reply(n))
           /\ Destroy(n) \in In(toApp') => Destroy(n) \in In(toApp)
           /\ OnceIn(toApp, Destroy(n)) => OnceIn(toApp', Destroy(n))
  PROVE  Once'
  <1>1. \A n : Addressed(n)' = Addressed(n)
    BY DEF Addressed
  <1>2. QED
    BY <1>1 DEF Kept, Once

\* A message that is neither a reply that names a query nor a destroy.
LEMMA Neither ==
  ASSUME NEW n \in Numbers
  PROVE  /\ \A q, place, end : Result(q, place, end) # Reply(n)
         /\ Error # Reply(n) /\ Reply(0) # Reply(n) /\ n # 0
         /\ \A q : New(q) # Destroy(n)
         /\ \A m : Reply(m) = Reply(n) => m = n
         /\ \A m : Destroy(m) = Destroy(n) => m = n
  <1>1. n # 0
    BY DEF Numbers
  <1>2. \A q, place, end : Result(q, place, end).verb = "result"
    BY DEF Result
  <1>3. Error.verb = "error" /\ Reply(n).verb = "reply" /\ Reply(n).n = n /\ Reply(0).n = 0
    BY DEF Error, Reply
  <1>4. \A q : New(q).verb = "new"
    BY DEF New
  <1>5. Destroy(n).verb = "destroy" /\ \A m : Destroy(m).of = m
    BY DEF Destroy
  <1>6. \A m : Reply(m).n = m
    BY DEF Reply
  <1>7. QED
    BY <1>1, <1>2, <1>3, <1>4, <1>5, <1>6

\* A number stays in one place.
LEMMA OnceStep == ASSUME Kept, Next PROVE Once'
  <1>1. /\ toApp \in Seq(ToApp) /\ toDisplay \in Seq(ToDisplay)
        /\ named \in [Scopes -> {0} \union Numbers]
        /\ live \subseteq Scopes /\ queries \subseteq 1..minted /\ minted \in Nat
    BY DEF Kept, TypeOK, Once
  <1>2. ASSUME NEW n \in Numbers
        PROVE  /\ OnceIn(toDisplay, Reply(n)) /\ OnceIn(toApp, Destroy(n))
               /\ \A q, r \in Addressed(n) : q = r
               /\ Reply(n) \in In(toDisplay) =>
                    n \in queries /\ Addressed(n) = {} /\ Destroy(n) \notin In(toApp)
               /\ Addressed(n) # {} => n \in queries /\ Destroy(n) \notin In(toApp)
               /\ Destroy(n) \in In(toApp) => n \in queries
    BY DEF Kept, Once
  <1>3. ASSUME NEW verb, Arrives(verb)
        PROVE  /\ In(toDisplay') \subseteq In(toDisplay)
               /\ \A y : OnceIn(toDisplay, y) => OnceIn(toDisplay', y)
               /\ OnceIn(toDisplay, Head(toDisplay)) => Head(toDisplay) \notin In(toDisplay')
               /\ Head(toDisplay) \in In(toDisplay)
    BY <1>1, <1>3, TailIs DEF Arrives
  <1>4. ASSUME NEW t \in Sets, Read(t) PROVE Once'
    <2>1. /\ asked + 1 \in Scopes /\ toApp' = Append(toApp, New(asked + 1))
          /\ live' = live \union {asked + 1} /\ UNCHANGED <<named, toDisplay, queries, minted>>
      BY <1>4, QueriesAssumption DEF Read, Kept, TypeOK, Scopes
    <2>2. named[asked + 1] = 0
      BY <2>1 DEF Kept, TypeOK, Outstanding
    <2>3. \A n \in Numbers : Addressed(n)' = Addressed(n)
      BY <2>1, <2>2, Neither DEF Addressed
    <2>4. \A n \in Numbers : /\ Destroy(n) \in In(toApp') => Destroy(n) \in In(toApp)
                             /\ OnceIn(toApp', Destroy(n))
      BY <1>1, <1>2, <2>1, NewIs, AppendIs, Neither
    <2>5. QED
      BY <1>1, <1>2, <2>1, <2>3, <2>4 DEF Once
  <1>5. ASSUME NEW t \in Sets, CloseSet(t) PROVE Once'
    BY <1>5, OnceFinish DEF CloseSet, Of
  <1>6. CASE TakeReply
    <2>1. PICK n \in {0} \union Numbers :
            /\ Head(toDisplay) = Reply(n)
            /\ \/ named' = named
               \/ n # 0 /\ \E s \in Takers : named' = [named EXCEPT ![FirstUnnamed(s)] = n]
      BY <1>6, ReplyDoes
    <2>2. /\ In(toDisplay') \subseteq In(toDisplay)
          /\ \A y : OnceIn(toDisplay, y) => OnceIn(toDisplay', y)
          /\ OnceIn(toDisplay, Reply(n)) => Reply(n) \notin In(toDisplay')
          /\ Reply(n) \in In(toDisplay)
          /\ UNCHANGED <<live, queries, minted, toApp>>
      BY <1>3, <1>6, <2>1 DEF TakeReply
    <2>3. CASE named' = named
      BY <2>2, <2>3, OnceStays
    <2>4. CASE n # 0 /\ \E s \in Takers : named' = [named EXCEPT ![FirstUnnamed(s)] = n]
      <3>1. n \in Numbers
        BY <2>1, <2>4
      <3>2. PICK q \in live : named[q] = 0 /\ named' = [named EXCEPT ![q] = n]
        BY <2>4, FirstIs DEF Unnamed
      <3>3. /\ n \in queries /\ Addressed(n) = {} /\ Destroy(n) \notin In(toApp)
            /\ Reply(n) \notin In(toDisplay')
        BY <1>2, <2>2, <3>1
      <3>4. Addressed(n)' = {q}
        <4>1. Addressed(n)' = {p \in live : named'[p] = n}
          BY <2>2 DEF Addressed
        <4>2. \A p \in live : named[p] # n
          BY <3>3 DEF Addressed
        <4>3. \A p \in live : named'[p] = n <=> p = q
          BY <1>1, <3>2, <4>2
        <4>4. QED
          BY <4>1, <4>3
      <3>5. \A m \in Numbers : m # n => Addressed(m)' = Addressed(m)
        BY <1>1, <2>2, <3>2, Neither DEF Addressed
      <3>6. \A m \in Numbers : /\ OnceIn(toDisplay', Reply(m)) /\ OnceIn(toApp', Destroy(m))
                               /\ Reply(m) \in In(toDisplay') => Reply(m) \in In(toDisplay) /\ m # n
                               /\ Destroy(m) \in In(toApp') <=> Destroy(m) \in In(toApp)
        BY <1>2, <2>2, <3>3
      <3>7. \A p, r \in Addressed(n)' : p = r
        BY <3>4
      <3>8. \A m \in Numbers : /\ \A p, r \in Addressed(m)' : p = r
                               /\ Addressed(m)' # {} => m = n \/ Addressed(m) # {}
                               /\ m # n => Addressed(m)' = Addressed(m)
        BY <1>2, <3>5, <3>7
      <3>9. queries' \subseteq 1..minted'
        BY <1>1, <2>2
      <3>10. QED
        BY <1>2, <2>2, <3>3, <3>6, <3>8, <3>9 DEF Once
    <2>5. QED
      BY <2>1, <2>3, <2>4
  <1>7. CASE TakeError
    <2>1. /\ In(toDisplay') \subseteq In(toDisplay)
          /\ \A y : OnceIn(toDisplay, y) => OnceIn(toDisplay', y)
          /\ UNCHANGED <<named, queries, minted>>
      BY <1>3, <1>7 DEF TakeError
    <2>2. \/ UNCHANGED <<live, ended, toApp>>
          \/ \E Q \in SUBSET live : FinishWith(Q, "refused")
      BY <1>7, ErrorDoes, FirstIs DEF Unnamed
    <2>3. QED
      BY <2>1, <2>2, OnceFinish, OnceStays
  <1>8. CASE TakeResult
    <2>1. /\ In(toDisplay') \subseteq In(toDisplay)
          /\ \A y : OnceIn(toDisplay, y) => OnceIn(toDisplay', y)
          /\ UNCHANGED <<named, queries, minted>>
      BY <1>3, <1>8 DEF TakeResult
    <2>2. \/ UNCHANGED <<live, ended, toApp>>
          \/ \E Q \in SUBSET live, how \in Endings : FinishWith(Q, how)
      BY <1>8, ResultDoes DEF Addressed
    <2>3. QED
      BY <2>1, <2>2, OnceFinish, OnceStays
  <1>9. ASSUME NEW s \in Sources, Provide(s) PROVE Once'
    BY <1>9, OnceStays DEF Provide
  <1>10. CASE TakeNew
    <2> DEFINE q == Head(toApp).of
               k == minted + 1
    <2>1. /\ q \in Scopes /\ New(q) \in In(toApp) /\ In(toApp') \subseteq In(toApp)
          /\ \A y : OnceIn(toApp, y) => OnceIn(toApp', y)
      BY <1>10, Taking DEF TakeNew, TakeUp, TurnDown
    <2>2. k \in Numbers /\ k \notin queries
      BY <2>1, NextNumber
    <2>3. /\ UNCHANGED <<live, named>>
          /\ \/ /\ minted' = k /\ queries' = queries \union {k}
                /\ toDisplay' = Append(toDisplay, Reply(k))
             \/ /\ toDisplay' = Append(toDisplay, Error)
                /\ \/ UNCHANGED <<minted, queries>>
                   \/ minted' = k /\ queries' = queries \union {k}
      BY <1>10 DEF TakeNew, TakeUp, TurnDown
    <2>4. \A n : Addressed(n)' = Addressed(n)
      BY <2>3 DEF Addressed
    <2>5. 1..minted \subseteq 1..k
      BY <1>1
    <2>6. k \in 1..k
      BY <1>1
    <2> HIDE DEF q, k
    <2>7. CASE /\ toDisplay' = Append(toDisplay, Error)
               /\ \/ UNCHANGED <<minted, queries>>
                  \/ minted' = k /\ queries' = queries \union {k}
      <3>1. In(toDisplay') = In(toDisplay) \union {Error}
            /\ \A y : OnceIn(toDisplay, y) /\ y # Error => OnceIn(toDisplay', y)
        BY <1>1, <2>2, <2>7, AnswersAre, AppendIs
      <3>2. queries \subseteq queries' /\ queries' \subseteq 1..minted'
        BY <1>1, <2>5, <2>6, <2>7
      <3>3. QED
        BY <2>1, <2>3, <3>1, <3>2, OnceStays, Neither
    <2>8. CASE /\ minted' = k /\ queries' = queries \union {k}
               /\ toDisplay' = Append(toDisplay, Reply(k))
      <3> DEFINE x == Reply(k)
      <3>1. x \in ToDisplay /\ toDisplay' = Append(toDisplay, x)
        BY <2>2, <2>8, AnswersAre
      <3> HIDE DEF x
      <3>2. /\ In(toDisplay') = In(toDisplay) \union {x}
            /\ \A y : OnceIn(toDisplay, y) /\ (y # x \/ y \notin In(toDisplay))
                        => OnceIn(toDisplay', y)
        BY <1>1, <3>1, AppendIs
      <3> USE DEF x
      <3>3. Reply(k) \notin In(toDisplay) /\ Addressed(k) = {} /\ Destroy(k) \notin In(toApp)
        BY <1>2, <2>2
      <3>4. \A n \in Numbers : OnceIn(toDisplay', Reply(n)) /\ OnceIn(toApp', Destroy(n))
        BY <1>2, <2>1, <3>2, <3>3
      <3>5. \A n \in Numbers : Reply(n) \in In(toDisplay') => n = k \/ Reply(n) \in In(toDisplay)
        BY <2>2, <3>2, Neither
      <3>6. queries' \subseteq 1..minted'
        BY <1>1, <2>5, <2>6, <2>8
      <3>7. \A n \in Numbers : Destroy(n) \in In(toApp') => Destroy(n) \in In(toApp)
        BY <2>1
      <3>8. QED
        BY <1>2, <2>4, <2>8, <3>3, <3>4, <3>5, <3>6, <3>7 DEF Once
    <2>9. QED
      BY <2>3, <2>7, <2>8
  <1>11. CASE TakeDestroy
    <2> DEFINE n == Head(toApp).of
    <2>1. /\ n \in Numbers /\ Destroy(n) \in In(toApp) /\ Destroy(n) \notin In(toApp')
          /\ In(toApp') \subseteq In(toApp)
          /\ \A y : OnceIn(toApp, y) => OnceIn(toApp', y)
      BY <1>11, Taking DEF TakeDestroy, Numbers, Scopes
    <2>2. /\ UNCHANGED <<live, named, minted>> /\ queries' = queries \ {n}
          /\ \E x \in {Reply(0), Error} : toDisplay' = Append(toDisplay, x)
      BY <1>11 DEF TakeDestroy
    <2> HIDE DEF n
    <2>3. PICK x \in {Reply(0), Error} : toDisplay' = Append(toDisplay, x)
      BY <2>2
    <2>4. x \in ToDisplay
      BY <2>3, AnswersAre
    <2>5. /\ In(toDisplay') = In(toDisplay) \union {x}
          /\ \A y : OnceIn(toDisplay, y) /\ y # x => OnceIn(toDisplay', y)
      BY <1>1, <2>3, <2>4, AppendIs
    <2>6. \A m \in Numbers : /\ OnceIn(toDisplay', Reply(m))
                             /\ Reply(m) \in In(toDisplay') => Reply(m) \in In(toDisplay)
      BY <1>2, <2>3, <2>5, Neither
    <2>7. \A m : Addressed(m)' = Addressed(m)
      BY <2>2 DEF Addressed
    <2>8. Reply(n) \notin In(toDisplay) /\ Addressed(n) = {}
      BY <1>2, <2>1
    <2>9. \A m \in Numbers : /\ OnceIn(toApp', Destroy(m))
                             /\ Destroy(m) \in In(toApp') => Destroy(m) \in In(toApp) /\ m # n
      BY <1>2, <2>1
    <2>10. QED
      BY <1>1, <1>2, <2>2, <2>6, <2>7, <2>8, <2>9 DEF Once
  <1>12. ASSUME UNCHANGED <<display, toApp, minted, queries>>,
                \/ toDisplay' = toDisplay
                \/ \E q, place, end : /\ Result(q, place, end) \in ToDisplay
                                      /\ toDisplay' = Append(toDisplay, Result(q, place, end))
         PROVE  Once'
    <2>1. CASE toDisplay' = toDisplay
      BY <1>12, <2>1, OnceStays
    <2>2. ASSUME NEW q, NEW place, NEW end, Result(q, place, end) \in ToDisplay,
                 toDisplay' = Append(toDisplay, Result(q, place, end))
          PROVE  Once'
      <3> DEFINE x == Result(q, place, end)
      <3>1. \A n \in Numbers : x # Reply(n)
        BY Neither
      <3> HIDE DEF x
      <3>2. toDisplay' = Append(toDisplay, x) /\ x \in ToDisplay
        BY <2>2 DEF x
      <3>3. /\ In(toDisplay') = In(toDisplay) \union {x}
            /\ \A y : OnceIn(toDisplay, y) /\ y # x => OnceIn(toDisplay', y)
        BY <1>1, <3>2, AppendIs
      <3>4. QED
        BY <1>12, <3>1, <3>3, OnceStays
    <2>3. QED
      BY <1>12, <2>1, <2>2
  <1>13. ASSUME NEW q \in Scopes, Record(q) PROVE Once'
    BY <1>12, <1>13, SentIs DEF Record, SendHeld
  <1>14. ASSUME NEW q \in Scopes, Flush(q) PROVE Once'
    BY <1>12, <1>14, SentIs DEF Flush, SendHeld
  <1>15. ASSUME NEW q \in Scopes, NEW how \in Endings, Finish(q, how) PROVE Once'
    BY <1>12, <1>15, SentIs DEF Finish, LastOf
  <1>16. QED
    BY <1>4, <1>5, <1>6, <1>7, <1>8, <1>9, <1>10, <1>11, <1>13, <1>14, <1>15 DEF Next

\* The initial states satisfy the invariant.
LEMMA KeptInit == Init => Kept
  <1> SUFFICES ASSUME Init PROVE Kept
    OBVIOUS
  <1>1. MaxScopes \in Nat /\ MaxRecords \in Nat /\ 0 \in 0..MaxRecords /\ 0 \in 0..MaxScopes
    BY QueriesAssumption, Places
  <1>2. TypeOK
    <2>1. toApp \in Seq(ToApp) /\ toDisplay \in Seq(ToDisplay)
      BY EmptySeq DEF Init
    <2>2. got \in [Scopes -> Seq(Scopes \X (1..MaxRecords))]
      BY EmptySeq DEF Init
    <2>3. made \in [Scopes -> 0..MaxRecords]
      BY <1>1 DEF Init
    <2>4. QED
      BY <1>1, <2>1, <2>2, <2>3 DEF Init, TypeOK
  <1>3. \A q \in Scopes : q \in Nat /\ ~(q <= 0)
    BY DEF Scopes
  <1>4. In(toApp) = {} /\ In(toDisplay) = {} /\ Rises(toApp)
    BY DEF Init, In, Rises
  <1>5. Outstanding /\ Taken
    BY <1>1, <1>3 DEF Init, Outstanding, Taken, TakenUp, Endings
  <1>6. Coming
    BY <1>4 DEF Init, Coming
  <1>7. Once
    <2>1. \A n : Addressed(n) = {} /\ OnceIn(toDisplay, Reply(n)) /\ OnceIn(toApp, Destroy(n))
      BY DEF Init, Addressed, OnceIn
    <2>2. QED
      BY <1>4, <2>1 DEF Init, Once
  <1>8. QED
    BY <1>2, <1>5, <1>6, <1>7 DEF Kept

\* So does a step that changes nothing.
LEMMA KeptStays == Kept /\ UNCHANGED vars => Kept'
  <1> SUFFICES ASSUME Kept, UNCHANGED vars PROVE Kept'
    OBVIOUS
  <1>1. TypeOK'
    BY DEF Kept, TypeOK
  <1>2. Outstanding' /\ Taken'
    BY DEF Kept, Outstanding, Taken, TakenUp
  <1>3. Coming'
    BY DEF Kept, Coming, Rises, In
  <1>4. Once'
    BY OnceStays
  <1>5. QED
    BY <1>1, <1>2, <1>3, <1>4 DEF Kept

\* The invariant holds.
LEMMA AlwaysKept == Spec => []Kept
  <1>1. Kept /\ [Next]_vars => Kept'
    BY TypeStep, OutstandingStep, TakenStep, ComingStep, OnceStep, KeptStays DEF Kept
  <1>2. QED
    BY <1>1, KeptInit, PTL DEF Spec

\* Every variable has its type, in every reachable state: above all, no result
\* is written of a question the application gave no number to.
THEOREM TypeCorrect == Spec => []TypeOK
  <1>1. Kept => TypeOK
    BY DEF Kept
  <1>2. QED
    BY <1>1, AlwaysKept, PTL

\* A destroy under way names a query the application holds, and no two of them
\* the same one: finishWith sends one for each scope once, and Finish leaves the
\* query held until it comes.
THEOREM OnlyKnownDestroys == Spec => []DestroyIsKnown
  <1>1. Kept => DestroyIsKnown
    <2> SUFFICES ASSUME Kept, NEW i \in DOMAIN toApp, toApp[i].verb = "destroy"
                 PROVE  /\ toApp[i].of \in queries
                        /\ \A j \in DOMAIN toApp : toApp[j] = toApp[i] => j = i
      BY DEF DestroyIsKnown
    <2> DEFINE x == toApp[i]
    <2>1. x \in ToApp /\ x \in In(toApp)
      BY ElementOfSeq, LenProperties DEF Kept, TypeOK, In
    <2>2. x.of \in Numbers /\ x = Destroy(x.of)
      BY <2>1, ToAppIs DEF Numbers, Scopes
    <2>3. OnceIn(toApp, Destroy(x.of)) /\ x.of \in queries
      BY <2>1, <2>2 DEF Kept, Once
    <2>4. QED
      BY <2>2, <2>3 DEF OnceIn
  <1>2. QED
    BY <1>1, AlwaysKept, PTL

\* finishWith tells nobody twice.
LEMMA FinishWithTells ==
  ASSUME Kept, NEW Q \in SUBSET live, NEW how, FinishWith(Q, how)
  PROVE  \A q \in Scopes : ended[q] # "no" => ended'[q] = ended[q]
  <1>1. ended' = [q \in Scopes |-> IF q \in Q THEN how ELSE ended[q]]
    BY FinishWithDoes
  <1>2. \A q \in live : ended[q] = "no"
    BY DEF Kept, Outstanding
  <1>3. QED
    BY <1>1, <1>2

\* What a scope was told when it ended stands.
LEMMA EndStands ==
  ASSUME Kept, Next
  PROVE  \A q \in Scopes : ended[q] # "no" => ended'[q] = ended[q] /\ got'[q] = got[q]
  <1> DEFINE Stands == \A q \in Scopes : ended[q] # "no" => ended'[q] = ended[q] /\ got'[q] = got[q]
  <1>1. CASE UNCHANGED <<ended, got>>
    BY <1>1
  <1>2. ASSUME NEW t \in Sets, CloseSet(t) PROVE Stands
    BY <1>2, FinishWithTells DEF CloseSet, Of
  <1>3. CASE TakeError
    <2>1. UNCHANGED got
      BY <1>3 DEF TakeError
    <2>2. \/ UNCHANGED <<live, ended, toApp>>
          \/ \E Q \in SUBSET live : FinishWith(Q, "refused")
      BY <1>3, ErrorDoes, FirstIs DEF Unnamed
    <2>3. QED
      BY <2>1, <2>2, FinishWithTells
  <1>4. CASE TakeResult
    <2>1. \/ UNCHANGED <<live, ended, toApp>>
          \/ \E Q \in SUBSET live, how \in Endings : FinishWith(Q, how)
      BY <1>4, ResultDoes DEF Addressed
    <2>2. got' = got \/ \E q \in live : \E x : got' = [got EXCEPT ![q] = x]
      BY <1>4, ResultDoes DEF Addressed
    <2>3. /\ \A q \in live : ended[q] = "no"
          /\ got \in [Scopes -> Seq(Scopes \X (1..MaxRecords))]
      BY DEF Kept, TypeOK, Outstanding
    <2>4. \A q \in Scopes : ended[q] # "no" => got'[q] = got[q]
      BY <2>2, <2>3
    <2>5. \A q \in Scopes : ended[q] # "no" => ended'[q] = ended[q]
      BY <2>1, FinishWithTells
    <2>6. QED
      BY <2>4, <2>5
  <1>5. \/ UNCHANGED <<ended, got>>
        \/ \E t \in Sets : CloseSet(t)
        \/ TakeError \/ TakeResult
    BY DEF Next, Read, TakeReply, Provide, TakeNew, TakeUp, TurnDown, TakeDestroy, Record, Flush, Finish
  <1>6. QED
    BY <1>1, <1>2, <1>3, <1>4, <1>5

\* A reader told of the end is told nothing more: no record that was in flight
\* when it let go reaches it, and no second end.
THEOREM TheEndIsTheEnd == Spec => EndIsTheEnd
  <1> DEFINE Over == \A q \in Scopes : ended[q] # "no" => ended'[q] = ended[q] /\ got'[q] = got[q]
  <1>1. Kept /\ [Next]_vars => [Over]_vars
    BY EndStands
  <1>2. QED
    BY <1>1, AlwaysKept, PTL DEF Spec, EndIsTheEnd

-----------------------------------------------------------------------------
\* Queries left behind.  A reply that finds nobody waiting leaves its query with
\* the application; it finds nobody only when every question has been answered,
\* or its scope let go -- so these are counted against each other.

\* A number is said once, of a question taken up, and names one scope; a scope
\* that was named sent its destroy as it ended, and one refused had no name.
Naming ==
  /\ \A p, q \in Scopes : named[p] # 0 /\ named[p] = named[q] => p = q
  /\ \A q \in Scopes : named[q] # 0 =>
       /\ \E p \in Scopes : number[p] = named[q]
       /\ Reply(named[q]) \notin In(toDisplay)
       /\ q \notin live /\ named[q] \in queries => Destroy(named[q]) \in In(toApp)
  /\ \A n \in Numbers : Reply(n) \in In(toDisplay) => \E p \in Scopes : number[p] = n
  /\ \A q \in Scopes : /\ ended[q] = "refused" => named[q] = 0
                       /\ ended[q] \in Endings => named[q] # 0

\* The errors under way, the scopes told of one, and the questions that had one.
Errors(s) == {i \in DOMAIN s : s[i].verb = "error"}
Refused == {q \in Scopes : ended[q] = "refused"}
TurnedDown == {q \in Scopes : fate[q] = "refused"}

\* No more scopes are refused than questions were.
Refusals == Cardinality(Errors(toDisplay)) + Cardinality(Refused) <= Cardinality(TurnedDown)

\* The questions whose number was said and taken by no scope.
Lost ==
  {q \in Scopes : /\ number[q] # 0
                  /\ Reply(number[q]) \notin In(toDisplay)
                  /\ \A p \in Scopes : named[p] # number[q]}

FewLost == Cardinality(Lost) <= Cardinality(LetGoUnnamed)

Counted == Kept /\ Naming /\ Refusals /\ FewLost

\* A set of questions, or of numbers, is finite.
LEMMA SomeScopes ==
  ASSUME NEW S \in SUBSET Scopes
  PROVE  IsFiniteSet(S) /\ Cardinality(S) \in Nat
  <1>1. 1 \in Int /\ MaxScopes \in Int
    BY QueriesAssumption
  <1>2. IsFiniteSet(Scopes)
    BY <1>1, FS_Interval DEF Scopes
  <1>3. QED
    BY <1>2, FS_Subset, FS_CardinalityType

\* Two sets together have as many elements as they have, if they share none.
LEMMA UnionIs ==
  ASSUME NEW S, NEW T, IsFiniteSet(S), IsFiniteSet(T)
  PROVE  /\ Cardinality(S \union T) <= Cardinality(S) + Cardinality(T)
         /\ S \intersect T = {} => Cardinality(S \union T) = Cardinality(S) + Cardinality(T)
  <1>1. /\ Cardinality(S) \in Nat /\ Cardinality(T) \in Nat
        /\ Cardinality(S \union T) = Cardinality(S) + Cardinality(T) - Cardinality(S \intersect T)
    BY FS_Union, FS_CardinalityType
  <1>2. Cardinality(S \intersect T) \in Nat
    <2>1. S \intersect T \in SUBSET S
      OBVIOUS
    <2>2. QED
      BY <2>1, FS_Subset, FS_CardinalityType
  <1>3. S \intersect T = {} => Cardinality(S \intersect T) = 0
    BY FS_EmptySet
  <1>4. QED
    BY <1>1, <1>2, <1>3

\* One element more makes a set larger by one at most.
LEMMA OneMore ==
  ASSUME NEW S, NEW x, IsFiniteSet(S)
  PROVE  /\ Cardinality(S \union {x}) \in Nat
         /\ Cardinality(S \union {x}) <= Cardinality(S) + 1
         /\ x \notin S => Cardinality(S \union {x}) = Cardinality(S) + 1
  <1>1. IsFiniteSet(S \union {x}) /\ Cardinality(S) \in Nat
    BY FS_AddElement, FS_CardinalityType
  <1>2. Cardinality(S \union {x}) = IF x \in S THEN Cardinality(S) ELSE Cardinality(S) + 1
    BY FS_AddElement
  <1>3. Cardinality(S \union {x}) \in Nat
    BY <1>1, FS_CardinalityType
  <1>4. QED
    BY <1>1, <1>2, <1>3

\* What is in the queues and the tables when nothing that counts has moved.
LEMMA NamingStays ==
  ASSUME Kept, Naming, UNCHANGED <<named, number, ended>>,
         live \subseteq live', queries' \subseteq queries \union {minted + 1},
         \A n \in Numbers : Reply(n) \in In(toDisplay') => Reply(n) \in In(toDisplay),
         \A n \in Numbers : n \in queries' /\ Destroy(n) \in In(toApp) => Destroy(n) \in In(toApp')
  PROVE  Naming'
  <1>1. named \in [Scopes -> {0} \union Numbers] /\ minted \in Nat
    BY DEF Kept, TypeOK
  <1>2. ASSUME NEW q \in Scopes, named[q] # 0
        PROVE  /\ named[q] \in Numbers /\ named[q] # minted + 1
               /\ \E p \in Scopes : number[p] = named[q]
               /\ Reply(named[q]) \notin In(toDisplay)
               /\ q \notin live /\ named[q] \in queries => Destroy(named[q]) \in In(toApp)
    <2>1. PICK p \in Scopes : number[p] = named[q]
      BY <1>2 DEF Naming
    <2>2. number[p] <= minted /\ number[p] \in Nat
      <3>1. number \in [Scopes -> {0} \union Numbers] /\ number[p] <= minted
        BY DEF Kept, TypeOK, Taken
      <3>2. QED
        BY <3>1 DEF Numbers, Scopes
    <2>3. named[q] # minted + 1
      BY <1>1, <2>1, <2>2
    <2>4. QED
      BY <1>1, <1>2, <2>1, <2>3 DEF Naming
  <1>3. ASSUME NEW q \in Scopes, named[q] # 0
        PROVE  /\ \E p \in Scopes : number[p] = named[q]
               /\ Reply(named[q]) \notin In(toDisplay')
               /\ q \notin live' /\ named[q] \in queries' => Destroy(named[q]) \in In(toApp')
    <2>1. /\ named[q] \in Numbers /\ named[q] # minted + 1
          /\ \E p \in Scopes : number[p] = named[q]
          /\ Reply(named[q]) \notin In(toDisplay)
          /\ q \notin live /\ named[q] \in queries => Destroy(named[q]) \in In(toApp)
      BY <1>2, <1>3
    <2>2. QED
      BY <2>1
  <1>4. \A n \in Numbers : Reply(n) \in In(toDisplay') => \E p \in Scopes : number[p] = n
    BY DEF Naming
  <1>5. QED
    BY <1>3, <1>4 DEF Naming

\* Scopes that end send the destroys of those that were named.
LEMMA NamingFinish ==
  ASSUME Kept, Naming, NEW Q \in SUBSET live, NEW how, FinishWith(Q, how),
         UNCHANGED <<named, number, queries>>,
         how = "refused" => \A q \in Q : named[q] = 0,
         how \in Endings => \A q \in Q : named[q] # 0,
         In(toDisplay') \subseteq In(toDisplay)
  PROVE  Naming'
  <1>1. /\ live' = live \ Q
        /\ ended' = [q \in Scopes |-> IF q \in Q THEN how ELSE ended[q]]
        /\ In(toApp') = In(toApp) \union {Destroy(named[q]) : q \in {r \in Q : named[r] # 0}}
    BY FinishWithDoes
  <1>2. ASSUME NEW q \in Scopes, named[q] # 0, q \notin live', named[q] \in queries
        PROVE  Destroy(named[q]) \in In(toApp')
    <2>1. CASE q \in Q
      BY <1>1, <1>2, <2>1
    <2>2. CASE q \notin Q
      <3>1. q \notin live
        BY <1>1, <1>2, <2>2
      <3>2. Destroy(named[q]) \in In(toApp)
        BY <1>2, <3>1 DEF Naming
      <3>3. QED
        BY <1>1, <3>2
    <2>3. QED
      BY <2>1, <2>2
  <1>3. \A q \in Scopes : /\ ended'[q] = "refused" => named[q] = 0
                          /\ ended'[q] \in Endings => named[q] # 0
    BY <1>1 DEF Naming
  <1>4. \A q \in Scopes : named[q] # 0 =>
          /\ \E p \in Scopes : number[p] = named[q]
          /\ Reply(named[q]) \notin In(toDisplay')
    BY DEF Naming
  <1>5. \A n \in Numbers : Reply(n) \in In(toDisplay') => \E p \in Scopes : number[p] = n
    BY DEF Naming
  <1>6. \A p, q \in Scopes : named[p] # 0 /\ named[p] = named[q] => p = q
    BY DEF Naming
  <1>7. QED
    BY <1>2, <1>3, <1>4, <1>5, <1>6 DEF Naming

\* A reply, when it comes, is of a number no scope has, and is not said again.
LEMMA SaidOnce ==
  ASSUME Kept, Naming, TakeReply
  PROVE  LET n == Head(toDisplay).n
         IN  n # 0 => /\ n \in Numbers /\ Reply(n) \in In(toDisplay) /\ Reply(n) \notin In(toDisplay')
                      /\ In(toDisplay) = {Reply(n)} \union In(toDisplay')
                      /\ \A q \in Scopes : named[q] # n
                      /\ \E p \in Scopes : number[p] = n
  <1> DEFINE n == Head(toDisplay).n
  <1>1. SUFFICES ASSUME n # 0
                 PROVE  /\ n \in Numbers /\ Reply(n) \in In(toDisplay) /\ Reply(n) \notin In(toDisplay')
                        /\ In(toDisplay) = {Reply(n)} \union In(toDisplay')
                        /\ \A q \in Scopes : named[q] # n
                        /\ \E p \in Scopes : number[p] = n
    OBVIOUS
  <1>2. n \in Numbers /\ Head(toDisplay) = Reply(n)
    BY <1>1, ReplyDoes
  <1>3. toDisplay \in Seq(ToDisplay) /\ toDisplay # <<>> /\ toDisplay' = Tail(toDisplay)
    BY DEF Kept, TypeOK, TakeReply, Arrives
  <1>4. In(toDisplay) = {Reply(n)} \union In(toDisplay')
    BY <1>2, <1>3, TailIs
  <1>5. OnceIn(toDisplay, Reply(n))
    BY <1>2 DEF Kept, Once
  <1>6. Reply(n) \notin In(toDisplay')
    BY <1>2, <1>3, <1>5, TailIs
  <1> HIDE DEF n
  <1>7. QED
    BY <1>1, <1>2, <1>4, <1>6 DEF Naming

\* Numbers go on being said once and named once.
LEMMA NamingStep == ASSUME Kept, Naming, Next PROVE Naming'
  <1>1. /\ toApp \in Seq(ToApp) /\ toDisplay \in Seq(ToDisplay) /\ live \subseteq Scopes
        /\ named \in [Scopes -> {0} \union Numbers] /\ minted \in Nat
        /\ number \in [Scopes -> {0} \union Numbers]
        /\ \A q \in live : ended[q] = "no"
    BY DEF Kept, TypeOK, Outstanding
  <1>2. ASSUME NEW x \in ToDisplay, \A n \in Numbers : x # Reply(n),
               toDisplay' = Append(toDisplay, x)
        PROVE  \A n \in Numbers : Reply(n) \in In(toDisplay') => Reply(n) \in In(toDisplay)
    <2>1. In(toDisplay') = In(toDisplay) \union {x}
      BY <1>1, <1>2, AppendIs
    <2>2. QED
      BY <1>2, <2>1
  <1>3. ASSUME NEW verb, Arrives(verb) PROVE In(toDisplay') \subseteq In(toDisplay)
    BY <1>1, <1>3, TailIs DEF Arrives
  <1>4. ASSUME NEW t \in Sets, Read(t) PROVE Naming'
    <2>1. /\ UNCHANGED <<named, number, ended, queries, toDisplay>> /\ live \subseteq live'
          /\ asked + 1 \in Scopes /\ toApp' = Append(toApp, New(asked + 1))
      BY <1>4, QueriesAssumption DEF Read, Kept, TypeOK, Scopes
    <2>2. In(toApp) \subseteq In(toApp') /\ In(toDisplay') = In(toDisplay)
      BY <1>1, <2>1, NewIs, AppendIs
    <2>3. QED
      BY <2>1, <2>2, NamingStays
  <1>5. ASSUME NEW t \in Sets, CloseSet(t) PROVE Naming'
    <2>1. /\ FinishWith(Of(t), "closed") /\ Of(t) \in SUBSET live
          /\ UNCHANGED <<named, number, queries>> /\ In(toDisplay') = In(toDisplay)
      BY <1>5 DEF CloseSet, Of
    <2>2. "closed" # "refused" /\ "closed" \notin Endings
      BY DEF Endings
    <2>3. QED
      BY <2>1, <2>2, NamingFinish
  <1>6. CASE TakeReply
    <2> DEFINE n == Head(toDisplay).n
    <2>1. /\ UNCHANGED <<live, number, ended, queries>> /\ In(toApp') = In(toApp)
          /\ In(toDisplay') \subseteq In(toDisplay)
      BY <1>3, <1>6 DEF TakeReply
    <2>2. \/ named' = named
          \/ n # 0 /\ \E s \in Takers : named' = [named EXCEPT ![FirstUnnamed(s)] = n]
      BY <1>6, ReplyDoes
    <2>3. n # 0 => /\ n \in Numbers /\ Reply(n) \notin In(toDisplay')
                   /\ \A q \in Scopes : named[q] # n
                   /\ \E p \in Scopes : number[p] = n
      BY <1>6, SaidOnce
    <2> HIDE DEF n
    <2>4. CASE named' = named
      BY <2>1, <2>4, NamingStays
    <2>5. ASSUME NEW s \in Takers, n # 0, named' = [named EXCEPT ![FirstUnnamed(s)] = n] PROVE Naming'
      <3>1. PICK q0 \in live : q0 = FirstUnnamed(s) /\ named[q0] = 0
        BY <2>5, FirstIs DEF Unnamed
      <3>2. q0 \in Scopes /\ ended[q0] = "no" /\ named' = [named EXCEPT ![q0] = n]
        BY <1>1, <2>5, <3>1
      <3>3. /\ named'[q0] = n /\ \A q \in Scopes : q # q0 => named'[q] = named[q]
            /\ n # 0 /\ Reply(n) \notin In(toDisplay') /\ \A q \in Scopes : named[q] # n
            /\ \E p \in Scopes : number[p] = n
        BY <1>1, <2>3, <2>5, <3>2
      <3>4. \A p, q \in Scopes : named'[p] # 0 /\ named'[p] = named'[q] => p = q
        BY <3>3 DEF Naming
      <3>5. \A q \in Scopes : named'[q] # 0 =>
              /\ \E p \in Scopes : number'[p] = named'[q]
              /\ Reply(named'[q]) \notin In(toDisplay')
              /\ q \notin live' /\ named'[q] \in queries' => Destroy(named'[q]) \in In(toApp')
        <4>1. ASSUME NEW q \in Scopes, named'[q] # 0
              PROVE  /\ \E p \in Scopes : number'[p] = named'[q]
                     /\ Reply(named'[q]) \notin In(toDisplay')
                     /\ q \notin live' /\ named'[q] \in queries' => Destroy(named'[q]) \in In(toApp')
          <5>1. CASE q = q0
            BY <2>1, <3>1, <3>3, <5>1
          <5>2. CASE q # q0
            BY <2>1, <3>3, <4>1, <5>2 DEF Naming
          <5>3. QED
            BY <5>1, <5>2
        <4>2. QED
          BY <4>1
      <3>6. \A m \in Numbers : Reply(m) \in In(toDisplay') => \E p \in Scopes : number'[p] = m
        BY <2>1 DEF Naming
      <3>7. \A q \in Scopes : /\ ended'[q] = "refused" => named'[q] = 0
                              /\ ended'[q] \in Endings => named'[q] # 0
        <4>1. "no" # "refused" /\ "no" \notin Endings
          BY DEF Endings
        <4>2. QED
          BY <2>1, <3>2, <3>3, <4>1 DEF Naming
      <3>8. QED
        BY <3>4, <3>5, <3>6, <3>7 DEF Naming
    <2>6. QED
      BY <2>2, <2>4, <2>5
  <1>7. CASE TakeError
    <2>1. UNCHANGED <<named, number, queries>> /\ In(toDisplay') \subseteq In(toDisplay)
      BY <1>3, <1>7 DEF TakeError
    <2>2. CASE UNCHANGED <<live, ended, toApp>>
      <3>1. In(toApp') = In(toApp)
        BY <2>2
      <3>2. QED
        BY <2>1, <2>2, <3>1, NamingStays
    <2>3. ASSUME NEW s \in Takers, FinishWith({FirstUnnamed(s)}, "refused") PROVE Naming'
      <3>1. PICK q0 \in live : q0 = FirstUnnamed(s) /\ named[q0] = 0
        BY <2>3, FirstIs DEF Unnamed
      <3>2. {q0} \in SUBSET live /\ FinishWith({q0}, "refused") /\ "refused" \notin Endings
        BY <2>3, <3>1 DEF Endings
      <3>3. QED
        BY <2>1, <3>1, <3>2, NamingFinish
    <2>4. QED
      BY <1>7, <2>2, <2>3, ErrorDoes
  <1>8. CASE TakeResult
    <2>1. UNCHANGED <<named, number, queries>> /\ In(toDisplay') \subseteq In(toDisplay)
      BY <1>3, <1>8 DEF TakeResult
    <2>2. CASE UNCHANGED <<live, ended, toApp>>
      <3>1. In(toApp') = In(toApp)
        BY <2>2
      <3>2. QED
        BY <2>1, <2>2, <3>1, NamingStays
    <2>3. ASSUME NEW q \in live, named[q] # 0, NEW how \in Endings, FinishWith({q}, how) PROVE Naming'
      <3>1. {q} \in SUBSET live /\ how # "refused"
        BY <2>3 DEF Endings
      <3>2. QED
        BY <2>1, <2>3, <3>1, NamingFinish
    <2>4. \/ UNCHANGED <<live, ended, toApp>>
          \/ \E q \in live : named[q] # 0 /\ \E how \in Endings : FinishWith({q}, how)
      BY <1>8, ResultDoes, Neither DEF Addressed
    <2>5. QED
      BY <2>2, <2>3, <2>4
  <1>9. ASSUME UNCHANGED <<live, named, number, ended, queries, toApp>>,
               toDisplay' = toDisplay \/ \E x \in ToDisplay : /\ toDisplay' = Append(toDisplay, x)
                                                              /\ \A n \in Numbers : x # Reply(n)
        PROVE  Naming'
    <2>1. \A n \in Numbers : Reply(n) \in In(toDisplay') => Reply(n) \in In(toDisplay)
      BY <1>2, <1>9
    <2>2. In(toApp') = In(toApp)
      BY <1>9
    <2>3. QED
      BY <1>9, <2>1, <2>2, NamingStays
  <1>10. CASE TakeNew
    <2>1. PICK q \in Scopes : q = Head(toApp).of /\ New(q) \in In(toApp)
                              /\ In(toApp) = {New(q)} \union In(toApp')
      BY <1>10, Taking DEF TakeNew
    <2>2. \A n \in Numbers : Destroy(n) \in In(toApp) => Destroy(n) \in In(toApp')
      BY <2>1, Neither
    <2>3. /\ minted + 1 \in Numbers /\ number[q] = 0 /\ \A r \in Scopes : number[r] # minted + 1
      BY <2>1, NextNumber
    <2>4. UNCHANGED <<live, named, ended>> /\ queries' \subseteq queries \union {minted + 1}
      BY <1>10 DEF TakeNew
    <2>5. CASE TurnDown(q)
      <3>1. UNCHANGED number /\ toDisplay' = Append(toDisplay, Error)
        BY <2>5 DEF TurnDown
      <3>2. \A n \in Numbers : Reply(n) \in In(toDisplay') => Reply(n) \in In(toDisplay)
        BY <1>2, <3>1, AnswersAre, Neither
      <3>3. QED
        BY <2>2, <2>4, <3>1, <3>2, NamingStays
    <2>6. CASE TakeUp(q)
      <3> DEFINE k == minted + 1
      <3>1. /\ number' = [number EXCEPT ![q] = k]
            /\ toDisplay' = Append(toDisplay, Reply(k))
        BY <2>6 DEF TakeUp
      <3>2. In(toDisplay') = In(toDisplay) \union {Reply(k)}
        BY <1>1, <2>3, <3>1, AnswersAre, AppendIs
      <3>3. /\ number'[q] = k /\ \A r \in Scopes : r # q => number'[r] = number[r]
            /\ \A n \in Numbers : n # 0
            /\ \A n \in Numbers : Reply(n) = Reply(k) => n = k
        BY <1>1, <2>3, <3>1, Neither
      <3>4. k \in Numbers /\ \A r \in Scopes : number[r] # k
        BY <2>3
      <3> HIDE DEF k
      <3>5. \A r \in Scopes : number[r] # 0 => number'[r] = number[r]
        BY <2>3, <3>3
      <3>6. ASSUME NEW r \in Scopes, named[r] # 0
            PROVE  /\ \E p \in Scopes : number'[p] = named[r]
                   /\ Reply(named[r]) \notin In(toDisplay')
                   /\ r \notin live /\ named[r] \in queries' => Destroy(named[r]) \in In(toApp')
        <4>1. /\ named[r] \in Numbers /\ Reply(named[r]) \notin In(toDisplay)
              /\ r \notin live /\ named[r] \in queries => Destroy(named[r]) \in In(toApp)
          BY <1>1, <3>6 DEF Naming
        <4>2. PICK p \in Scopes : number[p] = named[r]
          BY <3>6 DEF Naming
        <4>3. named[r] # k /\ number'[p] = named[r]
          BY <3>4, <3>5, <3>6, <4>2
        <4>4. Reply(named[r]) \notin In(toDisplay')
          BY <3>2, <3>3, <4>1, <4>3
        <4>5. queries' \subseteq queries \union {k}
          BY <2>4 DEF k
        <4>6. QED
          BY <2>2, <4>1, <4>3, <4>4, <4>5
      <3>7. ASSUME NEW n \in Numbers, Reply(n) \in In(toDisplay')
            PROVE  \E p \in Scopes : number'[p] = n
        <4>1. CASE n = k
          BY <3>3, <4>1
        <4>2. CASE n # k
          <5>1. PICK p \in Scopes : number[p] = n
            BY <3>2, <3>3, <3>7, <4>2 DEF Naming
          <5>2. number'[p] = n
            BY <3>3, <3>5, <5>1
          <5>3. QED
            BY <5>2
        <4>3. QED
          BY <4>1, <4>2
      <3>8. QED
        BY <2>4, <3>6, <3>7 DEF Naming
    <2>7. QED
      BY <1>10, <2>1, <2>5, <2>6 DEF TakeNew
  <1>11. CASE TakeDestroy
    <2>1. PICK n \in Numbers : /\ In(toApp) = {Destroy(n)} \union In(toApp')
                               /\ queries' = queries \ {n}
      BY <1>11, Taking DEF TakeDestroy, Numbers, Scopes
    <2>2. UNCHANGED <<live, named, number, ended>>
          /\ \E x \in {Reply(0), Error} : toDisplay' = Append(toDisplay, x)
      BY <1>11 DEF TakeDestroy
    <2>3. \A m \in Numbers : Reply(m) \in In(toDisplay') => Reply(m) \in In(toDisplay)
      BY <1>2, <2>2, AnswersAre, Neither
    <2>4. \A m \in Numbers : m \in queries' /\ Destroy(m) \in In(toApp) => Destroy(m) \in In(toApp')
      BY <2>1, Neither
    <2>5. QED
      BY <2>1, <2>2, <2>3, <2>4, NamingStays
  <1>12. ASSUME NEW s \in Sources, Provide(s) PROVE Naming'
    BY <1>9, <1>12 DEF Provide
  <1>13. ASSUME NEW q \in Scopes, q \in waiting \/ fate[q] = "open",
                NEW end \in {""} \union Endings, NEW place, place = 0 \/ place = made[q],
                toDisplay' = Append(toDisplay, Result(q, place, end)),
                UNCHANGED <<live, named, number, ended, queries, toApp>>
         PROVE  Naming'
    <2> DEFINE x == Result(q, place, end)
    <2>1. x \in ToDisplay
      BY <1>13, SentIs
    <2>2. \A n \in Numbers : x # Reply(n)
      BY Neither
    <2>3. toDisplay' = Append(toDisplay, x)
      BY <1>13
    <2> HIDE DEF x
    <2>4. QED
      BY <1>9, <1>13, <2>1, <2>2, <2>3
  <1>14. ASSUME NEW q \in Scopes, Record(q) PROVE Naming'
    <2>1. /\ UNCHANGED <<live, named, number, ended, queries, toApp>> /\ fate[q] = "open"
          /\ toDisplay' = toDisplay \/ toDisplay' = Append(toDisplay, Result(q, made[q], ""))
      BY <1>14 DEF Record, SendHeld
    <2>2. QED
      BY <1>9, <1>13, <2>1
  <1>15. ASSUME NEW q \in Scopes, Flush(q) PROVE Naming'
    <2>1. /\ UNCHANGED <<live, named, number, ended, queries, toApp>> /\ q \in waiting
          /\ toDisplay' = toDisplay \/ toDisplay' = Append(toDisplay, Result(q, made[q], ""))
      BY <1>15 DEF Flush, SendHeld
    <2>2. QED
      BY <1>9, <1>13, <2>1
  <1>16. ASSUME NEW q \in Scopes, NEW how \in Endings, Finish(q, how) PROVE Naming'
    <2>1. /\ UNCHANGED <<live, named, number, ended, queries, toApp>> /\ fate[q] = "open"
          /\ toDisplay' = Append(toDisplay, Result(q, LastOf(q), how))
          /\ LastOf(q) = 0 \/ LastOf(q) = made[q]
      BY <1>16 DEF Finish, LastOf
    <2>2. QED
      BY <1>13, <2>1
  <1>17. QED
    BY <1>4, <1>5, <1>6, <1>7, <1>8, <1>10, <1>11, <1>12, <1>14, <1>15, <1>16 DEF Next

\* The errors under way are finitely many.
LEMMA ErrorsAreFew ==
  ASSUME NEW s \in Seq(ToDisplay)
  PROVE  IsFiniteSet(Errors(s)) /\ Cardinality(Errors(s)) \in Nat
  <1>1. Len(s) \in Nat /\ DOMAIN s = 1..Len(s)
    BY LenProperties
  <1>2. IsFiniteSet(1..Len(s))
    BY <1>1, FS_Interval
  <1>3. Errors(s) \in SUBSET (1..Len(s))
    BY <1>1 DEF Errors
  <1>4. QED
    BY <1>2, <1>3, FS_Subset, FS_CardinalityType

\* One more message is one more error, or none.
LEMMA ErrorsPut ==
  ASSUME NEW s \in Seq(ToDisplay), NEW x \in ToDisplay
  PROVE  /\ Cardinality(Errors(Append(s, x))) <= Cardinality(Errors(s)) + 1
         /\ x.verb # "error" => Cardinality(Errors(Append(s, x))) = Cardinality(Errors(s))
  <1> DEFINE t == Append(s, x)
             k == Len(s) + 1
  <1>1. /\ DOMAIN s = 1..Len(s) /\ Len(s) \in Nat /\ DOMAIN t = 1..(Len(s) + 1)
        /\ \A i \in 1..Len(s) : t[i] = s[i]
        /\ t[k] = x
    BY AppendIs
  <1>2. \A i \in DOMAIN t : i \in DOMAIN s \/ i = k
    BY <1>1
  <1>3. \A i \in DOMAIN s : i \in DOMAIN t /\ t[i] = s[i]
    BY <1>1
  <1>4. k \in DOMAIN t
    BY <1>1
  <1> HIDE DEF t, k
  <1>5. Errors(t) = IF x.verb = "error" THEN Errors(s) \union {k} ELSE Errors(s)
    BY <1>1, <1>2, <1>3, <1>4 DEF Errors
  <1>6. IsFiniteSet(Errors(s)) /\ Cardinality(Errors(s)) \in Nat
    BY ErrorsAreFew
  <1>7. Cardinality(Errors(s) \union {k}) <= Cardinality(Errors(s)) + 1
    BY <1>6, OneMore
  <1>8. CASE x.verb = "error"
    <2>1. Errors(t) = Errors(s) \union {k}
      BY <1>5, <1>8
    <2>2. QED
      BY <1>7, <1>8, <2>1 DEF t
  <1>9. CASE x.verb # "error"
    <2>1. Errors(t) = Errors(s)
      BY <1>5, <1>9
    <2>2. QED
      BY <1>6, <2>1 DEF t
  <1>10. QED
    BY <1>8, <1>9

\* Taking a message takes an error, if it is one.
LEMMA ErrorsTaken ==
  ASSUME NEW s \in Seq(ToDisplay), s # <<>>
  PROVE  /\ Cardinality(Errors(Tail(s))) <= Cardinality(Errors(s))
         /\ Head(s).verb = "error" => Cardinality(Errors(Tail(s))) + 1 <= Cardinality(Errors(s))
  <1> DEFINE t == Tail(s)
             U == Errors(s) \ {1}
             next == [i \in Errors(t) |-> i + 1]
  <1>1. /\ t \in Seq(ToDisplay) /\ Head(s) = s[1] /\ Len(s) \in Nat \ {0}
        /\ DOMAIN s = 1..Len(s) /\ DOMAIN t = 1..(Len(s) - 1)
        /\ \A i \in 1..(Len(s) - 1) : t[i] = s[i + 1]
    BY TailIs
  <1>2. \A i \in DOMAIN t : i \in Nat /\ i + 1 \in DOMAIN s /\ i + 1 # 1 /\ t[i] = s[i + 1]
    BY <1>1
  <1>3. 1 \in DOMAIN s
    BY <1>1
  <1>4. IsFiniteSet(Errors(s)) /\ Cardinality(Errors(s)) \in Nat
    BY ErrorsAreFew
  <1>5. /\ IsFiniteSet(U) /\ Cardinality(U) \in Nat
        /\ Cardinality(U) = IF 1 \in Errors(s) THEN Cardinality(Errors(s)) - 1 ELSE Cardinality(Errors(s))
    BY <1>4, FS_RemoveElement, FS_CardinalityType
  <1>6. IsFiniteSet(Errors(t)) /\ Cardinality(Errors(t)) \in Nat
    BY <1>1, ErrorsAreFew
  <1> HIDE DEF t
  <1>7. next \in Injection(Errors(t), U)
    <2>1. \A i \in Errors(t) : i \in Nat /\ i + 1 \in U
      BY <1>2 DEF Errors
    <2>2. next \in [Errors(t) -> U]
      BY <2>1
    <2>3. \A i, j \in Errors(t) : next[i] = next[j] => i = j
      BY <2>1
    <2>4. QED
      BY <2>2, <2>3 DEF Injection, IsInjective
  <1> HIDE DEF U, next
  <1>8. Cardinality(Errors(t)) <= Cardinality(U)
    BY <1>5, <1>7, FS_Injection
  <1>9. Head(s).verb = "error" => 1 \in Errors(s)
    BY <1>1, <1>3 DEF Errors
  <1>10. QED
    BY <1>4, <1>5, <1>6, <1>8, <1>9 DEF t

\* The scopes told of a refusal, and the questions refused, are finitely many.
LEMMA RefusalsCount ==
  /\ IsFiniteSet(Refused) /\ Cardinality(Refused) \in Nat
  /\ IsFiniteSet(TurnedDown) /\ Cardinality(TurnedDown) \in Nat
  <1>1. Refused \in SUBSET Scopes /\ TurnedDown \in SUBSET Scopes
    BY DEF Refused, TurnedDown
  <1>2. QED
    BY <1>1, SomeScopes

\* No message of an error, no refusal, is of a question that was not refused.
LEMMA RefusalsStays ==
  ASSUME Refusals, toDisplay \in Seq(ToDisplay), toDisplay' \in Seq(ToDisplay),
         Cardinality(Errors(toDisplay')) <= Cardinality(Errors(toDisplay)),
         Refused' = Refused, TurnedDown' = TurnedDown
  PROVE  Refusals'
  <1>1. /\ Cardinality(Errors(toDisplay)) \in Nat /\ Cardinality(Errors(toDisplay')) \in Nat
        /\ Cardinality(Refused) \in Nat /\ Cardinality(TurnedDown) \in Nat
    BY ErrorsAreFew, RefusalsCount
  <1>2. Refusals' <=> Cardinality(Errors(toDisplay')) + Cardinality(Refused) <= Cardinality(TurnedDown)
    BY DEF Refusals
  <1>3. QED
    BY <1>1, <1>2 DEF Refusals

\* There are never more refusals than questions refused.
LEMMA RefusalsStep == ASSUME Kept, Naming, Refusals, Next PROVE Refusals'
  <1>1. /\ toApp \in Seq(ToApp) /\ toDisplay \in Seq(ToDisplay) /\ live \subseteq Scopes
        /\ ended \in [Scopes -> {"no", "closed", "refused"} \union Endings]
        /\ fate \in [Scopes -> {"none", "open", "refused"} \union Endings]
        /\ \A q \in live : ended[q] = "no"
    BY DEF Kept, TypeOK, Outstanding
  <1>2. /\ Cardinality(Errors(toDisplay)) \in Nat
        /\ Cardinality(Refused) \in Nat /\ Cardinality(TurnedDown) \in Nat
        /\ IsFiniteSet(Refused) /\ IsFiniteSet(TurnedDown)
    BY <1>1, ErrorsAreFew, RefusalsCount
  <1>3. ASSUME NEW verb, Arrives(verb)
        PROVE  /\ toDisplay' \in Seq(ToDisplay)
               /\ Cardinality(Errors(toDisplay')) <= Cardinality(Errors(toDisplay))
               /\ verb = "error" =>
                    Cardinality(Errors(toDisplay')) + 1 <= Cardinality(Errors(toDisplay))
    <2>1. toDisplay # <<>> /\ Head(toDisplay).verb = verb /\ toDisplay' = Tail(toDisplay)
      BY <1>3 DEF Arrives
    <2>2. toDisplay' \in Seq(ToDisplay)
      BY <1>1, <2>1, TailIs
    <2>3. QED
      BY <1>1, <2>1, <2>2, ErrorsTaken
  <1>4. ASSUME NEW Q \in SUBSET live, NEW how, how # "refused", FinishWith(Q, how)
        PROVE  Refused' = Refused
    <2>1. ended' = [q \in Scopes |-> IF q \in Q THEN how ELSE ended[q]]
      BY <1>4, FinishWithDoes
    <2>2. \A q \in Scopes : ended'[q] = "refused" <=> ended[q] = "refused"
      BY <1>1, <1>4, <2>1
    <2>3. QED
      BY <2>2 DEF Refused
  <1>5. ASSUME NEW x \in ToDisplay, x.verb # "error", toDisplay' = Append(toDisplay, x)
        PROVE  /\ toDisplay' \in Seq(ToDisplay)
               /\ Cardinality(Errors(toDisplay')) <= Cardinality(Errors(toDisplay))
    BY <1>1, <1>2, <1>5, ErrorsPut, AppendIs
  <1>6. ASSUME UNCHANGED <<toDisplay, ended, fate>> PROVE Refusals'
    <2>1. Refused' = Refused /\ TurnedDown' = TurnedDown
      BY <1>6 DEF Refused, TurnedDown
    <2>2. QED
      BY <1>1, <1>2, <1>6, <2>1, RefusalsStays
  <1>7. ASSUME NEW t \in Sets, CloseSet(t) PROVE Refusals'
    <2>1. /\ FinishWith(Of(t), "closed") /\ Of(t) \in SUBSET live /\ UNCHANGED <<toDisplay, fate>>
      BY <1>7 DEF CloseSet, Of
    <2>2. Refused' = Refused /\ TurnedDown' = TurnedDown
      BY <1>4, <2>1 DEF TurnedDown
    <2>3. QED
      BY <1>1, <1>2, <2>1, <2>2, RefusalsStays
  <1>8. CASE TakeReply
    <2>1. UNCHANGED <<ended, fate>> /\ Arrives("reply")
      BY <1>8 DEF TakeReply
    <2>2. Refused' = Refused /\ TurnedDown' = TurnedDown
      BY <2>1 DEF Refused, TurnedDown
    <2>3. QED
      BY <1>1, <1>3, <2>1, <2>2, RefusalsStays
  <1>9. CASE TakeError
    <2>1. UNCHANGED fate /\ Arrives("error")
      BY <1>9 DEF TakeError
    <2>2. TurnedDown' = TurnedDown
      BY <2>1 DEF TurnedDown
    <2>3. CASE UNCHANGED <<live, ended, toApp>>
      <3>1. Refused' = Refused
        BY <2>3 DEF Refused
      <3>2. QED
        BY <1>1, <1>3, <2>1, <2>2, <3>1, RefusalsStays
    <2>4. ASSUME NEW q0 \in live, FinishWith({q0}, "refused") PROVE Refusals'
      <3>1. PICK Q \in SUBSET live : Q = {q0}
        OBVIOUS
      <3>2. ended' = [q \in Scopes |-> IF q \in Q THEN "refused" ELSE ended[q]] /\ q0 \in Scopes
        <4>1. FinishWith(Q, "refused")
          BY <2>4, <3>1
        <4>2. QED
          BY <1>1, <4>1, FinishWithDoes
      <3>3. Refused' = Refused \union {q0}
        BY <3>1, <3>2 DEF Refused
      <3>4. Cardinality(Refused') \in Nat /\ Cardinality(Refused') <= Cardinality(Refused) + 1
        BY <1>2, <3>3, OneMore
      <3>5. /\ Cardinality(Errors(toDisplay')) \in Nat
            /\ Cardinality(Errors(toDisplay')) + 1 <= Cardinality(Errors(toDisplay))
        BY <1>3, <2>1, ErrorsAreFew
      <3>6. Cardinality(Errors(toDisplay')) + Cardinality(Refused') <= Cardinality(TurnedDown)
        BY <1>2, <3>4, <3>5 DEF Refusals
      <3>7. QED
        BY <2>2, <3>6 DEF Refusals
    <2>5. QED
      BY <1>9, <2>3, <2>4, ErrorDoes, FirstIs DEF Unnamed
  <1>10. CASE TakeResult
    <2>1. UNCHANGED fate /\ Arrives("result")
      BY <1>10 DEF TakeResult
    <2>2. TurnedDown' = TurnedDown
      BY <2>1 DEF TurnedDown
    <2>3. ASSUME NEW q \in live, NEW how \in Endings, FinishWith({q}, how) PROVE Refused' = Refused
      <3>1. {q} \in SUBSET live /\ how # "refused"
        BY DEF Endings
      <3>2. QED
        BY <1>4, <2>3, <3>1
    <2>4. \/ UNCHANGED <<live, ended, toApp>>
          \/ \E q \in live : \E how \in Endings : FinishWith({q}, how)
      BY <1>10, ResultDoes DEF Addressed
    <2>5. Refused' = Refused
      BY <2>3, <2>4 DEF Refused
    <2>6. QED
      BY <1>1, <1>3, <2>1, <2>2, <2>5, RefusalsStays
  <1>11. CASE TakeNew
    <2>1. PICK q \in Scopes : q = Head(toApp).of /\ New(q) \in In(toApp)
      BY <1>11, Taking DEF TakeNew
    <2>2. fate[q] = "none" /\ minted + 1 \in Numbers
      BY <2>1, NextNumber
    <2>3. UNCHANGED ended /\ Refused' = Refused
      BY <1>11 DEF TakeNew, Refused
    <2>4. CASE TurnDown(q)
      <3>1. fate' = [fate EXCEPT ![q] = "refused"] /\ toDisplay' = Append(toDisplay, Error)
        BY <2>4 DEF TurnDown
      <3>2. TurnedDown' = TurnedDown \union {q} /\ q \notin TurnedDown
        BY <1>1, <2>2, <3>1 DEF TurnedDown
      <3>3. Cardinality(TurnedDown') = Cardinality(TurnedDown) + 1
        BY <1>2, <3>2, OneMore
      <3>4. /\ toDisplay' \in Seq(ToDisplay)
            /\ Cardinality(Errors(toDisplay')) <= Cardinality(Errors(toDisplay)) + 1
        BY <1>1, <3>1, AnswersAre, ErrorsPut, AppendIs
      <3>5. Cardinality(Errors(toDisplay')) \in Nat
        BY <3>4, ErrorsAreFew
      <3>6. Cardinality(Errors(toDisplay')) + Cardinality(Refused) <= Cardinality(TurnedDown')
        BY <1>2, <3>3, <3>4, <3>5 DEF Refusals
      <3>7. QED
        BY <2>3, <3>6 DEF Refusals
    <2>5. CASE TakeUp(q)
      <3>1. fate' = [fate EXCEPT ![q] = "open"] /\ toDisplay' = Append(toDisplay, Reply(minted + 1))
        BY <2>5 DEF TakeUp
      <3>2. TurnedDown' = TurnedDown
        BY <1>1, <2>2, <3>1 DEF TurnedDown
      <3>3. Reply(minted + 1) \in ToDisplay /\ Reply(minted + 1).verb # "error"
        BY <2>2, AnswersAre DEF Reply
      <3>4. QED
        BY <1>1, <1>5, <2>3, <3>1, <3>2, <3>3, RefusalsStays
    <2>6. QED
      BY <1>11, <2>1, <2>4, <2>5 DEF TakeNew
  <1>12. CASE TakeDestroy
    <2>1. PICK n \in Numbers : n = Head(toApp).of /\ Destroy(n) \in In(toApp)
      BY <1>12, Taking DEF TakeDestroy, Numbers, Scopes
    <2>2. n \in queries
      BY <2>1 DEF Kept, Once
    <2>3. UNCHANGED <<ended, fate>> /\ toDisplay' = Append(toDisplay, Reply(0))
      BY <1>12, <2>1, <2>2 DEF TakeDestroy
    <2>4. Reply(0) \in ToDisplay /\ Reply(0).verb # "error"
      BY AnswersAre DEF Reply
    <2>5. Refused' = Refused /\ TurnedDown' = TurnedDown
      BY <2>3 DEF Refused, TurnedDown
    <2>6. QED
      BY <1>1, <1>5, <2>3, <2>4, <2>5, RefusalsStays
  <1>13. ASSUME NEW q \in Scopes, q \in waiting \/ fate[q] = "open",
                NEW end \in {""} \union Endings, NEW place, place = 0 \/ place = made[q],
                toDisplay' = Append(toDisplay, Result(q, place, end)),
                UNCHANGED ended, TurnedDown' = TurnedDown
         PROVE  Refusals'
    <2>1. Result(q, place, end) \in ToDisplay
      BY <1>13, SentIs
    <2>2. Result(q, place, end).verb # "error"
      BY DEF Result
    <2>3. Refused' = Refused
      BY <1>13 DEF Refused
    <2>4. QED
      BY <1>1, <1>5, <1>13, <2>1, <2>2, <2>3, RefusalsStays
  <1>14. ASSUME NEW q \in Scopes, Record(q) PROVE Refusals'
    <2>1. /\ UNCHANGED <<ended, fate>> /\ fate[q] = "open"
          /\ toDisplay' = toDisplay \/ toDisplay' = Append(toDisplay, Result(q, made[q], ""))
      BY <1>14 DEF Record, SendHeld
    <2>2. TurnedDown' = TurnedDown
      BY <2>1 DEF TurnedDown
    <2>3. QED
      BY <1>6, <1>13, <2>1, <2>2
  <1>15. ASSUME NEW q \in Scopes, Flush(q) PROVE Refusals'
    <2>1. /\ UNCHANGED <<ended, fate>> /\ q \in waiting
          /\ toDisplay' = toDisplay \/ toDisplay' = Append(toDisplay, Result(q, made[q], ""))
      BY <1>15 DEF Flush, SendHeld
    <2>2. TurnedDown' = TurnedDown
      BY <2>1 DEF TurnedDown
    <2>3. QED
      BY <1>6, <1>13, <2>1, <2>2
  <1>16. ASSUME NEW q \in Scopes, NEW how \in Endings, Finish(q, how) PROVE Refusals'
    <2>1. /\ UNCHANGED ended /\ fate[q] = "open" /\ fate' = [fate EXCEPT ![q] = how]
          /\ toDisplay' = Append(toDisplay, Result(q, LastOf(q), how))
          /\ LastOf(q) = 0 \/ LastOf(q) = made[q]
      BY <1>16 DEF Finish, LastOf
    <2>2. how # "refused"
      BY DEF Endings
    <2>3. TurnedDown' = TurnedDown
      BY <1>1, <2>1, <2>2 DEF TurnedDown
    <2>4. QED
      BY <1>13, <2>1, <2>3
  <1>17. \A t \in Sets : Read(t) => UNCHANGED <<toDisplay, ended, fate>>
    BY DEF Read
  <1>18. \A s \in Sources : Provide(s) => UNCHANGED <<toDisplay, ended, fate>>
    BY DEF Provide
  <1>19. QED
    BY <1>6, <1>7, <1>8, <1>9, <1>10, <1>11, <1>12, <1>14, <1>15, <1>16, <1>17, <1>18 DEF Next

\* A scope let go before it was named stays so.
LEMMA LetGoStays == ASSUME Kept, Next PROVE LetGoUnnamed \subseteq LetGoUnnamed'
  <1>1. /\ named \in [Scopes -> {0} \union Numbers] /\ live \subseteq Scopes
        /\ \A q \in live : ended[q] = "no"
    BY DEF Kept, TypeOK, Outstanding
  <1>2. \A q \in Scopes : ended[q] = "closed" => ended'[q] = "closed"
    BY EndStands
  <1>3. \/ UNCHANGED named
        \/ \E q \in live : \E n : named' = [named EXCEPT ![q] = n]
    <2>1. UNCHANGED named \/ TakeReply
      BY DEF Next, Read, CloseSet, TakeError, TakeResult, Provide, TakeNew, TakeDestroy, Record,
             Flush, Finish
    <2>2. \A s \in Takers : FirstUnnamed(s) \in live
      BY FirstIs DEF Unnamed
    <2>3. QED
      BY <2>1, <2>2, ReplyDoes
  <1>4. \A q \in Scopes : ended[q] = "closed" => named'[q] = named[q]
    BY <1>1, <1>3
  <1>5. QED
    BY <1>2, <1>4 DEF LetGoUnnamed

\* When nobody waits to be named, every question was answered or its scope let
\* go, so the numbers that found nobody are no more than the scopes let go.
LEMMA LossIsPaid ==
  ASSUME Kept, Naming, Refusals, Takers = {},
         NEW S \in SUBSET Scopes,
         \A q \in S : number[q] # 0 /\ \A p \in Scopes : named[p] # number[q]
  PROVE  Cardinality(S) <= Cardinality(LetGoUnnamed)
  <1> DEFINE NS == {q \in Scopes : named[q] # 0}
             NQ == {q \in Scopes : number[q] # 0}
             HN == {q \in NQ : \E p \in Scopes : named[p] = number[q]}
             All == 1..asked
  <1>1. /\ asked \in Nat /\ All \subseteq Scopes /\ Cardinality(All) = asked
    <2>1. asked \in 0..MaxScopes /\ MaxScopes \in Nat
      BY QueriesAssumption DEF Kept, TypeOK
    <2>2. All \subseteq Scopes
      BY <2>1 DEF Scopes
    <2>3. Cardinality(All) = asked
      BY <2>1, FS_Interval
    <2>4. QED
      BY <2>1, <2>2, <2>3
  <1>2. \A q \in All : q \in NS \/ q \in Refused \/ q \in LetGoUnnamed
    <2>1. ASSUME NEW q \in All PROVE q \in NS \/ q \in Refused \/ q \in LetGoUnnamed
      <3>1. q \in Scopes /\ ended[q] \in {"no", "closed", "refused"} \union Endings
        BY <1>1, <2>1 DEF Kept, TypeOK
      <3>2. CASE ended[q] = "no"
        <4>1. q \in live /\ setOf[q] \in Sets
          BY <2>1, <3>1, <3>2 DEF Kept, Outstanding
        <4>2. SourceOf[setOf[q]] \in Sources
          BY <4>1, QueriesAssumption
        <4>3. named[q] # 0
          BY <4>1, <4>2 DEF Takers, Unnamed
        <4>4. QED
          BY <3>1, <4>3
      <3>3. CASE ended[q] = "closed"
        BY <3>1, <3>3 DEF LetGoUnnamed
      <3>4. CASE ended[q] = "refused"
        BY <3>1, <3>4 DEF Refused
      <3>5. CASE ended[q] \in Endings
        BY <3>1, <3>5 DEF Naming
      <3>6. QED
        BY <3>1, <3>2, <3>3, <3>4, <3>5
    <2>2. QED
      BY <2>1
  <1>3. /\ NQ \subseteq All /\ TurnedDown \subseteq All /\ NQ \intersect TurnedDown = {}
    <2>1. ASSUME NEW q \in Scopes, fate[q] # "none" PROVE q \in All
      <3>1. asked \in Nat /\ q \in 1..MaxScopes /\ ~(q > asked)
        BY <1>1, <2>1 DEF Kept, Outstanding, Scopes
      <3>2. QED
        BY <3>1
    <2>2. \A q \in NQ : fate[q] \in TakenUp
      BY DEF Kept, Taken
    <2>3. "none" \notin TakenUp /\ "refused" \notin TakenUp
      BY DEF TakenUp, Endings
    <2>4. QED
      BY <2>1, <2>2, <2>3 DEF TurnedDown
  <1>4. /\ NS \in SUBSET Scopes /\ NQ \in SUBSET Scopes /\ HN \in SUBSET Scopes
        /\ Refused \in SUBSET Scopes /\ TurnedDown \in SUBSET Scopes
        /\ LetGoUnnamed \in SUBSET Scopes
        /\ S \union HN \subseteq NQ /\ S \intersect HN = {}
    BY DEF Refused, TurnedDown, LetGoUnnamed
  <1>5. Cardinality(NS) <= Cardinality(HN)
    <2> DEFINE pick == [p \in NS |-> CHOOSE q \in Scopes : number[q] = named[p]]
    <2>1. ASSUME NEW p \in NS PROVE pick[p] \in HN /\ number[pick[p]] = named[p]
      <3>1. p \in Scopes /\ named[p] # 0 /\ \E q \in Scopes : number[q] = named[p]
        BY <2>1 DEF Naming
      <3>2. pick[p] \in Scopes /\ number[pick[p]] = named[p]
        BY <2>1, <3>1
      <3>3. QED
        BY <3>1, <3>2
    <2>2. pick \in [NS -> HN]
      BY <2>1
    <2>3. \A p, q \in NS : pick[p] = pick[q] => p = q
      <3>1. ASSUME NEW p \in NS, NEW q \in NS, pick[p] = pick[q] PROVE p = q
        <4>1. named[p] = named[q] /\ named[p] # 0 /\ p \in Scopes /\ q \in Scopes
          BY <2>1, <3>1
        <4>2. QED
          BY <4>1 DEF Naming
      <3>2. QED
        BY <3>1
    <2> HIDE DEF pick
    <2>4. pick \in Injection(NS, HN)
      BY <2>2, <2>3 DEF Injection, IsInjective
    <2>5. IsFiniteSet(HN)
      BY <1>4, SomeScopes
    <2>6. QED
      BY <2>4, <2>5, FS_Injection
  <1> HIDE DEF NS, NQ, HN, All
  <1>6. /\ Cardinality(NS) \in Nat /\ Cardinality(NQ) \in Nat /\ Cardinality(HN) \in Nat
        /\ Cardinality(Refused) \in Nat /\ Cardinality(TurnedDown) \in Nat
        /\ Cardinality(LetGoUnnamed) \in Nat /\ Cardinality(S) \in Nat
        /\ IsFiniteSet(NS) /\ IsFiniteSet(NQ) /\ IsFiniteSet(HN) /\ IsFiniteSet(Refused)
        /\ IsFiniteSet(TurnedDown) /\ IsFiniteSet(LetGoUnnamed) /\ IsFiniteSet(S)
    BY <1>4, SomeScopes
  <1>7. asked <= Cardinality(NS) + Cardinality(Refused) + Cardinality(LetGoUnnamed)
    <2>1. /\ (NS \union Refused) \union LetGoUnnamed \in SUBSET Scopes
          /\ NS \union Refused \in SUBSET Scopes
          /\ All \in SUBSET ((NS \union Refused) \union LetGoUnnamed)
      BY <1>2, <1>4
    <2>2. Cardinality(NS \union Refused) <= Cardinality(NS) + Cardinality(Refused)
      BY <1>6, UnionIs
    <2>3. Cardinality((NS \union Refused) \union LetGoUnnamed)
            <= Cardinality(NS \union Refused) + Cardinality(LetGoUnnamed)
      BY <1>6, <2>1, SomeScopes, UnionIs
    <2>4. asked <= Cardinality((NS \union Refused) \union LetGoUnnamed)
      BY <1>1, <2>1, SomeScopes, FS_Subset
    <2>5. /\ Cardinality(NS \union Refused) \in Nat
          /\ Cardinality((NS \union Refused) \union LetGoUnnamed) \in Nat
      BY <2>1, SomeScopes
    <2>6. QED
      BY <1>1, <1>6, <2>2, <2>3, <2>4, <2>5
  <1>8. Cardinality(NQ) + Cardinality(TurnedDown) <= asked
    <2>1. Cardinality(NQ \union TurnedDown) = Cardinality(NQ) + Cardinality(TurnedDown)
      BY <1>3, <1>6, UnionIs
    <2>2. IsFiniteSet(All) /\ NQ \union TurnedDown \in SUBSET All
      BY <1>1, <1>3, SomeScopes
    <2>3. QED
      BY <1>1, <2>1, <2>2, FS_Subset
  <1>9. Cardinality(S) + Cardinality(HN) <= Cardinality(NQ)
    <2>1. Cardinality(S \union HN) = Cardinality(S) + Cardinality(HN)
      BY <1>4, <1>6, UnionIs
    <2>2. S \union HN \in SUBSET NQ
      BY <1>4
    <2>3. QED
      BY <1>6, <2>1, <2>2, FS_Subset
  <1>10. /\ Cardinality(Errors(toDisplay)) \in Nat
         /\ Cardinality(Errors(toDisplay)) + Cardinality(Refused) <= Cardinality(TurnedDown)
    BY ErrorsAreFew DEF Refusals, Kept, TypeOK
  <1>11. QED
    BY <1>1, <1>5, <1>6, <1>7, <1>8, <1>9, <1>10

\* The same or fewer lost.
LEMMA LostStays ==
  ASSUME Kept, FewLost, Next, Lost' \subseteq Lost
  PROVE  FewLost'
  <1>1. Lost \in SUBSET Scopes /\ LetGoUnnamed' \in SUBSET Scopes
    BY DEF Lost, LetGoUnnamed
  <1>2. IsFiniteSet(Lost) /\ IsFiniteSet(LetGoUnnamed')
    BY <1>1, SomeScopes
  <1>3. LetGoUnnamed \in SUBSET LetGoUnnamed' /\ Lost' \in SUBSET Lost
    BY LetGoStays
  <1>4. Cardinality(Lost') <= Cardinality(Lost)
    BY <1>2, <1>3, FS_Subset
  <1>5. Cardinality(LetGoUnnamed) <= Cardinality(LetGoUnnamed')
    BY <1>2, <1>3, FS_Subset
  <1>6. /\ Cardinality(Lost) \in Nat /\ Cardinality(Lost') \in Nat
        /\ Cardinality(LetGoUnnamed) \in Nat /\ Cardinality(LetGoUnnamed') \in Nat
    <2>1. Lost' \in SUBSET Scopes /\ LetGoUnnamed \in SUBSET Scopes
      BY <1>1, <1>3
    <2>2. QED
      BY <1>1, <2>1, SomeScopes
  <1>7. Cardinality(Lost) <= Cardinality(LetGoUnnamed)
    BY DEF FewLost
  <1>8. Cardinality(Lost') <= Cardinality(LetGoUnnamed')
    BY <1>4, <1>5, <1>6, <1>7
  <1>9. QED
    BY <1>8 DEF FewLost

\* A query is lost only where a scope was let go.
LEMMA FewLostStep == ASSUME Kept, Naming, Refusals, FewLost, Next PROVE FewLost'
  <1>1. /\ toDisplay \in Seq(ToDisplay) /\ toApp \in Seq(ToApp)
        /\ named \in [Scopes -> {0} \union Numbers]
        /\ number \in [Scopes -> {0} \union Numbers]
    BY DEF Kept, TypeOK
  <1>2. ASSUME UNCHANGED <<named, number>>,
               \A n \in Numbers : Reply(n) \in In(toDisplay) => Reply(n) \in In(toDisplay')
        PROVE  FewLost'
    <2>1. Lost' \subseteq Lost
      BY <1>1, <1>2 DEF Lost
    <2>2. QED
      BY <2>1, LostStays
  <1>3. ASSUME NEW verb, Arrives(verb), verb # "reply"
        PROVE  \A n \in Numbers : Reply(n) \in In(toDisplay) => Reply(n) \in In(toDisplay')
    <2>1. In(toDisplay) = {Head(toDisplay)} \union In(toDisplay') /\ Head(toDisplay).verb = verb
      BY <1>3, Arrived
    <2>2. QED
      BY <1>3, <2>1 DEF Reply
  <1>4. CASE TakeReply
    <2> DEFINE n == Head(toDisplay).n
    <2>1. /\ UNCHANGED <<live, number, ended>> /\ Arrives("reply")
      BY <1>4 DEF TakeReply
    <2>2. \/ named' = named /\ (n = 0 \/ Takers = {})
          \/ n # 0 /\ \E s \in Takers : named' = [named EXCEPT ![FirstUnnamed(s)] = n]
      BY <1>4, ReplyDoes
    <2>3. n # 0 => n \in Numbers /\ In(toDisplay) = {Reply(n)} \union In(toDisplay')
      BY <1>4, SaidOnce
    <2>4. n = 0 => In(toDisplay) = {Reply(0)} \union In(toDisplay')
      BY <1>4, <2>1, Arrived, ReplyDoes
    <2> HIDE DEF n
    <2>5. CASE n = 0
      <3>1. \A m \in Numbers : Reply(m) \in In(toDisplay) => Reply(m) \in In(toDisplay')
        BY <2>4, <2>5, Neither
      <3>2. QED
        BY <1>2, <2>1, <2>2, <2>5, <3>1
    <2>6. CASE n # 0 /\ Takers = {} /\ named' = named
      <3>1. /\ Lost' \in SUBSET Scopes
            /\ \A q \in Lost' : number[q] # 0 /\ \A p \in Scopes : named[p] # number[q]
        BY <2>1, <2>6 DEF Lost
      <3>2. Cardinality(Lost') <= Cardinality(LetGoUnnamed)
        BY <2>6, <3>1, LossIsPaid
      <3>3. LetGoUnnamed' = LetGoUnnamed
        BY <2>1, <2>6 DEF LetGoUnnamed
      <3>4. QED
        BY <3>2, <3>3 DEF FewLost
    <2>7. ASSUME n # 0, NEW s \in Takers, named' = [named EXCEPT ![FirstUnnamed(s)] = n]
          PROVE  FewLost'
      <3>1. PICK q0 \in Scopes : q0 = FirstUnnamed(s) /\ named[q0] = 0
        BY <2>7, FirstIs DEF Unnamed, Kept, TypeOK
      <3>2. /\ named'[q0] = n /\ \A p \in Scopes : p # q0 => named'[p] = named[p]
        BY <1>1, <2>7, <3>1
      <3>3. \A m \in Numbers : m # n /\ Reply(m) \in In(toDisplay) => Reply(m) \in In(toDisplay')
        BY <2>3, <2>7, Neither
      <3>4. ASSUME NEW q \in Lost' PROVE q \in Lost
        <4>1. /\ q \in Scopes /\ number[q] # 0 /\ number[q] \in Numbers
              /\ Reply(number[q]) \notin In(toDisplay')
              /\ \A p \in Scopes : named'[p] # number[q]
          BY <1>1, <2>1 DEF Lost
        <4>2. number[q] # n
          BY <3>2, <4>1
        <4>3. \A p \in Scopes : named[p] # number[q]
          BY <3>1, <3>2, <4>1
        <4>4. QED
          BY <3>3, <4>1, <4>2, <4>3 DEF Lost
      <3>5. QED
        BY <3>4, LostStays
    <2>8. QED
      BY <2>2, <2>5, <2>6, <2>7
  <1>5. CASE TakeNew
    <2>1. PICK q \in Scopes : q = Head(toApp).of /\ New(q) \in In(toApp)
      BY <1>5, Taking DEF TakeNew
    <2>2. minted + 1 \in Numbers /\ number[q] = 0
      BY <2>1, NextNumber
    <2>3. UNCHANGED named
      BY <1>5 DEF TakeNew
    <2>4. CASE TurnDown(q)
      <3>1. UNCHANGED number /\ In(toDisplay') = In(toDisplay) \union {Error}
        BY <1>1, <2>2, <2>4, AnswersAre, AppendIs DEF TurnDown
      <3>2. QED
        BY <1>2, <2>3, <3>1
    <2>5. CASE TakeUp(q)
      <3> DEFINE k == minted + 1
      <3>1. /\ number' = [number EXCEPT ![q] = k]
            /\ toDisplay' = Append(toDisplay, Reply(k))
        BY <2>5 DEF TakeUp
      <3>2. In(toDisplay') = In(toDisplay) \union {Reply(k)}
        <4>1. Reply(k) \in ToDisplay
          BY <2>2, AnswersAre
        <4>2. QED
          BY <1>1, <3>1, <4>1, AppendIs
      <3> HIDE DEF k
      <3>3. number'[q] = k /\ \A r \in Scopes : r # q => number'[r] = number[r]
        BY <1>1, <3>1
      <3>4. Lost' \subseteq Lost
        BY <2>3, <3>2, <3>3 DEF Lost
      <3>5. QED
        BY <3>4, LostStays
    <2>6. QED
      BY <1>5, <2>1, <2>4, <2>5 DEF TakeNew
  <1>6. CASE TakeDestroy
    <2>1. UNCHANGED <<named, number>> /\ \E x \in {Reply(0), Error} : toDisplay' = Append(toDisplay, x)
      BY <1>6 DEF TakeDestroy
    <2>2. In(toDisplay) \subseteq In(toDisplay')
      <3>1. Reply(0) \in ToDisplay /\ Error \in ToDisplay
        BY AnswersAre
      <3>2. QED
        BY <1>1, <2>1, <3>1, AppendIs
    <2>3. QED
      BY <1>2, <2>1, <2>2
  <1>7. ASSUME UNCHANGED <<named, number>>,
               toDisplay' = toDisplay \/ \E x \in ToDisplay : toDisplay' = Append(toDisplay, x)
        PROVE  FewLost'
    <2>1. In(toDisplay) \subseteq In(toDisplay')
      <3>1. ASSUME NEW x \in ToDisplay, toDisplay' = Append(toDisplay, x)
            PROVE  In(toDisplay) \subseteq In(toDisplay')
        BY <1>1, <3>1, AppendIs
      <3>2. toDisplay' = toDisplay => In(toDisplay') = In(toDisplay)
        OBVIOUS
      <3>3. QED
        BY <1>7, <3>1, <3>2
    <2>2. QED
      BY <1>2, <1>7, <2>1
  <1>8. ASSUME NEW t \in Sets, Read(t) \/ CloseSet(t) PROVE FewLost'
    BY <1>7, <1>8 DEF Read, CloseSet
  <1>9. CASE TakeError
    BY <1>2, <1>3, <1>9 DEF TakeError
  <1>10. CASE TakeResult
    BY <1>2, <1>3, <1>10 DEF TakeResult
  <1>11. ASSUME NEW s \in Sources, Provide(s) PROVE FewLost'
    BY <1>7, <1>11 DEF Provide
  <1>12. ASSUME NEW q \in Scopes, Record(q) PROVE FewLost'
    BY <1>7, <1>12, SentIs DEF Record, SendHeld
  <1>13. ASSUME NEW q \in Scopes, Flush(q) PROVE FewLost'
    BY <1>7, <1>13, SentIs DEF Flush, SendHeld
  <1>14. ASSUME NEW q \in Scopes, NEW how \in Endings, Finish(q, how) PROVE FewLost'
    BY <1>7, <1>14, SentIs DEF Finish, LastOf
  <1>15. QED
    BY <1>4, <1>5, <1>6, <1>8, <1>9, <1>10, <1>11, <1>12, <1>13, <1>14 DEF Next

\* The initial states satisfy all of it, and steps that change nothing keep it.
LEMMA CountedInit == Init => Counted
  <1> SUFFICES ASSUME Init PROVE Counted
    OBVIOUS
  <1>1. Kept /\ Naming
    BY KeptInit DEF Init, Naming, In, Endings
  <1>2. Errors(toDisplay) = {} /\ Refused = {} /\ TurnedDown = {} /\ Lost = {} /\ LetGoUnnamed = {}
    BY DEF Init, Errors, Refused, TurnedDown, Lost, LetGoUnnamed
  <1>3. Refusals /\ FewLost
    BY <1>2, FS_EmptySet DEF Refusals, FewLost
  <1>4. QED
    BY <1>1, <1>3 DEF Counted

LEMMA CountedStays == Counted /\ UNCHANGED vars => Counted'
  <1> SUFFICES ASSUME Counted, UNCHANGED vars PROVE Counted'
    OBVIOUS
  <1>1. Kept' /\ In(toDisplay') = In(toDisplay) /\ In(toApp') = In(toApp)
    BY KeptStays DEF Counted
  <1>2. Naming'
    BY <1>1 DEF Counted, Naming
  <1>3. /\ Errors(toDisplay)' = Errors(toDisplay) /\ Refused' = Refused /\ TurnedDown' = TurnedDown
        /\ Lost' = Lost /\ LetGoUnnamed' = LetGoUnnamed
    BY DEF Errors, Refused, TurnedDown, Lost, LetGoUnnamed, In
  <1>4. QED
    BY <1>1, <1>2, <1>3 DEF Counted, Refusals, FewLost

\* Of the queries of questions it took up, an application is left with no more
\* than there were scopes let go before a reply had named them -- whoever reads
\* from however many sources, and whichever scope each reply is taken by.
THEOREM QueriesAreWanted == Spec => []EveryQueryIsWanted
  <1>1. Counted /\ [Next]_vars => Counted'
    <2>1. ASSUME Counted, Next PROVE Counted'
      <3>1. Kept'
        BY <2>1, TypeStep, OutstandingStep, TakenStep, ComingStep, OnceStep DEF Counted, Kept
      <3>2. Naming' /\ Refusals' /\ FewLost'
        BY <2>1, NamingStep, RefusalsStep, FewLostStep DEF Counted
      <3>3. QED
        BY <3>1, <3>2 DEF Counted
    <2>2. QED
      BY <2>1, CountedStays
  <1>2. Counted => EveryQueryIsWanted
    <2> SUFFICES ASSUME Counted PROVE EveryQueryIsWanted
      OBVIOUS
    <2> DEFINE pick == [n \in Left |-> CHOOSE q \in Scopes : number[q] = n]
    <2>1. /\ DOMAIN toDisplay = 1..Len(toDisplay) /\ DOMAIN toApp = 1..Len(toApp)
      BY LenProperties DEF Counted, Kept, TypeOK
    <2>2. /\ \A x : Contains(toDisplay, x) <=> x \in In(toDisplay)
          /\ \A x : Contains(toApp, x) <=> x \in In(toApp)
      BY <2>1 DEF Contains, In
    <2>3. ASSUME NEW n \in Left PROVE pick[n] \in Lost /\ number[pick[n]] = n
      <3>1. /\ n \in queries /\ \E q \in Scopes : number[q] = n
            /\ Addressed(n) = {} /\ Reply(n) \notin In(toDisplay) /\ Destroy(n) \notin In(toApp)
        BY <2>2, <2>3 DEF Left
      <3>2. pick[n] \in Scopes /\ number[pick[n]] = n
        BY <2>3, <3>1
      <3>3. n # 0
        BY <3>1, Neither DEF Counted, Kept, TypeOK
      <3>4. ASSUME NEW p \in Scopes, named[p] = n PROVE FALSE
        <4>1. p \notin live
          BY <3>1, <3>4 DEF Addressed
        <4>2. QED
          BY <3>1, <3>3, <3>4, <4>1 DEF Counted, Naming
      <3>5. QED
        BY <3>1, <3>2, <3>3, <3>4 DEF Lost
    <2>4. pick \in [Left -> Lost]
      BY <2>3
    <2>5. \A m, n \in Left : pick[m] = pick[n] => m = n
      BY <2>3
    <2> HIDE DEF pick
    <2>6. pick \in Injection(Left, Lost)
      BY <2>4, <2>5 DEF Injection, IsInjective
    <2>7. Lost \in SUBSET Scopes /\ LetGoUnnamed \in SUBSET Scopes
      BY DEF Lost, LetGoUnnamed
    <2>8. /\ Cardinality(Left) <= Cardinality(Lost) /\ IsFiniteSet(Left)
          /\ Cardinality(Lost) \in Nat /\ Cardinality(LetGoUnnamed) \in Nat
      BY <2>6, <2>7, SomeScopes, FS_Injection
    <2>9. Cardinality(Left) \in Nat /\ Cardinality(Lost) <= Cardinality(LetGoUnnamed)
      BY <2>8, FS_CardinalityType DEF Counted, FewLost
    <2>10. Cardinality(Left) <= Cardinality(LetGoUnnamed)
      BY <2>8, <2>9
    <2>11. QED
      BY <2>10 DEF EveryQueryIsWanted
  <1>3. QED
    BY <1>1, <1>2, CountedInit, PTL DEF Spec

-----------------------------------------------------------------------------
\* Answers name no question.  They are taken by the scopes they are for as long as
\* InOneLine holds; the rest of this module is of behaviours in which it does.

\* The scopes that wait to be named, and the questions still on their way.
Awaiting == {q \in live : named[q] = 0}
News == {q \in Scopes : New(q) \in In(toApp)}
\* A message that answers a question, and not a destroy.
IsAnswer(x) == x.verb = "error" \/ (x.verb = "reply" /\ x.n # 0)

\* f[i] is the question the message in place i answers, 0 if it answers none.
\* The answers are for scopes that wait, oldest first, and every scope that waits
\* has its answer or its question under way, the questions behind the answers;
\* no result overtakes the reply that says its number.
Answering(f) ==
  /\ f \in Seq({0} \union Scopes) /\ Len(f) = Len(toDisplay)
  /\ \A i \in DOMAIN toDisplay :
       /\ f[i] # 0 <=> IsAnswer(toDisplay[i])
       /\ f[i] # 0 => /\ f[i] \in Awaiting
                      /\ toDisplay[i].verb = "error" => fate[f[i]] = "refused"
                      /\ toDisplay[i].verb = "reply" => toDisplay[i].n = number[f[i]]
       /\ \A q \in News : f[i] < q
       /\ toDisplay[i].verb = "result" /\ toDisplay[i].of \in Awaiting =>
            \E j \in DOMAIN toDisplay : j < i /\ f[j] = toDisplay[i].of
  /\ \A i, j \in DOMAIN toDisplay : f[i] # 0 /\ f[j] # 0 /\ i < j => f[i] < f[j]
  /\ News \subseteq Awaiting
  /\ \A q \in Awaiting : q \in News \/ \E i \in DOMAIN toDisplay : f[i] = q

\* There is such an f: answers come in turn.
InTurn == \E f : Answering(f)

\* A scope is named by the number its own question was given.
NamedTrue == \A q \in Scopes : named[q] # 0 => named[q] = number[q]

\* Answers stay in turn when nothing about them moves.
LEMMA TurnStays ==
  ASSUME NEW f, Answering(f), UNCHANGED <<toDisplay, number>>,
         Awaiting' = Awaiting, News' = News,
         \A q \in Scopes : fate[q] = "refused" => fate'[q] = "refused"
  PROVE  Answering(f)'
  <1>1. \A i \in DOMAIN toDisplay : f[i] # 0 => f[i] \in Scopes
    BY ElementOfSeq, LenProperties DEF Answering
  <1>2. QED
    BY <1>1 DEF Answering

\* Answers stay in turn when the first message is taken, by the scope it is for
\* if it is an answer.
LEMMA TurnTail ==
  ASSUME Kept, NEW f, Answering(f), NEW verb, Arrives(verb), UNCHANGED <<fate, number>>,
         News' = News, Awaiting' = Awaiting \ {f[1]}
  PROVE  Answering(Tail(f))'
  <1> DEFINE g == Tail(f)
  <1>1. /\ toDisplay # <<>> /\ toDisplay' = Tail(toDisplay) /\ toDisplay \in Seq(ToDisplay)
    BY DEF Kept, TypeOK, Arrives
  <1>2. /\ Len(toDisplay) \in Nat \ {0} /\ DOMAIN toDisplay = 1..Len(toDisplay)
        /\ DOMAIN toDisplay' = 1..(Len(toDisplay) - 1) /\ Len(toDisplay') = Len(toDisplay) - 1
        /\ \A i \in 1..(Len(toDisplay) - 1) : toDisplay'[i] = toDisplay[i + 1]
    BY <1>1, TailIs
  <1>3. f # <<>> /\ f \in Seq({0} \union Scopes) /\ Len(f) = Len(toDisplay)
    BY <1>2, EmptySeq DEF Answering
  <1>4. /\ g \in Seq({0} \union Scopes) /\ Len(g) = Len(toDisplay')
        /\ \A i \in 1..(Len(toDisplay) - 1) : g[i] = f[i + 1]
    BY <1>2, <1>3, TailIs
  <1> HIDE DEF g
  <1>5. \A i \in DOMAIN toDisplay' : /\ i \in Nat /\ i + 1 \in DOMAIN toDisplay /\ 1 < i + 1
                                     /\ toDisplay'[i] = toDisplay[i + 1] /\ g[i] = f[i + 1]
    BY <1>2, <1>4
  <1>6. 1 \in DOMAIN toDisplay /\ \A i \in DOMAIN toDisplay : i # 1 => i - 1 \in DOMAIN toDisplay'
    BY <1>2
  <1>7. \A i \in DOMAIN toDisplay : f[i] \in {0} \union Scopes
    BY <1>2, <1>3, ElementOfSeq
  <1>8. \A i \in DOMAIN toDisplay' : g[i] # 0 => g[i] # f[1]
    <2> SUFFICES ASSUME NEW i \in DOMAIN toDisplay', g[i] # 0, g[i] = f[1] PROVE FALSE
      OBVIOUS
    <2>1. f[i + 1] # 0 /\ f[1] # 0 /\ f[1] = f[i + 1]
      BY <1>5
    <2>2. f[1] < f[i + 1]
      BY <1>5, <1>6, <2>1 DEF Answering
    <2>3. f[1] \in Scopes /\ \A q \in Scopes : q \in Nat
      BY <1>6, <1>7, <2>1 DEF Scopes
    <2>4. QED
      BY <2>1, <2>2, <2>3
  <1>9. ASSUME NEW i \in DOMAIN toDisplay'
        PROVE  /\ g[i] # 0 <=> IsAnswer(toDisplay'[i])
               /\ g[i] # 0 => /\ g[i] \in Awaiting'
                              /\ toDisplay'[i].verb = "error" => fate'[g[i]] = "refused"
                              /\ toDisplay'[i].verb = "reply" => toDisplay'[i].n = number'[g[i]]
               /\ \A q \in News' : g[i] < q
    BY <1>5, <1>8 DEF Answering
  <1>10. ASSUME NEW i \in DOMAIN toDisplay', toDisplay'[i].verb = "result",
                toDisplay'[i].of \in Awaiting'
         PROVE  \E j \in DOMAIN toDisplay' : j < i /\ g[j] = toDisplay'[i].of
    <2>1. PICK j \in DOMAIN toDisplay : j < i + 1 /\ f[j] = toDisplay[i + 1].of
      BY <1>5, <1>10 DEF Answering
    <2>2. j # 1
      BY <1>5, <1>10, <2>1
    <2>3. j - 1 \in DOMAIN toDisplay' /\ j - 1 < i /\ g[j - 1] = f[j]
      BY <1>2, <1>4, <2>1, <2>2
    <2>4. QED
      BY <1>5, <2>1, <2>3
  <1>11. ASSUME NEW i \in DOMAIN toDisplay', NEW j \in DOMAIN toDisplay',
                g[i] # 0, g[j] # 0, i < j
         PROVE  g[i] < g[j]
    <2>1. i + 1 < j + 1
      BY <1>5, <1>11
    <2>2. QED
      BY <1>5, <1>11, <2>1 DEF Answering
  <1>12. ASSUME NEW q \in News' PROVE q \in Awaiting'
    <2>1. q \in Awaiting /\ f[1] < q
      BY <1>6 DEF Answering
    <2>2. q \in Nat
      BY DEF News, Scopes
    <2>3. QED
      BY <1>6, <1>7, <2>1, <2>2 DEF Scopes
  <1>13. ASSUME NEW q \in Awaiting'
         PROVE  q \in News' \/ \E i \in DOMAIN toDisplay' : g[i] = q
    <2>1. CASE q \in News
      BY <2>1
    <2>2. CASE \E i \in DOMAIN toDisplay : f[i] = q
      <3>1. PICK i \in DOMAIN toDisplay : f[i] = q
        BY <2>2
      <3>2. i # 1
        BY <1>13, <3>1
      <3>3. i - 1 \in DOMAIN toDisplay' /\ g[i - 1] = f[i]
        BY <1>2, <1>4, <3>2
      <3>4. QED
        BY <3>1, <3>3
    <2>3. QED
      BY <1>13, <2>1, <2>2 DEF Answering
  <1>14. QED
    BY <1>4, <1>9, <1>10, <1>11, <1>12, <1>13 DEF g, Answering

\* Answers stay in turn when a message is sent: the answer to the question q, the
\* oldest still on its way, or no answer at all.
LEMMA TurnPut ==
  ASSUME Kept, NEW f, Answering(f), NEW x \in ToDisplay, NEW q \in {0} \union Scopes,
         toDisplay' = Append(toDisplay, x),
         q # 0 <=> IsAnswer(x),
         q # 0 => /\ q \in Awaiting'
                  /\ x.verb = "error" => fate'[q] = "refused"
                  /\ x.verb = "reply" => x.n = number'[q],
         q # 0 => \A i \in DOMAIN toDisplay : f[i] < q,
         \A r \in News' : q < r,
         x.verb = "result" /\ x.of \in Awaiting => \E i \in DOMAIN toDisplay : f[i] = x.of,
         Awaiting' = Awaiting, News' \subseteq News, News \subseteq News' \union {q},
         \A r \in Scopes : r # q => /\ fate[r] = "refused" => fate'[r] = "refused"
                                    /\ number'[r] = number[r]
  PROVE  Answering(Append(f, q))'
  <1> DEFINE g == Append(f, q)
             n == Len(toDisplay)
  <1>1. toDisplay \in Seq(ToDisplay) /\ f \in Seq({0} \union Scopes) /\ Len(f) = n
    BY DEF Kept, TypeOK, Answering
  <1>2. /\ n \in Nat /\ DOMAIN toDisplay = 1..n
        /\ DOMAIN toDisplay' = 1..(n + 1) /\ Len(toDisplay') = n + 1
        /\ \A i \in 1..n : toDisplay'[i] = toDisplay[i]
        /\ toDisplay'[n + 1] = x
    BY <1>1, AppendIs
  <1>3. /\ g \in Seq({0} \union Scopes) /\ Len(g) = n + 1
        /\ \A i \in 1..n : g[i] = f[i]
        /\ g[n + 1] = q
    BY <1>1, AppendIs
  <1>4. \A i \in 1..n : f[i] \in {0} \union Scopes
    BY <1>1, <1>2, ElementOfSeq
  <1>5. 1..(n + 1) = 1..n \union {n + 1} /\ n + 1 \notin 1..n
        /\ \A i \in 1..n : i < n + 1 /\ ~(n + 1 < i)
    BY <1>2
  <1>6. ~(n + 1 < n + 1) /\ \A r \in Scopes : r \in Nat
    BY <1>2 DEF Scopes
  <1> HIDE DEF g, n
  <1>7. \A i \in 1..n : f[i] # 0 => (q # 0 => f[i] # q)
    BY <1>2, <1>4, <1>6
  <1>8. ASSUME NEW i \in 1..n
        PROVE  /\ g[i] # 0 <=> IsAnswer(toDisplay'[i])
               /\ g[i] # 0 => /\ g[i] \in Awaiting'
                              /\ toDisplay'[i].verb = "error" => fate'[g[i]] = "refused"
                              /\ toDisplay'[i].verb = "reply" => toDisplay'[i].n = number'[g[i]]
               /\ \A r \in News' : g[i] < r
               /\ toDisplay'[i].verb = "result" /\ toDisplay'[i].of \in Awaiting' =>
                    \E j \in 1..n : j < i /\ g[j] = toDisplay'[i].of
    <2>1. g[i] = f[i] /\ toDisplay'[i] = toDisplay[i] /\ (f[i] # 0 => f[i] # q /\ f[i] \in Scopes)
      BY <1>2, <1>3, <1>4, <1>7
    <2>2. /\ f[i] # 0 <=> IsAnswer(toDisplay[i])
          /\ f[i] # 0 => /\ f[i] \in Awaiting
                         /\ toDisplay[i].verb = "error" => fate[f[i]] = "refused"
                         /\ toDisplay[i].verb = "reply" => toDisplay[i].n = number[f[i]]
          /\ \A r \in News : f[i] < r
          /\ toDisplay[i].verb = "result" /\ toDisplay[i].of \in Awaiting =>
               \E j \in 1..n : j < i /\ f[j] = toDisplay[i].of
      BY <1>2 DEF Answering
    <2>3. QED
      BY <1>3, <2>1, <2>2
  <1>9. /\ g[n + 1] # 0 <=> IsAnswer(toDisplay'[n + 1])
        /\ g[n + 1] # 0 =>
             /\ g[n + 1] \in Awaiting'
             /\ toDisplay'[n + 1].verb = "error" => fate'[g[n + 1]] = "refused"
             /\ toDisplay'[n + 1].verb = "reply" => toDisplay'[n + 1].n = number'[g[n + 1]]
        /\ \A r \in News' : g[n + 1] < r
        /\ toDisplay'[n + 1].verb = "result" /\ toDisplay'[n + 1].of \in Awaiting' =>
             \E j \in 1..n : j < n + 1 /\ g[j] = toDisplay'[n + 1].of
    BY <1>2, <1>3, <1>5
  <1>10. ASSUME NEW i \in 1..(n + 1), NEW j \in 1..(n + 1), g[i] # 0, g[j] # 0, i < j
         PROVE  g[i] < g[j]
    <2>1. i \in 1..n
      BY <1>5, <1>6, <1>10
    <2>2. CASE j \in 1..n
      <3>1. g[i] = f[i] /\ g[j] = f[j]
        BY <1>3, <2>1, <2>2
      <3>2. QED
        BY <1>2, <1>10, <2>1, <2>2, <3>1 DEF Answering
    <2>3. CASE j = n + 1
      BY <1>2, <1>3, <1>10, <2>1, <2>3
    <2>4. QED
      BY <1>5, <2>2, <2>3
  <1>11. News' \subseteq Awaiting'
    BY DEF Answering
  <1>12. ASSUME NEW r \in Awaiting' PROVE r \in News' \/ \E i \in 1..(n + 1) : g[i] = r
    <2>1. r \in News \/ \E i \in 1..n : f[i] = r
      BY <1>2, <1>12 DEF Answering
    <2>2. n + 1 \in 1..(n + 1) /\ 1..n \subseteq 1..(n + 1)
      BY <1>5
    <2>3. CASE r \in News
      BY <1>3, <2>2, <2>3
    <2>4. CASE \E i \in 1..n : f[i] = r
      BY <1>3, <2>2, <2>4
    <2>5. QED
      BY <2>1, <2>3, <2>4
  <1>13. QED
    <2>1. \A i \in 1..n : i \in 1..(n + 1)
      BY <1>5
    <2>2. \A i \in DOMAIN toDisplay' : i \in 1..n \/ i = n + 1
      BY <1>2, <1>5
    <2>3. QED
      BY <1>2, <1>3, <1>8, <1>9, <1>10, <1>11, <1>12, <2>1, <2>2 DEF g, Answering

\* A result carries the number of its question; it has a record, or the end, or
\* both; and the end it carries is how its answer ended.
Stamped ==
  \A x \in In(toDisplay) : x.verb = "result" =>
    /\ x.n = number[x.of]
    /\ x.place # 0 \/ x.end # ""
    /\ x.end # "" => x.end = fate[x.of]

\* A message under way has its type.
LEMMA UnderWay == ASSUME Kept, NEW x \in In(toDisplay) PROVE x \in ToDisplay
  BY ElementOfSeq, LenProperties DEF Kept, TypeOK, In

\* A result is of a question that was taken up.
LEMMA OfOneTaken ==
  ASSUME Kept, Stamped, NEW x \in In(toDisplay), x.verb = "result"
  PROVE  /\ x.of \in Scopes /\ x.n \in Numbers /\ x.place \in 0..MaxRecords
         /\ x.n = number[x.of] /\ number[x.of] # 0 /\ fate[x.of] \in TakenUp /\ x.of <= asked
         /\ New(x.of) \notin In(toApp)
  <1>1. x \in ToDisplay
    BY UnderWay
  <1>2. x.of \in Scopes /\ x.n \in Numbers /\ x.place \in 0..MaxRecords
    BY <1>1 DEF ToDisplay
  <1>3. x.n = number[x.of] /\ number[x.of] # 0
    BY <1>2, Neither DEF Stamped
  <1>4. fate[x.of] \in TakenUp
    BY <1>2, <1>3 DEF Kept, Taken
  <1>5. fate[x.of] # "none"
    BY <1>4 DEF TakenUp, Endings
  <1>6. x.of <= asked
    BY <1>2, <1>5 DEF Kept, TypeOK, Outstanding, Scopes
  <1>7. QED
    BY <1>2, <1>3, <1>4, <1>5, <1>6 DEF Kept, Coming

\* What takes an answer is the scope it answers.
LEMMA FirstAnswered ==
  ASSUME Kept, InOneLine, NEW f, Answering(f), toDisplay # <<>>, f[1] # 0
  PROVE  /\ f[1] \in Awaiting /\ f[1] \in Scopes /\ Takers # {}
         /\ \A s \in Takers : FirstUnnamed(s) = f[1]
  <1>1. ASSUME NEW q \in Awaiting PROVE q \in Unnamed(SourceOf[setOf[q]]) /\ SourceOf[setOf[q]] \in Sources
    <2>1. q \in live /\ named[q] = 0 /\ setOf[q] \in Sets
      BY DEF Awaiting, Kept, TypeOK, Outstanding
    <2>2. QED
      BY <2>1, QueriesAssumption DEF Unnamed
  <1>2. ASSUME NEW s \in Takers PROVE Unnamed(s) = Awaiting
    <2>1. PICK p \in Unnamed(s) : TRUE
      BY DEF Takers
    <2>2. \A q \in Awaiting : SourceOf[setOf[q]] = s
      BY <2>1 DEF Unnamed, Awaiting, InOneLine
    <2>3. QED
      BY <2>2 DEF Unnamed, Awaiting
  <1>3. 1 \in DOMAIN toDisplay /\ \A i \in DOMAIN toDisplay : i = 1 \/ 1 < i
    BY TailIs DEF Kept, TypeOK
  <1>4. f[1] \in Awaiting /\ f[1] \in Scopes
    BY <1>3 DEF Answering, Awaiting, Kept, TypeOK
  <1>5. \A q \in Scopes : q \in Nat
    BY DEF Scopes
  <1>6. ASSUME NEW q \in Awaiting PROVE f[1] <= q
    <2>1. q \in Scopes /\ q \in Nat /\ f[1] \in Nat
      BY <1>4, <1>5 DEF Awaiting, Kept, TypeOK
    <2>2. CASE q \in News
      <3>1. f[1] < q
        BY <1>3, <2>2 DEF Answering
      <3>2. QED
        BY <2>1, <3>1
    <2>3. CASE \E i \in DOMAIN toDisplay : f[i] = q
      <3>1. PICK i \in DOMAIN toDisplay : f[i] = q
        BY <2>3
      <3>2. f[i] # 0
        BY <2>1, <3>1 DEF Scopes
      <3>3. i = 1 \/ f[1] < f[i]
        BY <1>3, <3>2 DEF Answering
      <3>4. QED
        BY <2>1, <3>1, <3>3
    <2>4. QED
      BY <2>2, <2>3 DEF Answering
  <1>7. Takers # {}
    BY <1>1, <1>4 DEF Takers
  <1>8. ASSUME NEW s \in Takers PROVE FirstUnnamed(s) = f[1]
    <2>1. FirstUnnamed(s) \in Awaiting /\ FirstUnnamed(s) <= f[1]
      BY <1>2, <1>4, FirstIs
    <2>2. f[1] <= FirstUnnamed(s)
      BY <1>6, <2>1
    <2>3. FirstUnnamed(s) \in Nat /\ f[1] \in Nat
      BY <1>4, <1>5, <2>1 DEF Awaiting, Kept, TypeOK
    <2>4. QED
      BY <2>1, <2>2, <2>3
  <1>9. QED
    BY <1>4, <1>7, <1>8

\* finishWith puts no question, and ends only what it is told to.
LEMMA FinishKeepsNews ==
  ASSUME Kept, NEW Q \in SUBSET live, NEW how, FinishWith(Q, how), UNCHANGED named
  PROVE  News' = News /\ Awaiting' = Awaiting \ Q
  <1>1. /\ live' = live \ Q
        /\ In(toApp') = In(toApp) \union {Destroy(named[q]) : q \in {r \in Q : named[r] # 0}}
    BY FinishWithDoes
  <1>2. \A q, n : New(q) # Destroy(n)
    <2>1. \A q, n : New(q).verb = "new" /\ Destroy(n).verb = "destroy"
      BY DEF New, Destroy
    <2>2. QED
      BY <2>1
  <1>3. \A q : New(q) \in In(toApp') <=> New(q) \in In(toApp)
    BY <1>1, <1>2
  <1>4. QED
    BY <1>1, <1>3 DEF News, Awaiting

\* Answers stay in turn when a question is put.
LEMMA TurnRead ==
  ASSUME Kept, Stamped, NEW f, Answering(f), NEW t \in Sets, Read(t)
  PROVE  Answering(f)'
  <1>1. /\ asked + 1 \in Scopes /\ asked \in Nat
        /\ toApp' = Append(toApp, New(asked + 1)) /\ toApp \in Seq(ToApp)
        /\ live' = live \union {asked + 1}
        /\ UNCHANGED <<named, toDisplay, fate, number>>
    BY QueriesAssumption DEF Read, Kept, TypeOK, Scopes
  <1>2. PICK k \in Scopes : k = asked + 1
    BY <1>1
  <1>3. named[k] = 0 /\ New(k) \in ToApp
    BY <1>1, <1>2, NewIs DEF Kept, TypeOK, Outstanding
  <1>4. Awaiting' = Awaiting \union {k}
    BY <1>1, <1>2, <1>3 DEF Awaiting
  <1>5. News' = News \union {k}
    <2>1. In(toApp') = In(toApp) \union {New(k)}
      BY <1>1, <1>2, <1>3, AppendIs
    <2>2. \A q : New(q) = New(k) => q = k
      BY DEF New
    <2>3. QED
      BY <2>1, <2>2 DEF News
  <1>6. \A q \in Awaiting : q \in Scopes /\ q \in Nat /\ q < k
    <2>1. \A q \in Awaiting : q \in Scopes /\ q \in 1..asked
      BY DEF Awaiting, Kept, TypeOK, Outstanding
    <2>2. QED
      BY <1>1, <1>2, <2>1
  <1>7. ASSUME NEW i \in DOMAIN toDisplay PROVE f[i] < k
    <2>1. f[i] = 0 \/ f[i] \in Awaiting
      BY DEF Answering
    <2>2. 0 < k
      BY DEF Scopes
    <2>3. QED
      BY <1>6, <2>1, <2>2
  <1>8. ASSUME NEW i \in DOMAIN toDisplay, toDisplay[i].verb = "result"
        PROVE  toDisplay[i].of # k
    <2>1. toDisplay[i].of <= asked /\ toDisplay[i].of \in Scopes
      BY <1>8, OfOneTaken DEF In
    <2>2. QED
      BY <1>1, <1>2, <2>1 DEF Scopes
  <1>9. QED
    BY <1>1, <1>4, <1>5, <1>7, <1>8 DEF Answering

\* The answers on their way to the display, and the questions on their way to
\* the application, go on being those of the scopes with no number, in turn.
LEMMA InTurnStep ==
  ASSUME Kept, InOneLine, InOneLine', Stamped, InTurn, Next
  PROVE  InTurn'
  <1>1. PICK f : Answering(f)
    BY DEF InTurn
  <1>2. /\ toApp \in Seq(ToApp) /\ toDisplay \in Seq(ToDisplay) /\ live \subseteq Scopes
        /\ named \in [Scopes -> {0} \union Numbers]
        /\ number \in [Scopes -> {0} \union Numbers]
        /\ fate \in [Scopes -> {"none", "open", "refused"} \union Endings]
    BY DEF Kept, TypeOK
  <1>3. ASSUME NEW t \in Sets, Read(t) PROVE InTurn'
    BY <1>1, <1>3, TurnRead DEF InTurn
  <1>4. ASSUME NEW t \in Sets, CloseSet(t) PROVE InTurn'
    <2>1. /\ FinishWith(Of(t), "closed") /\ Of(t) \in SUBSET live
          /\ \A q \in Of(t) : named[q] # 0
          /\ UNCHANGED <<named, toDisplay, fate, number>>
      <3>1. /\ FinishWith(Of(t), "closed") /\ Of(t) \in SUBSET live
            /\ UNCHANGED <<named, toDisplay, fate, number>>
        BY <1>4 DEF CloseSet, Of
      <3>2. ended' = [q \in Scopes |-> IF q \in Of(t) THEN "closed" ELSE ended[q]]
        BY <3>1, FinishWithDoes
      <3>3. \A q \in Of(t) : named[q] # 0
        BY <1>2, <3>1, <3>2 DEF InOneLine
      <3>4. QED
        BY <3>1, <3>3
    <2>2. News' = News /\ Awaiting' = Awaiting \ Of(t)
      BY <2>1, FinishKeepsNews
    <2>3. Awaiting' = Awaiting
      BY <2>1, <2>2 DEF Awaiting
    <2>4. QED
      BY <1>1, <2>1, <2>2, <2>3, TurnStays DEF InTurn
  <1>5. ASSUME NEW verb, Arrives(verb)
        PROVE  /\ toDisplay # <<>> /\ 1 \in DOMAIN toDisplay
               /\ Head(toDisplay) = toDisplay[1] /\ Head(toDisplay).verb = verb
               /\ f[1] # 0 <=> IsAnswer(Head(toDisplay))
               /\ Head(toDisplay) \in In(toDisplay)
    BY <1>1, <1>2, <1>5, TailIs DEF Arrives, Answering
  <1>6. CASE TakeReply
    <2> DEFINE n == Head(toDisplay).n
    <2>1. /\ Arrives("reply") /\ UNCHANGED <<live, toApp, fate, number>>
          /\ f[1] # 0 <=> n # 0
      BY <1>5, <1>6 DEF TakeReply, IsAnswer
    <2>2. News' = News
      BY <2>1 DEF News
    <2>3. \/ named' = named /\ (n = 0 \/ Takers = {})
          \/ n # 0 /\ \E s \in Takers : named' = [named EXCEPT ![FirstUnnamed(s)] = n]
      BY <1>6, ReplyDoes
    <2> HIDE DEF n
    <2>4. CASE f[1] = 0
      <3>1. Awaiting' = Awaiting
        BY <2>1, <2>3, <2>4 DEF Awaiting
      <3>2. 0 \notin Awaiting
        BY <1>2 DEF Awaiting, Scopes
      <3>3. QED
        BY <1>1, <2>1, <2>2, <2>4, <3>1, <3>2, TurnTail DEF InTurn
    <2>5. CASE f[1] # 0
      <3>1. f[1] \in Awaiting /\ named' = [named EXCEPT ![f[1]] = n] /\ n # 0
        BY <1>1, <1>5, <2>1, <2>3, <2>5, FirstAnswered
      <3>2. Awaiting' = Awaiting \ {f[1]}
        BY <1>2, <2>1, <3>1 DEF Awaiting
      <3>3. QED
        BY <1>1, <2>1, <2>2, <3>2, TurnTail DEF InTurn
    <2>6. QED
      BY <2>4, <2>5
  <1>7. CASE TakeError
    <2>1. /\ Arrives("error") /\ UNCHANGED <<named, fate, number>> /\ f[1] # 0
      BY <1>5, <1>7 DEF TakeError, IsAnswer
    <2>2. f[1] \in Awaiting /\ FinishWith({f[1]}, "refused")
      BY <1>1, <1>5, <1>7, <2>1, ErrorDoes, FirstAnswered
    <2>3. News' = News /\ Awaiting' = Awaiting \ {f[1]}
      BY <2>1, <2>2, FinishKeepsNews DEF Awaiting
    <2>4. QED
      BY <1>1, <2>1, <2>3, TurnTail DEF InTurn
  <1>8. CASE TakeResult
    <2>1. Arrives("result") /\ UNCHANGED <<named, fate, number>>
      BY <1>8 DEF TakeResult
    <2>2. /\ Arrives("result") /\ UNCHANGED <<named, fate, number>> /\ f[1] = 0
      <3>1. Head(toDisplay).verb = "result" /\ (f[1] # 0 <=> IsAnswer(Head(toDisplay)))
        BY <1>5, <2>1
      <3>2. QED
        BY <2>1, <3>1 DEF IsAnswer
    <2>3. \/ UNCHANGED <<live, ended, toApp>>
          \/ \E q \in live : \E how : named[q] # 0 /\ FinishWith({q}, how)
      BY <1>8, ResultDoes, Neither DEF Addressed
    <2>4. News' = News /\ Awaiting' = Awaiting
      <3>1. CASE UNCHANGED <<live, ended, toApp>>
        BY <2>2, <3>1 DEF News, Awaiting
      <3>2. ASSUME NEW q \in live, NEW how, named[q] # 0, FinishWith({q}, how)
            PROVE  News' = News /\ Awaiting' = Awaiting
        <4>1. News' = News /\ Awaiting' = Awaiting \ {q}
          BY <2>2, <3>2, FinishKeepsNews
        <4>2. QED
          BY <3>2, <4>1 DEF Awaiting
      <3>3. QED
        BY <2>3, <3>1, <3>2
    <2>5. 0 \notin Awaiting
      BY <1>2 DEF Awaiting, Scopes
    <2>6. QED
      BY <1>1, <2>2, <2>4, <2>5, TurnTail DEF InTurn
  <1>9. ASSUME NEW s \in Sources, Provide(s) PROVE InTurn'
    <2>1. UNCHANGED <<live, named, toApp, toDisplay, fate, number>>
      BY <1>9 DEF Provide
    <2>2. News' = News /\ Awaiting' = Awaiting
      BY <2>1 DEF News, Awaiting
    <2>3. QED
      BY <1>1, <2>1, <2>2, TurnStays DEF InTurn
  <1>10. CASE TakeNew
    <2>1. PICK q \in Scopes : q = Head(toApp).of /\ Head(toApp) = New(q)
      BY <1>10, Taking DEF TakeNew, TakeUp, TurnDown
    <2>2. /\ In(toApp) = {New(q)} \union In(toApp')
          /\ \A r \in Scopes : New(r) \in In(toApp') => q < r
      BY <1>10, <2>1, Taking DEF TakeNew, TakeUp, TurnDown
    <2>3. /\ q \in News /\ News' \subseteq News /\ News \subseteq News' \union {q}
          /\ \A r \in News' : q < r
      <3>1. \A r \in Scopes : New(r) = New(q) => r = q
        BY DEF New
      <3>2. QED
        BY <2>2, <3>1 DEF News
    <2>4. minted + 1 \in Numbers
      BY <2>3, NextNumber DEF News
    <2>5. UNCHANGED <<live, named>> /\ Awaiting' = Awaiting /\ q \in Awaiting
      BY <1>1, <1>10, <2>3 DEF TakeNew, TakeUp, TurnDown, Awaiting, Answering
    <2>6. PICK x \in ToDisplay :
            /\ toDisplay' = Append(toDisplay, x)
            /\ IsAnswer(x) /\ x.verb # "result"
            /\ x.verb = "error" => fate'[q] = "refused"
            /\ x.verb = "reply" => x.n = number'[q]
      <3>1. \/ /\ toDisplay' = Append(toDisplay, Reply(minted + 1))
               /\ number' = [number EXCEPT ![q] = minted + 1]
            \/ /\ toDisplay' = Append(toDisplay, Error)
               /\ fate' = [fate EXCEPT ![q] = "refused"]
        BY <1>10, <2>1 DEF TakeNew, TakeUp, TurnDown
      <3>2. Reply(minted + 1) \in ToDisplay /\ Error \in ToDisplay
        BY <2>4, AnswersAre
      <3>3. /\ Reply(minted + 1).verb = "reply" /\ Reply(minted + 1).n = minted + 1
            /\ Error.verb = "error" /\ minted + 1 # 0
        BY <2>4 DEF Reply, Error, Numbers
      <3>4. CASE /\ toDisplay' = Append(toDisplay, Reply(minted + 1))
                 /\ number' = [number EXCEPT ![q] = minted + 1]
        BY <1>2, <3>2, <3>3, <3>4 DEF IsAnswer
      <3>5. CASE /\ toDisplay' = Append(toDisplay, Error)
                 /\ fate' = [fate EXCEPT ![q] = "refused"]
        BY <1>2, <3>2, <3>3, <3>5 DEF IsAnswer
      <3>6. QED
        BY <3>1, <3>4, <3>5
    <2>7. \A r \in Scopes : r # q => /\ fate[r] = "refused" => fate'[r] = "refused"
                                     /\ number'[r] = number[r]
      <3>1. /\ \E how : fate' = [fate EXCEPT ![q] = how]
            /\ number' = number \/ number' = [number EXCEPT ![q] = minted + 1]
        BY <1>10, <2>1 DEF TakeNew, TakeUp, TurnDown
      <3>2. QED
        BY <1>2, <3>1
    <2>8. \A i \in DOMAIN toDisplay : f[i] < q
      BY <1>1, <2>3 DEF Answering
    <2>9. q # 0
      BY DEF Scopes
    <2>10. Answering(Append(f, q))'
      BY <1>1, <2>3, <2>5, <2>6, <2>7, <2>8, <2>9, TurnPut
    <2>11. QED
      BY <2>10 DEF InTurn
  <1>11. ASSUME NEW x \in ToDisplay, toDisplay' = Append(toDisplay, x), ~IsAnswer(x),
                x.verb = "result" /\ x.of \in Awaiting => \E i \in DOMAIN toDisplay : f[i] = x.of,
                News' = News, UNCHANGED <<live, named, number>>,
                \A r \in Scopes : fate[r] = "refused" => fate'[r] = "refused"
         PROVE  InTurn'
    <2>1. Awaiting' = Awaiting
      BY <1>11 DEF Awaiting
    <2>2. \A r \in News' : 0 < r
      BY DEF News, Scopes
    <2>3. Answering(Append(f, 0))'
      BY <1>1, <1>11, <2>1, <2>2, TurnPut
    <2>4. QED
      BY <2>3 DEF InTurn
  <1>12. CASE TakeDestroy
    <2>1. /\ Head(toApp).of \in Numbers /\ Head(toApp) = Destroy(Head(toApp).of)
          /\ In(toApp) = {Head(toApp)} \union In(toApp')
      BY <1>12, Taking DEF TakeDestroy, Numbers, Scopes
    <2>2. Head(toApp).of \in queries
      BY <2>1 DEF Kept, Once
    <2>3. toDisplay' = Append(toDisplay, Reply(0)) /\ UNCHANGED <<live, named, fate, number>>
      BY <1>12, <2>2 DEF TakeDestroy
    <2>4. News' = News
      <3>1. \A r : New(r) # Head(toApp)
        BY <2>1, Neither
      <3>2. QED
        BY <2>1, <3>1 DEF News
    <2>5. Reply(0) \in ToDisplay /\ ~IsAnswer(Reply(0)) /\ Reply(0).verb = "reply"
      BY AnswersAre DEF IsAnswer, Reply
    <2>6. QED
      BY <1>11, <2>3, <2>4, <2>5
  <1>13. ASSUME NEW q \in Scopes, q \in waiting \/ fate[q] = "open",
                NEW end \in {""} \union Endings, NEW place, place = 0 \/ place = made[q],
                toDisplay' = Append(toDisplay, Result(q, place, end)),
                UNCHANGED <<live, named, number, toApp>>,
                \A r \in Scopes : fate[r] = "refused" => fate'[r] = "refused"
         PROVE  InTurn'
    <2> DEFINE x == Result(q, place, end)
    <2>1. x \in ToDisplay /\ x.verb = "result" /\ x.of = q
      BY <1>13, SentIs DEF Result
    <2>2. ~IsAnswer(x)
      BY <2>1 DEF IsAnswer
    <2>3. fate[q] = "open"
      BY <1>13 DEF Kept, Taken
    <2>4. q \notin News
      BY <2>3 DEF Kept, Coming, News
    <2>5. q \in Awaiting => \E i \in DOMAIN toDisplay : f[i] = q
      BY <1>1, <2>4 DEF Answering
    <2>6. News' = News
      BY <1>13 DEF News
    <2> HIDE DEF x
    <2>7. toDisplay' = Append(toDisplay, x)
      BY <1>13 DEF x
    <2>8. QED
      BY <1>11, <1>13, <2>1, <2>2, <2>5, <2>6, <2>7
  <1>14. ASSUME UNCHANGED <<live, named, number, toApp, toDisplay, fate>> PROVE InTurn'
    <2>1. News' = News /\ Awaiting' = Awaiting
      BY <1>14 DEF News, Awaiting
    <2>2. QED
      BY <1>1, <1>14, <2>1, TurnStays DEF InTurn
  <1>15. ASSUME NEW q \in Scopes, Record(q) PROVE InTurn'
    <2>1. UNCHANGED <<live, named, number, toApp, fate>>
      BY <1>15 DEF Record
    <2>2. toDisplay' = toDisplay \/ toDisplay' = Append(toDisplay, Result(q, made[q], ""))
      BY <1>15 DEF Record, SendHeld
    <2>3. fate[q] = "open"
      BY <1>15 DEF Record
    <2>4. QED
      BY <1>13, <1>14, <2>1, <2>2, <2>3
  <1>16. ASSUME NEW q \in Scopes, Flush(q) PROVE InTurn'
    <2>1. UNCHANGED <<live, named, number, toApp, fate>> /\ q \in waiting
      BY <1>16 DEF Flush
    <2>2. toDisplay' = toDisplay \/ toDisplay' = Append(toDisplay, Result(q, made[q], ""))
      BY <1>16 DEF Flush, SendHeld
    <2>3. QED
      BY <1>13, <1>14, <2>1, <2>2
  <1>17. ASSUME NEW q \in Scopes, NEW how \in Endings, Finish(q, how) PROVE InTurn'
    <2>1. /\ UNCHANGED <<live, named, number, toApp>> /\ fate[q] = "open"
          /\ fate' = [fate EXCEPT ![q] = how]
          /\ toDisplay' = Append(toDisplay, Result(q, LastOf(q), how))
      BY <1>17 DEF Finish
    <2>2. \A r \in Scopes : fate[r] = "refused" => fate'[r] = "refused"
      BY <1>2, <2>1
    <2>3. LastOf(q) = 0 \/ LastOf(q) = made[q]
      BY DEF LastOf
    <2>4. QED
      BY <1>13, <2>1, <2>2, <2>3
  <1>18. QED
    BY <1>3, <1>4, <1>6, <1>7, <1>8, <1>9, <1>10, <1>12, <1>15, <1>16, <1>17 DEF Next

-----------------------------------------------------------------------------
\* How many records of q were sent: all but the one held back.
Sent(q) == IF q \in waiting THEN made[q] - 1 ELSE made[q]
\* A message that is a result of q.
IsOf(x, q) == x.verb = "result" /\ x.of = q

\* The results of q in s have the records a + 1 to b, each and in order, the end
\* on the last of them alone or behind them all.
Runs(s, q, a, b) ==
  /\ \A i \in DOMAIN s : IsOf(s[i], q) => s[i].place = 0 \/ (a < s[i].place /\ s[i].place <= b)
  /\ \A p \in Nat : a < p /\ p <= b => \E i \in DOMAIN s : IsOf(s[i], q) /\ s[i].place = p
  /\ \A i, j \in DOMAIN s : IsOf(s[i], q) /\ IsOf(s[j], q) /\ i < j =>
       s[i].end = "" /\ (s[j].place # 0 => s[i].place < s[j].place)

\* What has yet to reach a reader is on its way to it: between what it got and
\* what was sent, nothing is lost, doubled or out of order.
Stream ==
  \A q \in live : Len(got[q]) <= Sent(q) /\ Runs(toDisplay, q, Len(got[q]), Sent(q))

\* The place of a record is a number.
LEMMA PlaceIs == ASSUME NEW x \in ToDisplay, x.verb = "result" PROVE x.place \in Nat
  <1>1. x.place \in 0..MaxRecords
    BY DEF ToDisplay
  <1>2. QED
    BY <1>1, Places

\* What taking the first message does to a run of results: a record of q is the
\* next one, and an end is the end.
LEMMA RunsTail ==
  ASSUME NEW s \in Seq(ToDisplay), s # <<>>, NEW q, NEW a \in Nat, NEW b \in Nat,
         Runs(s, q, a, b), a <= b
  PROVE  /\ ~IsOf(Head(s), q) => Runs(Tail(s), q, a, b)
         /\ IsOf(Head(s), q) =>
              /\ Head(s).place # 0 =>
                   Head(s).place = a + 1 /\ a + 1 <= b /\ Runs(Tail(s), q, a + 1, b)
              /\ Head(s).end # "" => b = IF Head(s).place # 0 THEN a + 1 ELSE a
  <1>1. /\ \A i \in DOMAIN s : IsOf(s[i], q) => s[i].place = 0 \/ (a < s[i].place /\ s[i].place <= b)
        /\ \A p \in Nat : a < p /\ p <= b => \E i \in DOMAIN s : IsOf(s[i], q) /\ s[i].place = p
    BY DEF Runs
  <1>2. \A i, j \in DOMAIN s : IsOf(s[i], q) /\ IsOf(s[j], q) /\ i < j =>
           s[i].end = "" /\ (s[j].place # 0 => s[i].place < s[j].place)
    BY DEF Runs
  <1> DEFINE t == Tail(s)
  <1>3. /\ DOMAIN s = 1..Len(s) /\ Len(s) \in Nat \ {0} /\ DOMAIN t = 1..(Len(s) - 1)
        /\ \A i \in 1..(Len(s) - 1) : t[i] = s[i + 1]
        /\ Head(s) = s[1]
    BY TailIs
  <1> HIDE DEF t
  <1>4. 1 \in DOMAIN s /\ \A i \in DOMAIN t : i \in Nat /\ i + 1 \in DOMAIN s /\ t[i] = s[i + 1]
    BY <1>3
  <1>5. \A i \in DOMAIN s : i # 1 => 1 < i /\ i - 1 \in DOMAIN t /\ t[i - 1] = s[i]
    BY <1>3
  <1>6. \A i \in DOMAIN s : s[i].verb = "result" => s[i].place \in Nat
    BY <1>3, PlaceIs, ElementOfSeq
  <1>7. ASSUME ~IsOf(Head(s), q) PROVE Runs(t, q, a, b)
    <2>1. \A i \in DOMAIN t : IsOf(t[i], q) => t[i].place = 0 \/ (a < t[i].place /\ t[i].place <= b)
      BY <1>4 DEF Runs
    <2>2. ASSUME NEW p \in Nat, a < p, p <= b
          PROVE  \E i \in DOMAIN t : IsOf(t[i], q) /\ t[i].place = p
      <3>1. PICK i \in DOMAIN s : IsOf(s[i], q) /\ s[i].place = p
        BY <2>2 DEF Runs
      <3>2. i # 1
        BY <1>3, <1>7, <3>1
      <3>3. QED
        BY <1>5, <3>1, <3>2
    <2>3. ASSUME NEW i \in DOMAIN t, NEW j \in DOMAIN t, IsOf(t[i], q), IsOf(t[j], q), i < j
          PROVE  t[i].end = "" /\ (t[j].place # 0 => t[i].place < t[j].place)
      <3>1. i + 1 < j + 1
        BY <1>4, <2>3
      <3>2. i + 1 \in DOMAIN s /\ j + 1 \in DOMAIN s /\ t[i] = s[i + 1] /\ t[j] = s[j + 1]
        BY <1>4
      <3>3. QED
        BY <1>2, <2>3, <3>1, <3>2
    <2>4. QED
      BY <2>1, <2>2, <2>3 DEF Runs
  <1>8. ASSUME IsOf(Head(s), q), s[1].place # 0
        PROVE  s[1].place = a + 1 /\ a + 1 <= b /\ Runs(t, q, a + 1, b)
    <2>1. a < s[1].place /\ s[1].place <= b /\ s[1].place \in Nat
      BY <1>3, <1>4, <1>6, <1>8 DEF Runs, IsOf
    <2>2. a + 1 \in Nat /\ a < a + 1 /\ a + 1 <= b
      BY <2>1
    <2>3. PICK i \in DOMAIN s : IsOf(s[i], q) /\ s[i].place = a + 1
      BY <2>2 DEF Runs
    <2>4. i = 1
      <3>1. ASSUME i # 1 PROVE FALSE
        <4>1. 1 < i /\ 1 \in DOMAIN s /\ s[i].place # 0
          BY <1>4, <1>5, <2>2, <2>3, <3>1
        <4>2. s[1].place < a + 1
          BY <1>2, <1>3, <1>8, <2>3, <4>1
        <4>3. QED
          BY <2>1, <4>2
      <3>2. QED
        BY <3>1
    <2>5. ASSUME NEW j \in DOMAIN t, IsOf(t[j], q)
          PROVE  t[j].place = 0 \/ (a + 1 < t[j].place /\ t[j].place <= b)
      <3>1. /\ j + 1 \in DOMAIN s /\ t[j] = s[j + 1] /\ 1 < j + 1
        BY <1>3, <1>4
      <3>2. t[j].place = 0 \/ t[j].place <= b
        BY <2>5, <3>1 DEF Runs
      <3>3. t[j].place = 0 \/ s[1].place < t[j].place
        BY <1>3, <1>4, <1>8, <2>5, <3>1 DEF Runs
      <3>4. QED
        BY <2>3, <2>4, <3>2, <3>3
    <2>6. ASSUME NEW p \in Nat, a + 1 < p, p <= b
          PROVE  \E j \in DOMAIN t : IsOf(t[j], q) /\ t[j].place = p
      <3>1. PICK j \in DOMAIN s : IsOf(s[j], q) /\ s[j].place = p
        <4>1. a < p
          BY <2>6
        <4>2. QED
          BY <1>1, <2>6, <4>1
      <3>2. j # 1
        BY <2>3, <2>4, <2>6, <3>1
      <3>3. QED
        BY <1>5, <3>1, <3>2
    <2>7. ASSUME NEW j \in DOMAIN t, NEW k \in DOMAIN t, IsOf(t[j], q), IsOf(t[k], q), j < k
          PROVE  t[j].end = "" /\ (t[k].place # 0 => t[j].place < t[k].place)
      <3>1. j + 1 < k + 1
        BY <1>4, <2>7
      <3>2. j + 1 \in DOMAIN s /\ k + 1 \in DOMAIN s /\ t[j] = s[j + 1] /\ t[k] = s[k + 1]
        BY <1>4
      <3>3. QED
        BY <1>2, <2>7, <3>1, <3>2
    <2>8. QED
      BY <2>2, <2>3, <2>4, <2>5, <2>6, <2>7 DEF Runs
  <1>9. ASSUME IsOf(Head(s), q), s[1].end # ""
        PROVE  b = IF s[1].place # 0 THEN a + 1 ELSE a
    <2>1. \A j \in DOMAIN s : IsOf(s[j], q) => j = 1
      BY <1>3, <1>4, <1>5, <1>9 DEF Runs
    <2>2. \A p \in Nat : a < p /\ p <= b => s[1].place = p
      BY <2>1 DEF Runs
    <2>3. CASE s[1].place = 0
      <3>1. ASSUME a < b PROVE FALSE
        <4>1. s[1].place = b
          BY <2>2, <3>1
        <4>2. QED
          BY <2>3, <3>1, <4>1
      <3>2. QED
        BY <2>3, <3>1
    <2>4. CASE s[1].place # 0
      <3>1. s[1].place = a + 1 /\ a + 1 <= b
        BY <1>8, <1>9, <2>4
      <3>2. s[1].place = b
        BY <2>2, <3>1
      <3>3. QED
        BY <2>4, <3>1, <3>2
    <2>5. QED
      BY <2>3, <2>4
  <1>10. QED
    BY <1>3, <1>7, <1>8, <1>9 DEF t

\* What sending a message does to a run of results.
LEMMA RunsOn ==
  ASSUME NEW s \in Seq(ToDisplay), NEW x \in ToDisplay, NEW q, NEW a \in Nat, NEW b \in Nat,
         Runs(s, q, a, b), a <= b
  PROVE  /\ ~IsOf(x, q) => Runs(Append(s, x), q, a, b)
         /\ IsOf(x, q) /\ (\A y \in In(s) : IsOf(y, q) => y.end = "") =>
              /\ x.place = 0 => Runs(Append(s, x), q, a, b)
              /\ x.place = b + 1 => Runs(Append(s, x), q, a, b + 1)
  <1>1. /\ \A i \in DOMAIN s : IsOf(s[i], q) => s[i].place = 0 \/ (a < s[i].place /\ s[i].place <= b)
        /\ \A p \in Nat : a < p /\ p <= b => \E i \in DOMAIN s : IsOf(s[i], q) /\ s[i].place = p
    BY DEF Runs
  <1>2. \A i, j \in DOMAIN s : IsOf(s[i], q) /\ IsOf(s[j], q) /\ i < j =>
           s[i].end = "" /\ (s[j].place # 0 => s[i].place < s[j].place)
    BY DEF Runs
  <1> DEFINE t == Append(s, x)
             n == Len(s)
  <1>3. /\ n \in Nat /\ DOMAIN s = 1..n /\ DOMAIN t = 1..(n + 1)
        /\ \A i \in 1..n : t[i] = s[i]
        /\ t[n + 1] = x
    BY AppendIs
  <1> HIDE DEF t, n
  <1>4. /\ \A i \in DOMAIN s : i \in DOMAIN t /\ t[i] = s[i] /\ i < n + 1
        /\ n + 1 \in DOMAIN t
        /\ \A i \in DOMAIN t : i \in DOMAIN s \/ i = n + 1
        /\ \A i \in DOMAIN t : ~(n + 1 < i)
    BY <1>3
  <1>5. \A i \in DOMAIN s : IsOf(s[i], q) => s[i].place \in Nat /\ s[i].place < b + 1
    <2>1. \A i \in DOMAIN s : IsOf(s[i], q) => s[i].place \in Nat
      BY <1>3, PlaceIs, ElementOfSeq DEF IsOf, n
    <2>2. \A i \in DOMAIN s : IsOf(s[i], q) => s[i].place = 0 \/ s[i].place <= b
      BY DEF Runs
    <2>3. QED
      BY <2>1, <2>2
  <1>6. ASSUME ~IsOf(x, q) PROVE Runs(t, q, a, b)
    <2>1. \A i \in DOMAIN t : IsOf(t[i], q) => i \in DOMAIN s /\ t[i] = s[i]
      BY <1>3, <1>4, <1>6
    <2>2. \A i \in DOMAIN t : IsOf(t[i], q) => t[i].place = 0 \/ (a < t[i].place /\ t[i].place <= b)
      BY <2>1 DEF Runs
    <2>3. \A p \in Nat : a < p /\ p <= b => \E i \in DOMAIN t : IsOf(t[i], q) /\ t[i].place = p
      BY <1>4 DEF Runs
    <2>4. \A i, j \in DOMAIN t : IsOf(t[i], q) /\ IsOf(t[j], q) /\ i < j =>
            t[i].end = "" /\ (t[j].place # 0 => t[i].place < t[j].place)
      BY <2>1 DEF Runs
    <2>5. QED
      BY <2>2, <2>3, <2>4 DEF Runs
  <1>7. ASSUME IsOf(x, q), \A y \in In(s) : IsOf(y, q) => y.end = "",
               NEW c \in Nat, (x.place = 0 /\ c = b) \/ (x.place = b + 1 /\ c = b + 1)
        PROVE  Runs(t, q, a, c)
    <2>1. /\ x.place \in Nat /\ b <= c /\ x.place <= c
          /\ x.place = 0 \/ a < x.place
          /\ \A p \in Nat : p <= c /\ ~(p <= b) => x.place = p
      <3>1. CASE x.place = 0 /\ c = b
        BY <3>1
      <3>2. CASE x.place = b + 1 /\ c = b + 1
        <4>1. \A p \in Nat : p <= b + 1 /\ ~(p <= b) => p = b + 1
          OBVIOUS
        <4>2. b + 1 \in Nat /\ b <= b + 1 /\ a < b + 1
          OBVIOUS
        <4>3. QED
          BY <3>2, <4>1, <4>2
      <3>3. QED
        BY <1>7, <3>1, <3>2
    <2>2. ASSUME NEW i \in DOMAIN t, IsOf(t[i], q)
          PROVE  t[i].place = 0 \/ (a < t[i].place /\ t[i].place <= c)
      <3>1. CASE i \in DOMAIN s
        <4>1. t[i] = s[i] /\ IsOf(s[i], q)
          BY <1>4, <2>2, <3>1
        <4>2. /\ s[i].place = 0 \/ (a < s[i].place /\ s[i].place <= b)
              /\ s[i].place \in Nat
          BY <1>5, <3>1, <4>1 DEF Runs
        <4>3. QED
          BY <2>1, <4>1, <4>2
      <3>2. CASE i = n + 1
        BY <1>3, <2>1, <3>2
      <3>3. QED
        BY <1>4, <3>1, <3>2
    <2>3. ASSUME NEW p \in Nat, a < p, p <= c
          PROVE  \E i \in DOMAIN t : IsOf(t[i], q) /\ t[i].place = p
      <3>1. CASE p <= b
        BY <1>4, <2>3, <3>1 DEF Runs
      <3>2. CASE ~(p <= b)
        <4>1. x.place = p
          BY <2>1, <2>3, <3>2
        <4>2. QED
          BY <1>3, <1>4, <1>7, <4>1
      <3>3. QED
        BY <3>1, <3>2
    <2>4. ASSUME NEW i \in DOMAIN t, NEW j \in DOMAIN t, IsOf(t[i], q), IsOf(t[j], q), i < j
          PROVE  t[i].end = "" /\ (t[j].place # 0 => t[i].place < t[j].place)
      <3>1. i \in DOMAIN s /\ t[i] = s[i]
        BY <1>4, <2>4
      <3>2. CASE j \in DOMAIN s
        BY <1>4, <2>4, <3>1, <3>2 DEF Runs
      <3>3. CASE j = n + 1
        <4>1. t[i].end = ""
          BY <1>7, <2>4, <3>1 DEF In
        <4>2. t[i].place < b + 1
          BY <1>5, <2>4, <3>1
        <4>3. QED
          BY <1>3, <1>7, <3>3, <4>1, <4>2
      <3>4. QED
        BY <1>4, <3>2, <3>3
    <2>5. QED
      BY <2>2, <2>3, <2>4 DEF Runs
  <1>8. b + 1 \in Nat
    OBVIOUS
  <1>9. QED
    <2>1. ASSUME IsOf(x, q), \A y \in In(s) : IsOf(y, q) => y.end = "", x.place = 0
          PROVE  Runs(t, q, a, b)
      BY <1>7, <2>1
    <2>2. ASSUME IsOf(x, q), \A y \in In(s) : IsOf(y, q) => y.end = "", x.place = b + 1
          PROVE  Runs(t, q, a, b + 1)
      BY <1>7, <1>8, <2>2
    <2>3. QED
      BY <1>6, <2>1, <2>2 DEF t

\* A result is taken by the scope it is of, if that is outstanding, and else by
\* none.
LEMMA TakenByItsOwn ==
  ASSUME Kept, InTurn, Stamped, NamedTrue, Arrives("result")
  PROVE  Addressed(Head(toDisplay).n) = {Head(toDisplay).of} \intersect live
  <1>1. PICK r \in In(toDisplay) : r = Head(toDisplay) /\ r.verb = "result" /\ r = toDisplay[1]
    <2>1. LET x == Head(toDisplay)
          IN  x.verb = "result" /\ x = toDisplay[1] /\ In(toDisplay) = {x} \union In(toDisplay')
      BY Arrived
    <2>2. QED
      BY <2>1
  <1>2. /\ r.of \in Scopes /\ r.n \in Numbers /\ r.n = number[r.of] /\ r.n # 0
    BY <1>1, OfOneTaken
  <1>3. ASSUME NEW q \in live, named[q] = r.n PROVE q = r.of
    <2>1. q \in Scopes /\ number[q] = number[r.of] /\ number[q] # 0
      BY <1>2, <1>3 DEF NamedTrue, Kept, TypeOK
    <2>2. QED
      BY <1>2, <2>1 DEF Kept, Taken
  <1>4. ASSUME r.of \in live PROVE named[r.of] = r.n
    <2>1. PICK f : Answering(f)
      BY DEF InTurn
    <2>2. 1 \in DOMAIN toDisplay /\ \A j \in DOMAIN toDisplay : ~(j < 1)
      BY TailIs DEF Kept, TypeOK, Arrives
    <2>3. r.of \notin Awaiting
      BY <1>1, <2>1, <2>2 DEF Answering
    <2>4. QED
      BY <1>2, <1>4, <2>3 DEF NamedTrue, Awaiting
  <1>5. Addressed(r.n) = {r.of} \intersect live
    BY <1>3, <1>4 DEF Addressed
  <1>6. QED
    BY <1>1, <1>5

\* Results go on carrying what they should.
LEMMA StampedStep == ASSUME Kept, Stamped, Next PROVE Stamped'
  <1>1. /\ toDisplay \in Seq(ToDisplay)
        /\ number \in [Scopes -> {0} \union Numbers]
        /\ fate \in [Scopes -> {"none", "open", "refused"} \union Endings]
    BY DEF Kept, TypeOK
  <1>2. ASSUME NEW x \in In(toDisplay), x.verb = "result", NEW q \in Scopes, fate[q] \notin TakenUp
        PROVE  x.of # q
    BY <1>2, OfOneTaken
  <1>3. ASSUME In(toDisplay') \subseteq In(toDisplay), UNCHANGED <<number, fate>>
        PROVE  Stamped'
    BY <1>3 DEF Stamped
  <1>4. ASSUME UNCHANGED toDisplay PROVE In(toDisplay') = In(toDisplay)
    BY <1>4 DEF In
  <1>5. ASSUME NEW verb, Arrives(verb) PROVE In(toDisplay') \subseteq In(toDisplay)
    BY <1>5, Arrived
  <1>6. CASE UNCHANGED <<toDisplay, number, fate>>
    BY <1>3, <1>4, <1>6
  <1>7. CASE (\E verb : Arrives(verb)) /\ UNCHANGED <<number, fate>>
    BY <1>3, <1>5, <1>7
  <1>8. ASSUME NEW x \in ToDisplay, toDisplay' = Append(toDisplay, x),
               x.verb = "result" => /\ x.n = number'[x.of]
                                    /\ x.place # 0 \/ x.end # ""
                                    /\ x.end # "" => x.end = fate'[x.of],
               \A y \in In(toDisplay) : y.verb = "result" =>
                 number'[y.of] = number[y.of] /\ (y.end # "" => fate'[y.of] = fate[y.of])
        PROVE  Stamped'
    <2>1. In(toDisplay') = In(toDisplay) \union {x}
      <3>1. In(Append(toDisplay, x)) = In(toDisplay) \union {x}
        BY <1>1, AppendIs
      <3>2. QED
        BY <1>8, <3>1
    <2>2. QED
      BY <1>8, <2>1 DEF Stamped
  <1>9. CASE TakeNew
    <2>1. PICK q \in Scopes : q = Head(toApp).of /\ New(q) \in In(toApp)
      BY <1>9, Taking DEF TakeNew, TakeUp, TurnDown
    <2>2. minted + 1 \in Numbers /\ fate[q] = "none"
      BY <2>1, NextNumber
    <2>3. \E x \in {Reply(minted + 1), Error} : toDisplay' = Append(toDisplay, x)
      BY <1>9 DEF TakeNew, TakeUp, TurnDown
    <2>4. PICK x \in ToDisplay : toDisplay' = Append(toDisplay, x) /\ x.verb # "result"
      <3>1. Reply(minted + 1) \in ToDisplay /\ Error \in ToDisplay
        BY <2>2, AnswersAre
      <3>2. Reply(minted + 1).verb # "result" /\ Error.verb # "result"
        BY DEF Reply, Error
      <3>3. QED
        BY <2>3, <3>1, <3>2
    <2>5. /\ \E how : fate' = [fate EXCEPT ![q] = how]
          /\ number' = number \/ number' = [number EXCEPT ![q] = minted + 1]
      BY <1>9, <2>1 DEF TakeNew, TakeUp, TurnDown
    <2>6. \A y \in In(toDisplay) : y.verb = "result" => y.of \in Scopes /\ y.of # q
      BY <1>2, <2>2, OfOneTaken DEF TakenUp, Endings
    <2>7. \A y \in In(toDisplay) : y.verb = "result" =>
            number'[y.of] = number[y.of] /\ (y.end # "" => fate'[y.of] = fate[y.of])
      BY <1>1, <2>5, <2>6
    <2>8. QED
      BY <1>8, <2>4, <2>7
  <1>10. CASE TakeDestroy
    <2>1. \E x \in {Reply(0), Error} : toDisplay' = Append(toDisplay, x)
      BY <1>10 DEF TakeDestroy
    <2>2. PICK x \in ToDisplay : toDisplay' = Append(toDisplay, x) /\ x.verb # "result"
      <3>1. Reply(0) \in ToDisplay /\ Error \in ToDisplay
        BY AnswersAre
      <3>2. Reply(0).verb # "result" /\ Error.verb # "result"
        BY DEF Reply, Error
      <3>3. QED
        BY <2>1, <3>1, <3>2
    <2>3. UNCHANGED <<number, fate>>
      BY <1>10 DEF TakeDestroy
    <2>4. QED
      BY <1>8, <2>2, <2>3
  <1>11. ASSUME NEW q \in Scopes, q \in waiting \/ fate[q] = "open",
                NEW end \in {""} \union Endings, NEW place, place = 0 \/ place = made[q],
                place # 0 \/ end # "",
                toDisplay' = Append(toDisplay, Result(q, place, end)),
                UNCHANGED number, fate' = IF end = "" THEN fate ELSE [fate EXCEPT ![q] = end]
         PROVE  Stamped'
    <2>1. fate[q] = "open"
      BY <1>11 DEF Kept, Taken
    <2> DEFINE x == Result(q, place, end)
    <2>2. x \in ToDisplay /\ x.n = number[q] /\ x.of = q /\ x.place = place /\ x.end = end
      BY <1>11, SentIs DEF Result
    <2>3. x.end # "" => x.end = fate'[x.of]
      BY <1>1, <1>11, <2>2
    <2>4. ASSUME NEW y \in In(toDisplay), y.verb = "result", y.end # ""
          PROVE  fate'[y.of] = fate[y.of]
      <3>1. y.of \in Scopes /\ y \in ToDisplay
        <4>1. y.of \in Scopes
          BY <2>4, OfOneTaken
        <4>2. y \in ToDisplay
          BY UnderWay
        <4>3. QED
          BY <4>1, <4>2
      <3>2. y.end \in Endings /\ y.end = fate[y.of]
        BY <2>4, <3>1 DEF Stamped, ToDisplay
      <3>3. y.of # q
        BY <2>1, <3>2 DEF Endings
      <3>4. QED
        BY <1>1, <1>11, <3>1, <3>3
    <2> HIDE DEF x
    <2>5. toDisplay' = Append(toDisplay, x)
      BY <1>11 DEF x
    <2>6. QED
      BY <1>8, <1>11, <2>2, <2>3, <2>4, <2>5
  <1>12. \A q \in Scopes : q \in waiting => made[q] # 0 /\ fate[q] = "open"
    BY DEF Kept, Taken
  <1>13. ASSUME NEW q \in Scopes, Record(q) PROVE Stamped'
    BY <1>6, <1>11, <1>12, <1>13 DEF Record, SendHeld
  <1>14. ASSUME NEW q \in Scopes, Flush(q) PROVE Stamped'
    BY <1>6, <1>11, <1>12, <1>14 DEF Flush, SendHeld
  <1>15. ASSUME NEW q \in Scopes, NEW how \in Endings, Finish(q, how) PROVE Stamped'
    <2>1. how # "" /\ (LastOf(q) = 0 \/ LastOf(q) = made[q])
      BY DEF Endings, LastOf
    <2>2. QED
      BY <1>11, <1>15, <2>1 DEF Finish
  <1>16. \/ UNCHANGED <<toDisplay, number, fate>>
         \/ (\E verb : Arrives(verb)) /\ UNCHANGED <<number, fate>>
         \/ TakeNew \/ TakeDestroy
         \/ \E q \in Scopes : Record(q) \/ Flush(q) \/ \E how \in Endings : Finish(q, how)
    BY DEF Next, Read, CloseSet, TakeReply, TakeError, TakeResult, Provide
  <1>17. QED
    BY <1>6, <1>7, <1>9, <1>10, <1>13, <1>14, <1>15, <1>16

\* Scopes go on being named by their own numbers.
LEMMA NamedStep == ASSUME Kept, InOneLine, InTurn, NamedTrue, Next PROVE NamedTrue'
  <1>1. PICK f : Answering(f)
    BY DEF InTurn
  <1>2. /\ named \in [Scopes -> {0} \union Numbers]
        /\ number \in [Scopes -> {0} \union Numbers]
    BY DEF Kept, TypeOK
  <1>3. CASE UNCHANGED <<named, number>>
    BY <1>3 DEF NamedTrue
  <1>4. CASE TakeReply
    <2> DEFINE n == Head(toDisplay).n
    <2>1. /\ toDisplay # <<>> /\ Head(toDisplay) = toDisplay[1] /\ Head(toDisplay).verb = "reply"
          /\ 1 \in DOMAIN toDisplay
      <3>1. toDisplay # <<>> /\ Head(toDisplay).verb = "reply" /\ toDisplay \in Seq(ToDisplay)
        BY <1>4 DEF TakeReply, Arrives, Kept, TypeOK
      <3>2. QED
        BY <3>1, TailIs
    <2>2. \/ named' = named
          \/ n # 0 /\ \E s \in Takers : named' = [named EXCEPT ![FirstUnnamed(s)] = n]
      BY <1>4, ReplyDoes
    <2>3. n # 0 => f[1] # 0 /\ n = number[f[1]]
      BY <1>1, <2>1 DEF Answering, IsAnswer
    <2>4. UNCHANGED number
      BY <1>4 DEF TakeReply
    <2> HIDE DEF n
    <2>5. named' = named \/ \E q \in Scopes : named' = [named EXCEPT ![q] = number[q]]
      BY <1>1, <2>1, <2>2, <2>3, FirstAnswered
    <2>6. QED
      BY <1>2, <2>4, <2>5 DEF NamedTrue
  <1>5. CASE TakeNew
    <2>1. PICK q \in Scopes : q = Head(toApp).of /\ New(q) \in In(toApp)
      BY <1>5, Taking DEF TakeNew, TakeUp, TurnDown
    <2>2. named[q] = 0
      BY <1>1, <2>1 DEF Answering, News, Awaiting
    <2>3. UNCHANGED named /\ (number' = number \/ number' = [number EXCEPT ![q] = minted + 1])
      BY <1>5, <2>1 DEF TakeNew, TakeUp, TurnDown
    <2>4. QED
      BY <1>2, <2>2, <2>3 DEF NamedTrue
  <1>6. UNCHANGED <<named, number>> \/ TakeReply \/ TakeNew
    BY DEF Next, Read, CloseSet, TakeError, TakeResult, Provide, TakeDestroy, Record, Flush, Finish
  <1>7. QED
    BY <1>3, <1>4, <1>5, <1>6

\* The counts of records are numbers.
LEMMA SentIsNat ==
  ASSUME Kept, NEW q \in Scopes
  PROVE  /\ Sent(q) \in Nat /\ Len(got[q]) \in Nat /\ made[q] \in Nat
         /\ fate[q] # "open" => Sent(q) = made[q]
  <1>1. made[q] \in 0..MaxRecords /\ got[q] \in Seq(Scopes \X (1..MaxRecords))
    BY DEF Kept, TypeOK
  <1>2. q \in waiting => made[q] # 0 /\ fate[q] = "open"
    BY DEF Kept, Taken
  <1>3. made[q] \in Nat /\ Len(got[q]) \in Nat
    BY <1>1, Places, LenProperties
  <1>4. QED
    BY <1>2, <1>3 DEF Sent

\* What was sent goes on being what was got and what is on its way.
LEMMA StreamStep ==
  ASSUME Kept, InTurn, Stamped, NamedTrue, Stream, Next
  PROVE  Stream'
  <1>1. /\ toDisplay \in Seq(ToDisplay) /\ live \subseteq Scopes /\ waiting \subseteq Scopes
        /\ made \in [Scopes -> 0..MaxRecords]
        /\ got \in [Scopes -> Seq(Scopes \X (1..MaxRecords))]
    BY DEF Kept, TypeOK
  <1>2. \A q \in Scopes : Sent(q) \in Nat /\ Len(got[q]) \in Nat /\ made[q] \in Nat
    BY SentIsNat
  <1>3. \A q \in live : Len(got[q]) <= Sent(q) /\ Runs(toDisplay, q, Len(got[q]), Sent(q))
    BY DEF Stream
  <1>4. ASSUME UNCHANGED <<got, made, waiting, toDisplay>>, live' \subseteq live
        PROVE  Stream'
    <2>1. \A q : Sent(q)' = Sent(q)
      BY <1>4 DEF Sent
    <2>2. QED
      BY <1>3, <1>4, <2>1 DEF Stream
  <1>5. ASSUME UNCHANGED <<got, made, waiting>>, live' \subseteq live,
               NEW x \in ToDisplay, toDisplay' = Append(toDisplay, x), x.verb # "result"
        PROVE  Stream'
    <2>1. \A q : Sent(q)' = Sent(q) /\ ~IsOf(x, q)
      BY <1>5 DEF Sent, IsOf
    <2>2. \A q \in live : Runs(toDisplay', q, Len(got[q]), Sent(q))
      BY <1>1, <1>2, <1>3, <1>5, <2>1, RunsOn
    <2>3. QED
      BY <1>3, <1>5, <2>1, <2>2 DEF Stream
  <1>6. ASSUME UNCHANGED <<got, made, waiting>>, live' \subseteq live,
               NEW verb, Arrives(verb), verb # "result"
        PROVE  Stream'
    <2>1. /\ toDisplay # <<>> /\ toDisplay' = Tail(toDisplay)
          /\ \A q : Sent(q)' = Sent(q) /\ ~IsOf(Head(toDisplay), q)
      BY <1>6 DEF Arrives, Sent, IsOf
    <2>2. \A q \in live : Runs(toDisplay', q, Len(got[q]), Sent(q))
      BY <1>1, <1>2, <1>3, <2>1, RunsTail
    <2>3. QED
      BY <1>3, <1>6, <2>1, <2>2 DEF Stream
  <1>7. ASSUME NEW Q \in SUBSET live, NEW how, FinishWith(Q, how) PROVE live' = live \ Q
    BY <1>7, FinishWithDoes
  <1>8. ASSUME NEW t \in Sets, Read(t) PROVE Stream'
    <2>1. /\ live' = live \union {asked + 1} /\ UNCHANGED <<got, made, waiting, toDisplay>>
          /\ asked \in Nat /\ asked + 1 \in Scopes
      BY <1>8, QueriesAssumption DEF Read, Kept, TypeOK, Scopes
    <2>2. PICK k \in Scopes : k = asked + 1
      BY <2>1
    <2>3. got[k] = <<>> /\ fate[k] = "none" /\ k > asked
      BY <2>1, <2>2 DEF Kept, Outstanding
    <2>4. Sent(k) = 0
      BY <2>3 DEF Kept, Taken, Sent, TakenUp, Endings
    <2>5. Len(got[k]) = 0
      BY <2>3, EmptySeq
    <2>6. Runs(toDisplay, k, 0, 0)
      <3>1. \A i \in DOMAIN toDisplay : ~IsOf(toDisplay[i], k)
        <4>1. ASSUME NEW x \in In(toDisplay), IsOf(x, k) PROVE FALSE
          <5>1. k <= asked
            BY <4>1, OfOneTaken DEF IsOf
          <5>2. QED
            BY <2>1, <2>2, <5>1
        <4>2. QED
          BY <4>1 DEF In
      <3>2. \A p \in Nat : ~(0 < p /\ p <= 0)
        OBVIOUS
      <3>3. QED
        BY <3>1, <3>2 DEF Runs
    <2>7. \A q : Sent(q)' = Sent(q)
      BY <2>1 DEF Sent
    <2>8. QED
      BY <1>3, <2>1, <2>2, <2>4, <2>5, <2>6, <2>7 DEF Stream
  <1>9. ASSUME NEW t \in Sets, CloseSet(t) PROVE Stream'
    BY <1>4, <1>7, <1>9 DEF CloseSet, Of
  <1>10. CASE TakeReply
    BY <1>6, <1>10 DEF TakeReply
  <1>11. CASE TakeError
    <2>1. \/ UNCHANGED <<live, ended, toApp>>
          \/ \E Q \in SUBSET live : FinishWith(Q, "refused")
      BY <1>11, ErrorDoes, FirstIs DEF Unnamed
    <2>2. QED
      BY <1>6, <1>7, <1>11, <2>1 DEF TakeError
  <1>12. CASE TakeResult
    <2>1. PICK r \in In(toDisplay) : r = Head(toDisplay) /\ r.verb = "result"
      <3>1. LET x == Head(toDisplay)
            IN  x.verb = "result" /\ In(toDisplay) = {x} \union In(toDisplay')
        BY <1>12, Arrived DEF TakeResult
      <3>2. QED
        BY <3>1
    <2>2. /\ toDisplay # <<>> /\ toDisplay' = Tail(toDisplay)
          /\ UNCHANGED <<made, waiting>> /\ \A q : Sent(q)' = Sent(q)
      BY <1>12 DEF TakeResult, Arrives, Sent
    <2>3. /\ Addressed(r.n) = {r.of} \intersect live /\ r.of \in Scopes
          /\ r.place # 0 \/ r.end # ""
      BY <1>12, <2>1, TakenByItsOwn, OfOneTaken DEF TakeResult, Stamped
    <2>4. \/ r.of \notin live /\ UNCHANGED <<live, got>>
          \/ /\ r.of \in live
             /\ got' = IF r.place = 0 THEN got
                         ELSE [got EXCEPT ![r.of] = Append(@, <<r.of, r.place>>)]
             /\ live' = IF r.end = "" THEN live ELSE live \ {r.of}
      <3>1. \/ Addressed(r.n) = {} /\ UNCHANGED <<live, got>>
            \/ \E q \in Addressed(r.n) :
                 /\ got' = IF r.place = 0 THEN got
                             ELSE [got EXCEPT ![q] = Append(@, <<r.of, r.place>>)]
                 /\ IF r.end = "" THEN live' = live ELSE FinishWith({q}, r.end)
        BY <1>12, <2>1, ResultDoes
      <3>2. CASE Addressed(r.n) = {} /\ UNCHANGED <<live, got>>
        BY <2>3, <3>2
      <3>3. ASSUME NEW q \in Addressed(r.n),
                   /\ got' = IF r.place = 0 THEN got
                               ELSE [got EXCEPT ![q] = Append(@, <<r.of, r.place>>)]
                   /\ IF r.end = "" THEN live' = live ELSE FinishWith({q}, r.end)
            PROVE  /\ r.of \in live
                   /\ got' = IF r.place = 0 THEN got
                               ELSE [got EXCEPT ![r.of] = Append(@, <<r.of, r.place>>)]
                   /\ live' = IF r.end = "" THEN live ELSE live \ {r.of}
        <4>1. q = r.of /\ q \in live
          BY <2>3, <3>3
        <4>2. r.end # "" => live' = live \ {q}
          BY <1>7, <3>3, <4>1
        <4>3. QED
          BY <3>3, <4>1, <4>2
      <3>4. QED
        BY <3>1, <3>2, <3>3
    <2>5. ASSUME NEW q \in live'
          PROVE  Len(got'[q]) <= Sent(q) /\ Runs(toDisplay', q, Len(got'[q]), Sent(q))
      <3>1. q \in live /\ q \in Scopes
        BY <1>1, <2>4, <2>5
      <3>2. /\ Len(got[q]) <= Sent(q) /\ Runs(toDisplay, q, Len(got[q]), Sent(q))
            /\ Len(got[q]) \in Nat /\ Sent(q) \in Nat
        BY <1>2, <1>3, <3>1
      <3>3. CASE q # r.of
        <4>1. got'[q] = got[q] /\ ~IsOf(Head(toDisplay), q)
          BY <1>1, <2>1, <2>4, <3>1, <3>3 DEF IsOf
        <4>2. QED
          BY <1>1, <2>2, <3>2, <4>1, RunsTail
      <3>4. CASE q = r.of
        <4>1. r.end = "" /\ r.place # 0 /\ got'[q] = Append(got[q], <<r.of, r.place>>)
          BY <1>1, <2>3, <2>4, <2>5, <3>1, <3>4
        <4>2. IsOf(Head(toDisplay), q)
          BY <2>1, <3>4 DEF IsOf
        <4>3. /\ Len(got[q]) + 1 <= Sent(q)
              /\ Runs(toDisplay', q, Len(got[q]) + 1, Sent(q))
          BY <1>1, <2>1, <2>2, <3>2, <4>1, <4>2, RunsTail
        <4>4. Len(got'[q]) = Len(got[q]) + 1
          <5>1. got[q] \in Seq(Scopes \X (1..MaxRecords))
            BY <1>1, <3>1
          <5>2. r.place \in 0..MaxRecords
            BY <2>1, OfOneTaken
          <5>3. <<r.of, r.place>> \in Scopes \X (1..MaxRecords)
            BY <2>3, <4>1, <5>2, Places
          <5>4. Len(Append(got[q], <<r.of, r.place>>)) = Len(got[q]) + 1
            BY <5>1, <5>3, AppendProperties
          <5>5. QED
            BY <4>1, <5>4
        <4>5. QED
          BY <4>3, <4>4
      <3>5. QED
        BY <3>3, <3>4
    <2>6. QED
      BY <2>2, <2>5 DEF Stream
  <1>13. ASSUME NEW s \in Sources, Provide(s) PROVE Stream'
    BY <1>4, <1>13 DEF Provide
  <1>14. CASE TakeNew
    <2>1. minted + 1 \in Numbers
      BY <1>14, Taking, NextNumber DEF TakeNew, TakeUp, TurnDown
    <2>2. UNCHANGED <<got, made, waiting, live>>
          /\ \E x \in {Reply(minted + 1), Error} : toDisplay' = Append(toDisplay, x)
      BY <1>14 DEF TakeNew, TakeUp, TurnDown
    <2>3. Reply(minted + 1) \in ToDisplay /\ Error \in ToDisplay
      BY <2>1, AnswersAre
    <2>4. Reply(minted + 1).verb # "result" /\ Error.verb # "result"
      BY DEF Reply, Error
    <2>5. QED
      BY <1>5, <2>2, <2>3, <2>4
  <1>15. CASE TakeDestroy
    <2>1. UNCHANGED <<got, made, waiting, live>>
          /\ \E x \in {Reply(0), Error} : toDisplay' = Append(toDisplay, x)
      BY <1>15 DEF TakeDestroy
    <2>2. Reply(0) \in ToDisplay /\ Error \in ToDisplay
      BY AnswersAre
    <2>3. Reply(0).verb # "result" /\ Error.verb # "result"
      BY DEF Reply, Error
    <2>4. QED
      BY <1>5, <2>1, <2>2, <2>3
  <1>16. \A m, n \in Nat : m <= n => m <= n + 1
    OBVIOUS
  <1>17. ASSUME NEW q \in Scopes, q \in waiting \/ fate[q] = "open",
                NEW end \in {""} \union Endings, NEW place, place = 0 \/ place = made[q],
                toDisplay' = Append(toDisplay, Result(q, place, end)),
                UNCHANGED <<live, got>>,
                \/ place = 0 /\ Sent(q)' = Sent(q)
                \/ place = Sent(q) + 1 /\ Sent(q)' = Sent(q) + 1,
                \A p \in Scopes : p # q => Sent(p)' = Sent(p)
         PROVE  Stream'
    <2> DEFINE x == Result(q, place, end)
    <2>1. x \in ToDisplay /\ x.verb = "result" /\ x.of = q /\ x.place = place
      BY <1>17, SentIs DEF Result
    <2>2. fate[q] = "open"
      BY <1>17 DEF Kept, Taken
    <2>3. ASSUME NEW y \in In(toDisplay), IsOf(y, q) PROVE y.end = ""
      <3>1. y \in ToDisplay /\ y.verb = "result" /\ y.of = q
        BY <2>3, UnderWay DEF IsOf
      <3>2. y.end \in {""} \union Endings /\ (y.end # "" => y.end = "open")
        BY <2>2, <3>1 DEF Stamped, ToDisplay
      <3>3. QED
        BY <3>2 DEF Endings
    <2> HIDE DEF x
    <2>4. toDisplay' = Append(toDisplay, x)
      BY <1>17 DEF x
    <2>5. ASSUME NEW p \in live, p # q
          PROVE  Len(got[p]) <= Sent(p)' /\ Runs(toDisplay', p, Len(got[p]), Sent(p)')
      <3>1. ~IsOf(x, p)
        BY <2>1, <2>5 DEF IsOf
      <3>2. Sent(p)' = Sent(p) /\ p \in Scopes
        BY <1>1, <1>17, <2>5
      <3>3. QED
        BY <1>1, <1>2, <1>3, <2>1, <2>4, <3>1, <3>2, RunsOn
    <2>6. ASSUME q \in live
          PROVE  Len(got[q]) <= Sent(q)' /\ Runs(toDisplay', q, Len(got[q]), Sent(q)')
      <3>1. IsOf(x, q)
        BY <2>1 DEF IsOf
      <3>2. Len(got[q]) <= Sent(q) /\ Len(got[q]) \in Nat /\ Sent(q) \in Nat
        BY <1>2, <1>3, <2>6
      <3>3. /\ x.place = 0 => Runs(toDisplay', q, Len(got[q]), Sent(q))
            /\ x.place = Sent(q) + 1 => Runs(toDisplay', q, Len(got[q]), Sent(q) + 1)
        BY <1>1, <1>3, <2>1, <2>3, <2>4, <2>6, <3>1, <3>2, RunsOn
      <3>4. CASE place = 0 /\ Sent(q)' = Sent(q)
        BY <2>1, <3>2, <3>3, <3>4
      <3>5. CASE place = Sent(q) + 1 /\ Sent(q)' = Sent(q) + 1
        <4>1. Runs(toDisplay', q, Len(got[q]), Sent(q) + 1)
          BY <2>1, <3>3, <3>5
        <4>2. Len(got[q]) <= Sent(q) + 1
          BY <1>16, <3>2
        <4>3. QED
          BY <3>5, <4>1, <4>2
      <3>6. QED
        BY <1>17, <3>4, <3>5
    <2>7. QED
      BY <1>17, <2>5, <2>6 DEF Stream
  <1>18. ASSUME NEW q \in Scopes, Record(q) PROVE Stream'
    <2>1. /\ UNCHANGED <<live, got>> /\ fate[q] = "open"
          /\ made' = [made EXCEPT ![q] = @ + 1] /\ waiting' = waiting \union {q}
      BY <1>18 DEF Record
    <2>2. /\ \A p \in Scopes : p # q => Sent(p)' = Sent(p)
          /\ Sent(q)' = made[q]
      <3>1. \A p \in Scopes : p # q => made'[p] = made[p] /\ (p \in waiting' <=> p \in waiting)
        BY <1>1, <2>1
      <3>2. made'[q] = made[q] + 1 /\ q \in waiting'
        BY <1>1, <2>1
      <3>3. Sent(q)' = made[q]
        BY <1>2, <3>2 DEF Sent
      <3>4. QED
        BY <3>1, <3>3 DEF Sent
    <2>3. CASE q \in waiting
      <3>1. toDisplay' = Append(toDisplay, Result(q, made[q], ""))
        BY <1>18, <2>3 DEF Record, SendHeld
      <3>2. made[q] = Sent(q) + 1
        BY <1>2, <2>3 DEF Sent
      <3>3. QED
        BY <1>17, <2>1, <2>2, <3>1, <3>2
    <2>4. CASE q \notin waiting
      <3>1. toDisplay' = toDisplay
        BY <1>18, <2>4 DEF Record, SendHeld
      <3>2. \A p \in Scopes : Sent(p)' = Sent(p)
        BY <2>2, <2>4 DEF Sent
      <3>3. QED
        BY <1>1, <1>3, <2>1, <3>1, <3>2 DEF Stream
    <2>5. QED
      BY <2>3, <2>4
  <1>19. ASSUME NEW q \in Scopes, Flush(q) PROVE Stream'
    <2>1. /\ UNCHANGED <<live, got, made>> /\ q \in waiting /\ waiting' = waiting \ {q}
          /\ toDisplay' = Append(toDisplay, Result(q, made[q], ""))
      BY <1>19 DEF Flush, SendHeld
    <2>2. /\ \A p \in Scopes : p # q => Sent(p)' = Sent(p)
          /\ Sent(q)' = made[q] /\ made[q] = Sent(q) + 1
      <3>1. \A p \in Scopes : p # q => (p \in waiting' <=> p \in waiting)
        BY <2>1
      <3>2. made[q] = Sent(q) + 1
        <4>1. made[q] \in Nat /\ q \in waiting
          BY <1>2, <2>1
        <4>2. QED
          BY <4>1 DEF Sent
      <3>3. QED
        BY <2>1, <3>1, <3>2 DEF Sent
    <2>3. QED
      BY <1>17, <2>1, <2>2
  <1>20. ASSUME NEW q \in Scopes, NEW how \in Endings, Finish(q, how) PROVE Stream'
    <2>1. /\ UNCHANGED <<live, got, made>> /\ fate[q] = "open" /\ waiting' = waiting \ {q}
          /\ toDisplay' = Append(toDisplay, Result(q, LastOf(q), how))
      BY <1>20 DEF Finish
    <2>2. \A p \in Scopes : p # q => Sent(p)' = Sent(p)
      BY <1>1, <2>1 DEF Sent
    <2>3. Sent(q)' = made[q]
      BY <2>1 DEF Sent
    <2>4. \/ LastOf(q) = 0 /\ made[q] = Sent(q)
          \/ LastOf(q) = made[q] /\ made[q] = Sent(q) + 1
      BY <1>2 DEF LastOf, Sent
    <2>5. QED
      BY <1>17, <2>1, <2>2, <2>3, <2>4
  <1>21. QED
    BY <1>8, <1>9, <1>10, <1>11, <1>12, <1>13, <1>14, <1>15, <1>18, <1>19, <1>20 DEF Next

\* What holds as long as InOneLine does.
Orderly == Kept /\ InTurn /\ Stamped /\ NamedTrue /\ Stream

\* The initial states satisfy it.
LEMMA OrderlyInit == Init => Orderly
  <1> SUFFICES ASSUME Init PROVE Orderly
    OBVIOUS
  <1>1. Kept /\ Awaiting = {} /\ News = {} /\ toDisplay = <<>> /\ queries = {} /\ live = {}
    BY KeptInit DEF Init, Awaiting, News, In
  <1>2. Answering(<<>>)
    <2>1. <<>> \in Seq({0} \union Scopes) /\ DOMAIN toDisplay = {}
      BY <1>1, EmptySeq
    <2>2. QED
      BY <1>1, <2>1 DEF Answering
  <1>3. Stamped /\ Stream /\ NamedTrue
    BY <1>1 DEF Init, Stamped, Stream, NamedTrue, In
  <1>4. QED
    BY <1>1, <1>2, <1>3 DEF Orderly, InTurn

\* So does a step that changes nothing.
LEMMA OrderlyStays == Orderly /\ UNCHANGED vars => Orderly'
  <1> SUFFICES ASSUME Orderly, UNCHANGED vars PROVE Orderly'
    OBVIOUS
  <1>1. Kept'
    BY KeptStays DEF Orderly
  <1>2. News' = News /\ Awaiting' = Awaiting /\ In(toDisplay') = In(toDisplay) /\ In(toApp') = In(toApp)
    BY DEF News, Awaiting, In
  <1>3. InTurn'
    <2>1. PICK f : Answering(f)
      BY DEF Orderly, InTurn
    <2>2. Answering(f)'
      BY <1>2, <2>1, TurnStays
    <2>3. QED
      BY <2>2 DEF InTurn
  <1>4. Stamped' /\ NamedTrue'
    BY <1>2 DEF Orderly, Stamped, NamedTrue
  <1>5. Stream'
    <2>1. \A q : Sent(q)' = Sent(q)
      BY DEF Sent
    <2>2. QED
      BY <2>1 DEF Orderly, Stream
  <1>6. QED
    BY <1>1, <1>3, <1>4, <1>5 DEF Orderly

\* It holds as long as InOneLine does.
LEMMA AlwaysOrderly == Spec /\ []InOneLine => []Orderly
  <1>1. Orderly /\ InOneLine /\ InOneLine' /\ [Next]_vars => Orderly'
    <2>1. ASSUME Orderly, InOneLine, InOneLine', Next PROVE Orderly'
      <3>1. Kept'
        BY <2>1, TypeStep, OutstandingStep, TakenStep, ComingStep, OnceStep DEF Orderly, Kept
      <3>2. InTurn' /\ Stamped' /\ NamedTrue' /\ Stream'
        BY <2>1, InTurnStep, StampedStep, NamedStep, StreamStep DEF Orderly
      <3>3. QED
        BY <3>1, <3>2 DEF Orderly
    <2>2. QED
      BY <2>1, OrderlyStays
  <1>2. QED
    BY <1>1, OrderlyInit, PTL DEF Spec

-----------------------------------------------------------------------------
\* The initial states are initial states of Answers.
LEMMA PromiseInit == Init => A!Init
  <1>1. 1..0 = {}
    OBVIOUS
  <1>2. QED
    BY <1>1 DEF Init, A!Init

\* Each step is one of Answers, or none of its business: Read is Ask, CloseSet is
\* HangUp, TakeNew is TakeUp, Record is Produce, Finish is Finish, and taking an
\* error or a result is Deliver.
LEMMA PromiseStep ==
  ASSUME Orderly, InOneLine, Next
  PROVE  A!Next \/ UNCHANGED <<1..asked, fate, made, got, ended>>
  <1> DEFINE Stutter == UNCHANGED <<1..asked, fate, made, got, ended>>
  <1>1. /\ toDisplay \in Seq(ToDisplay) /\ live \subseteq Scopes /\ waiting \subseteq Scopes
        /\ made \in [Scopes -> 0..MaxRecords]
        /\ got \in [Scopes -> Seq(Scopes \X (1..MaxRecords))]
        /\ fate \in [Scopes -> {"none", "open", "refused"} \union Endings]
        /\ ended \in [Scopes -> {"no", "closed", "refused"} \union Endings]
        /\ \A q \in live : ended[q] = "no" /\ q \in 1..asked
        /\ Kept /\ InTurn /\ Stamped /\ NamedTrue /\ Stream
    BY DEF Orderly, Kept, TypeOK, Outstanding
  <1>2. ASSUME NEW Q \in SUBSET live, NEW how, FinishWith(Q, how)
        PROVE  ended' = [q \in Scopes |-> IF q \in Q THEN how ELSE ended[q]]
    <2>1. Kept
      BY <1>1
    <2>2. QED
      BY <1>2, <2>1, FinishWithDoes
  <1>3. ASSUME NEW t \in Sets, Read(t) PROVE A!Next
    <2>1. /\ asked + 1 \in Scopes /\ asked \in Nat
          /\ asked' = asked + 1 /\ UNCHANGED <<fate, made, got, ended>>
      BY <1>1, <1>3, QueriesAssumption DEF Read, Kept, TypeOK, Scopes
    <2>2. 1..(asked + 1) = 1..asked \union {asked + 1} /\ asked + 1 \notin 1..asked
      BY <2>1
    <2>3. A!Ask(asked + 1)
      BY <2>1, <2>2 DEF A!Ask
    <2>4. QED
      BY <2>1, <2>3 DEF A!Next
  <1>4. ASSUME NEW t \in Sets, CloseSet(t) PROVE A!Next
    <2>1. Of(t) \in SUBSET live /\ Of(t) \in SUBSET Scopes
      BY <1>1 DEF Of
    <2>2. /\ FinishWith(Of(t), "closed") /\ UNCHANGED <<asked, fate, made, got>>
      BY <1>4 DEF CloseSet
    <2>3. ended' = [q \in Scopes |-> IF q \in Of(t) THEN "closed" ELSE ended[q]]
      BY <1>2, <2>1, <2>2
    <2>4. A!HangUp(Of(t))
      <3>1. PICK Q \in SUBSET live : Q = Of(t)
        BY <2>1
      <3>2. A!HangUp(Q)
        BY <1>1, <2>2, <2>3, <3>1 DEF A!HangUp
      <3>3. QED
        BY <3>1, <3>2
    <2>5. QED
      BY <2>1, <2>4 DEF A!Next
  <1>5. CASE TakeReply
    BY <1>5 DEF TakeReply
  <1>6. CASE TakeError
    <2>1. PICK f : Answering(f)
      BY <1>1 DEF InTurn
    <2>2. /\ toDisplay # <<>> /\ toDisplay[1].verb = "error" /\ 1 \in DOMAIN toDisplay
      <3>1. toDisplay # <<>> /\ Head(toDisplay).verb = "error"
        BY <1>6 DEF TakeError, Arrives
      <3>2. QED
        BY <1>1, <3>1, TailIs
    <2>3. f[1] # 0 /\ fate[f[1]] = "refused"
      BY <2>1, <2>2 DEF Answering, IsAnswer
    <2>4. PICK q \in live : q = f[1] /\ FinishWith({q}, "refused") /\ q \in Scopes
      <3>1. f[1] \in live /\ f[1] \in Scopes /\ Takers # {} /\ \A s \in Takers : FirstUnnamed(s) = f[1]
        BY <1>1, <2>1, <2>2, <2>3, FirstAnswered DEF Awaiting
      <3>2. QED
        BY <1>1, <1>6, <3>1, ErrorDoes
    <2>5. /\ ended' = [p \in Scopes |-> IF p \in {q} THEN "refused" ELSE ended[p]]
          /\ UNCHANGED <<asked, fate, made, got>>
      BY <1>2, <1>6, <2>4 DEF TakeError
    <2>6. ended' = [ended EXCEPT ![q] = fate[q]]
      BY <1>1, <2>3, <2>4, <2>5
    <2>7. made[q] = 0 /\ fate[q] # "open"
      BY <1>1, <2>3, <2>4 DEF Kept, Taken, TakenUp, Endings
    <2>8. Len(got[q]) = 0
      <3>1. Sent(q) = 0 /\ Len(got[q]) \in Nat
        BY <1>1, <2>4, <2>7, SentIsNat
      <3>2. Len(got[q]) <= Sent(q)
        BY <1>1 DEF Stream
      <3>3. QED
        BY <3>1, <3>2
    <2>9. got = [got EXCEPT ![q] = got[q]]
      BY <1>1
    <2>10. fate[q] \in {"complete", "error", "refused"}
      BY <2>3, <2>4
    <2>11. A!Deliver(q, FALSE, TRUE)
      BY <1>1, <2>4, <2>5, <2>6, <2>7, <2>8, <2>9, <2>10 DEF A!Deliver, A!Finished
    <2>12. QED
      BY <2>4, <2>11 DEF A!Next
  <1>7. CASE TakeResult
    <2>1. PICK r \in In(toDisplay) : r = Head(toDisplay) /\ r.verb = "result" /\ r \in ToDisplay
      <3>1. LET x == Head(toDisplay)
            IN  x \in ToDisplay /\ x.verb = "result" /\ In(toDisplay) = {x} \union In(toDisplay')
        BY <1>1, <1>7, Arrived DEF TakeResult
      <3>2. QED
        BY <3>1
    <2>2. toDisplay # <<>> /\ UNCHANGED <<asked, fate, made>>
      BY <1>7 DEF TakeResult, Arrives
    <2>3. /\ Addressed(r.n) = {r.of} \intersect live /\ r.of \in Scopes
          /\ r.place # 0 \/ r.end # ""
          /\ r.end # "" => r.end = fate[r.of]
          /\ r.end \in {""} \union Endings
      BY <1>1, <1>7, <2>1, TakenByItsOwn, OfOneTaken DEF TakeResult, Stamped, ToDisplay
    <2>4. CASE Addressed(r.n) = {}
      BY <1>7, <2>1, <2>2, <2>4, ResultDoes, <1>1
    <2>5. CASE r.of \in live
      <3>1. PICK q \in live : q = r.of /\ q \in Scopes
        BY <2>3, <2>5
      <3>2. /\ got' = IF r.place = 0 THEN got
                        ELSE [got EXCEPT ![q] = Append(@, <<q, r.place>>)]
            /\ IF r.end = "" THEN UNCHANGED ended ELSE FinishWith({q}, r.end)
        <4>1. Addressed(r.n) = {q}
          BY <2>3, <3>1
        <4>2. QED
          BY <1>1, <1>7, <2>1, <3>1, <4>1, ResultDoes
      <3>3. ended' = [ended EXCEPT ![q] = IF r.end # "" THEN fate[q] ELSE @]
        <4>1. CASE r.end = ""
          BY <1>1, <3>2, <4>1
        <4>2. CASE r.end # ""
          <5>1. ended' = [p \in Scopes |-> IF p \in {q} THEN r.end ELSE ended[p]]
            <6>1. FinishWith({q}, r.end) /\ {q} \in SUBSET live
              BY <3>2, <4>2
            <6>2. QED
              BY <1>2, <6>1
          <5>2. QED
            BY <1>1, <2>3, <3>1, <4>2, <5>1
        <4>3. QED
          BY <4>1, <4>2
      <3>4. /\ Len(got[q]) \in Nat /\ Sent(q) \in Nat /\ made[q] \in Nat /\ Len(got[q]) <= Sent(q)
            /\ Runs(toDisplay, q, Len(got[q]), Sent(q)) /\ IsOf(Head(toDisplay), q)
        BY <1>1, <2>1, <3>1, SentIsNat DEF Stream, IsOf
      <3>5. /\ r.place # 0 => r.place = Len(got[q]) + 1 /\ Len(got[q]) + 1 <= Sent(q)
            /\ r.end # "" => Sent(q) = IF r.place # 0 THEN Len(got[q]) + 1 ELSE Len(got[q])
        BY <1>1, <2>1, <2>2, <3>4, RunsTail
      <3>6. Sent(q) <= made[q]
        BY <3>4 DEF Sent
      <3>7. r.end # "" => fate[q] \in {"complete", "error", "refused"} /\ Sent(q) = made[q]
        <4>1. r.end # "" => fate[q] \in Endings
          BY <2>3, <3>1
        <4>2. fate[q] \in Endings => fate[q] # "open" /\ fate[q] \in {"complete", "error", "refused"}
          BY DEF Endings
        <4>3. QED
          BY <1>1, <3>1, <4>1, <4>2, SentIsNat
      <3>8. got' = [got EXCEPT ![q] = IF r.place # 0 THEN Append(@, <<q, Len(@) + 1>>) ELSE @]
        BY <1>1, <3>1, <3>2, <3>5
      <3>9. Len(got'[q]) = IF r.place # 0 THEN Len(got[q]) + 1 ELSE Len(got[q])
        <4>1. CASE r.place = 0
          BY <3>2, <4>1
        <4>2. CASE r.place # 0
          <5>1. r.place \in 1..MaxRecords
            BY <1>1, <2>1, <4>2, OfOneTaken, Places
          <5>2. <<q, r.place>> \in Scopes \X (1..MaxRecords)
            BY <3>1, <5>1
          <5>3. Len(Append(got[q], <<q, r.place>>)) = Len(got[q]) + 1
            BY <1>1, <3>1, <5>2, AppendProperties
          <5>4. QED
            BY <1>1, <3>1, <3>2, <4>2, <5>3
        <4>3. QED
          BY <4>1, <4>2
      <3>10. PICK more \in BOOLEAN, end \in BOOLEAN : more = (r.place # 0) /\ end = (r.end # "")
        OBVIOUS
      <3>11. /\ more \/ end
             /\ ended[q] = "no"
             /\ more => Len(got[q]) < made[q]
             /\ end => fate[q] \in {"complete", "error", "refused"} /\ Len(got'[q]) = made[q]
        <4>1. (more \/ end) /\ ended[q] = "no"
          BY <1>1, <2>3, <3>1, <3>10
        <4>2. more => Len(got[q]) < made[q]
          <5>1. more => Len(got[q]) + 1 <= Sent(q)
            BY <3>5, <3>10
          <5>2. QED
            BY <3>4, <3>6, <5>1
        <4>3. end => fate[q] \in {"complete", "error", "refused"} /\ Len(got'[q]) = made[q]
          BY <3>5, <3>7, <3>9, <3>10
        <4>4. QED
          BY <4>1, <4>2, <4>3
      <3>12. /\ got' = [got EXCEPT ![q] = IF more THEN Append(@, <<q, Len(@) + 1>>) ELSE @]
             /\ ended' = [ended EXCEPT ![q] = IF end THEN fate[q] ELSE @]
        BY <3>3, <3>8, <3>10
      <3>13. A!Deliver(q, more, end)
        BY <2>2, <3>11, <3>12 DEF A!Deliver, A!Finished
      <3>14. QED
        BY <3>1, <3>10, <3>13 DEF A!Next
    <2>6. QED
      BY <2>3, <2>4, <2>5
  <1>8. ASSUME NEW s \in Sources, Provide(s) PROVE Stutter
    BY <1>8 DEF Provide
  <1>9. CASE TakeNew
    <2>1. PICK q \in Scopes : q = Head(toApp).of /\ New(q) \in In(toApp)
      BY <1>1, <1>9, Taking DEF TakeNew, TakeUp, TurnDown
    <2>2. q <= asked /\ fate[q] = "none" /\ q \in 1..asked
      <3>1. q <= asked /\ fate[q] = "none"
        BY <1>1, <2>1, NextNumber
      <3>2. QED
        BY <1>1, <3>1 DEF Scopes, Kept, TypeOK
    <2>3. /\ UNCHANGED <<asked, made, got, ended>>
          /\ \E how \in {"open", "refused"} : fate' = [fate EXCEPT ![q] = how]
      BY <1>9, <2>1 DEF TakeNew, TakeUp, TurnDown
    <2>4. \E how \in {"open", "refused"} : A!TakeUp(q, how)
      BY <2>2, <2>3 DEF A!TakeUp
    <2>5. QED
      BY <2>1, <2>4 DEF A!Next
  <1>10. CASE TakeDestroy
    BY <1>10 DEF TakeDestroy
  <1>11. ASSUME NEW q \in Scopes, Record(q) PROVE A!Next
    <2>1. A!Produce(q)
      BY <1>11 DEF Record, A!Produce
    <2>2. QED
      BY <2>1 DEF A!Next
  <1>12. ASSUME NEW q \in Scopes, Flush(q) PROVE Stutter
    BY <1>12 DEF Flush
  <1>13. ASSUME NEW q \in Scopes, NEW how \in Endings, Finish(q, how) PROVE A!Next
    <2>1. how \in {"complete", "error"}
      BY DEF Endings
    <2>2. A!Finish(q, how)
      BY <1>13, <2>1 DEF Finish, A!Finish
    <2>3. QED
      BY <2>1, <2>2 DEF A!Next
  <1>14. QED
    BY <1>3, <1>4, <1>5, <1>6, <1>7, <1>8, <1>9, <1>10, <1>11, <1>12, <1>13 DEF Next

\* As long as the scopes that wait to be named are of one source and none of them
\* is let go, each reader gets its own records, all of them and in order, and then
\* the end, however questions, answers and destroys interleave: application.go's
\* half and query.go's together implement Answers.
THEOREM ThePromiseIsKept == Spec /\ []InOneLine => KeepsThePromise
  <1>1. Orderly /\ InOneLine /\ [Next]_vars => [A!Next]_A!avars
    <2>1. ASSUME Orderly, InOneLine, Next PROVE A!Next \/ UNCHANGED A!avars
      BY <2>1, PromiseStep DEF A!avars
    <2>2. ASSUME UNCHANGED vars PROVE UNCHANGED A!avars
      BY <2>2 DEF A!avars
    <2>3. QED
      BY <2>1, <2>2
  <1>2. QED
    BY <1>1, PromiseInit, AlwaysOrderly, PTL DEF Spec, KeepsThePromise, A!Spec
=============================================================================
