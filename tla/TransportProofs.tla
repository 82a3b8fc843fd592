--------------------------- MODULE TransportProofs ---------------------------
(***************************************************************************)
(* A reply says nothing of the batch it answers, and Exec returns the      *)
(* right one.  Why: the batch of whoever holds the writer, or its reply,   *)
(* is in one place of the connection at most, and no other batch is in     *)
(* any (Pipeline).  Once the reader has ended nothing more is routed, and  *)
(* what is in the pipeline no longer matters.                              *)
(*                                                                         *)
(* Then the types; that a lane is given what was said on it in order, by   *)
(* following it through all the places it passes (Ordered); and that what  *)
(* was queued when a connection is hung up on still goes, by the order in  *)
(* which the ends of the connection stop (Unhurried).                      *)
(***************************************************************************)
EXTENDS Transport, SequenceTheorems, TLAPS

\* The groups of variables are expanded throughout: they only say what stays.
USE DEF vars, client, goroutines, reader, socket, display, history

-----------------------------------------------------------------------------
\* The inductive invariant.

Words == [to : {Reply, Goodbye} \union Lanes, n : Nat]

Shape ==
  /\ at \in [Goroutines -> {"idle", "handling", "wants", "awaits", "answers"}]
  /\ call \in [Goroutines -> Nat]
  /\ got \in [Calls -> Nat]
  /\ calls \in Nat /\ running \in Nat
  /\ said \in [Lanes -> Nat]
  /\ up \in Seq(Nat) /\ out \in Seq(Words) /\ down \in Seq(Words)

\* No reply in a sequence of lines; or only that of n, once.
Bare(s) == \A i \in DOMAIN s : s[i].to # Reply
Holds(s, n) ==
  /\ \A i \in DOMAIN s : s[i].to = Reply => s[i].n = n
  /\ \A i, j \in DOMAIN s : s[i].to = Reply /\ s[j].to = Reply => i = j

\* The same of what is on its way to the display, where 0 is no batch.
BareUp(s) == \A i \in DOMAIN s : s[i] = 0
HoldsUp(s, n) ==
  /\ \A i \in DOMAIN s : s[i] \in {0, n}
  /\ \A i, j \in DOMAIN s : s[i] # 0 /\ s[j] # 0 => i = j

\* Batch n, or its reply, is in this one place, or nowhere.
Sent(n) == HoldsUp(up, n) /\ running = 0 /\ Bare(out) /\ Bare(down) /\ replies = <<>>
Runs(n) == BareUp(up) /\ running = n /\ Bare(out) /\ Bare(down) /\ replies = <<>>
Queued(n) == BareUp(up) /\ running = 0 /\ Holds(out, n) /\ Bare(down) /\ replies = <<>>
Travels(n) == BareUp(up) /\ running = 0 /\ Bare(out) /\ Holds(down, n) /\ replies = <<>>
Routed(n) == BareUp(up) /\ running = 0 /\ Bare(out) /\ Bare(down) /\ replies = <<n>>

Clean == BareUp(up) /\ running = 0 /\ Bare(out) /\ Bare(down) /\ replies = <<>>
Pipe(n) == Sent(n) \/ Runs(n) \/ Queued(n) \/ Travels(n) \/ Routed(n)

Pipeline ==
  ~heard => /\ writeMu = Nobody => Clean
            /\ writeMu # Nobody => Pipe(call[writeMu])

\* The writer is held by the one goroutine that awaits a reply, for its batch.
Writer ==
  /\ writeMu \in Goroutines \union {Nobody}
  /\ \A g \in Goroutines : at[g] = "awaits" <=> writeMu = g
  /\ \A g \in Goroutines : at[g] \in {"wants", "awaits"} => call[g] \in Calls

\* A reply on the channel is the writer's; and nothing is sent once the reader
\* has ended.
Replies == replies # <<>> => writeMu # Nobody /\ replies = <<call[writeMu]>>
Ended == heard => ~appEnd

IInv == Shape /\ Writer /\ Pipeline /\ Replies /\ Ended /\ ReplyIsOwn

-----------------------------------------------------------------------------
\* What the operations on sequences leave of Bare and Holds.

LEMMA BareHolds == ASSUME NEW s, NEW n, Bare(s) PROVE Holds(s, n)
  BY DEF Bare, Holds

LEMMA AppendLine ==
  ASSUME NEW s \in Seq(Words), NEW x \in Words
  PROVE  /\ Append(s, x) \in Seq(Words)
         /\ x.to # Reply /\ Bare(s) => Bare(Append(s, x))
         /\ \A n : x.to # Reply /\ Holds(s, n) => Holds(Append(s, x), n)
         /\ \A n : Bare(s) /\ x.n = n => Holds(Append(s, x), n)
  <1> DEFINE t == Append(s, x)
  <1>1. /\ t \in Seq(Words) /\ Len(s) \in Nat
        /\ DOMAIN s = 1..Len(s) /\ DOMAIN t = 1..(Len(s) + 1)
        /\ \A i \in 1..Len(s) : t[i] = s[i]
        /\ t[Len(s) + 1] = x
    BY AppendProperties, LenProperties
  <1>2. \A i \in DOMAIN t : (i \in DOMAIN s /\ t[i] = s[i]) \/ (i = Len(s) + 1 /\ t[i] = x)
    BY <1>1
  <1> HIDE DEF t
  <1>3. x.to # Reply /\ Bare(s) => Bare(t)
    BY <1>2 DEF Bare
  <1>4. ASSUME NEW n, x.to # Reply, Holds(s, n) PROVE Holds(t, n)
    BY <1>2, <1>4 DEF Holds
  <1>5. ASSUME NEW n, Bare(s), x.n = n PROVE Holds(t, n)
    BY <1>2, <1>5 DEF Bare, Holds
  <1>6. QED
    BY <1>1, <1>3, <1>4, <1>5 DEF t

LEMMA TailLine ==
  ASSUME NEW s \in Seq(Words), s # <<>>
  PROVE  /\ Tail(s) \in Seq(Words) /\ Head(s) \in Words
         /\ Bare(s) => Bare(Tail(s)) /\ Head(s).to # Reply
         /\ \A n : Holds(s, n) => /\ Holds(Tail(s), n)
                                  /\ Head(s).to = Reply => Bare(Tail(s)) /\ Head(s).n = n
  <1> DEFINE t == Tail(s)
  <1>1. /\ t \in Seq(Words) /\ Head(s) \in Words /\ Len(s) \in Nat /\ Len(s) > 0
        /\ DOMAIN s = 1..Len(s) /\ DOMAIN t = 1..(Len(s) - 1)
        /\ \A i \in 1..(Len(s) - 1) : t[i] = s[i + 1]
        /\ Head(s) = s[1]
    BY HeadTailProperties, LenProperties, EmptySeq
  <1>2. \A i \in DOMAIN t : i \in Nat /\ i + 1 \in DOMAIN s /\ i + 1 # 1 /\ t[i] = s[i + 1]
    BY <1>1
  <1>3. 1 \in DOMAIN s
    BY <1>1
  <1> HIDE DEF t
  <1>4. Bare(s) => Bare(t) /\ Head(s).to # Reply
    BY <1>1, <1>2, <1>3 DEF Bare
  <1>5. ASSUME NEW n, Holds(s, n)
        PROVE  Holds(t, n) /\ (Head(s).to = Reply => Bare(t) /\ Head(s).n = n)
    <2>1. \A i, j \in DOMAIN t : t[i].to = Reply /\ t[j].to = Reply => i = j
      <3> SUFFICES ASSUME NEW i \in DOMAIN t, NEW j \in DOMAIN t,
                          t[i].to = Reply, t[j].to = Reply
                   PROVE  i = j
        OBVIOUS
      <3>1. i + 1 = j + 1
        BY <1>2, <1>5 DEF Holds
      <3>2. QED
        BY <1>2, <3>1
    <2>2. Holds(t, n)
      BY <1>2, <1>5, <2>1 DEF Holds
    <2>3. Head(s).to = Reply => Bare(t) /\ Head(s).n = n
      BY <1>1, <1>2, <1>3, <1>5 DEF Holds, Bare
    <2>4. QED
      BY <2>2, <2>3
  <1>6. QED
    BY <1>1, <1>4, <1>5 DEF t

LEMMA PrefixLine ==
  ASSUME NEW s \in Seq(Words), NEW t \in Prefixed(s)
  PROVE  /\ t \in Seq(Words)
         /\ Bare(s) => Bare(t)
         /\ \A n : Holds(s, n) => Holds(t, n)
  <1>1. PICK k \in 0..Len(s) : t = SubSeq(s, 1, k)
    BY DEF Prefixed
  <1>2. /\ t \in Seq(Words) /\ Len(s) \in Nat
        /\ DOMAIN s = 1..Len(s) /\ DOMAIN t = 1..k
        /\ \A i \in 1..k : t[i] = s[i]
    BY <1>1, SubSeqProperties, LenProperties
  <1>3. \A i \in DOMAIN t : i \in DOMAIN s /\ t[i] = s[i]
    BY <1>2
  <1>4. QED
    BY <1>2, <1>3 DEF Bare, Holds

LEMMA AppendUp ==
  ASSUME NEW s \in Seq(Nat), NEW x \in Nat
  PROVE  /\ Append(s, x) \in Seq(Nat)
         /\ BareUp(s) => HoldsUp(Append(s, x), x)
         /\ x = 0 /\ BareUp(s) => BareUp(Append(s, x))
         /\ \A n : x = 0 /\ HoldsUp(s, n) => HoldsUp(Append(s, x), n)
  <1> DEFINE t == Append(s, x)
  <1>1. /\ t \in Seq(Nat) /\ Len(s) \in Nat
        /\ DOMAIN s = 1..Len(s) /\ DOMAIN t = 1..(Len(s) + 1)
        /\ \A i \in 1..Len(s) : t[i] = s[i]
        /\ t[Len(s) + 1] = x
    BY AppendProperties, LenProperties
  <1>2. \A i \in DOMAIN t : (i \in DOMAIN s /\ t[i] = s[i]) \/ (i = Len(s) + 1 /\ t[i] = x)
    BY <1>1
  <1> HIDE DEF t
  <1>3. BareUp(s) => HoldsUp(t, x)
    BY <1>2 DEF BareUp, HoldsUp
  <1>4. x = 0 /\ BareUp(s) => BareUp(t)
    BY <1>2 DEF BareUp
  <1>5. ASSUME NEW n, x = 0, HoldsUp(s, n) PROVE HoldsUp(t, n)
    BY <1>2, <1>5 DEF HoldsUp
  <1>6. QED
    BY <1>1, <1>3, <1>4, <1>5 DEF t

LEMMA TailUp ==
  ASSUME NEW s \in Seq(Nat), s # <<>>
  PROVE  /\ Tail(s) \in Seq(Nat) /\ Head(s) \in Nat
         /\ BareUp(s) => BareUp(Tail(s)) /\ Head(s) = 0
         /\ \A n : HoldsUp(s, n) => /\ HoldsUp(Tail(s), n)
                                    /\ Head(s) # 0 => BareUp(Tail(s)) /\ Head(s) = n
  <1> DEFINE t == Tail(s)
  <1>1. /\ t \in Seq(Nat) /\ Head(s) \in Nat /\ Len(s) \in Nat /\ Len(s) > 0
        /\ DOMAIN s = 1..Len(s) /\ DOMAIN t = 1..(Len(s) - 1)
        /\ \A i \in 1..(Len(s) - 1) : t[i] = s[i + 1]
        /\ Head(s) = s[1]
    BY HeadTailProperties, LenProperties, EmptySeq
  <1>2. \A i \in DOMAIN t : i \in Nat /\ i + 1 \in DOMAIN s /\ i + 1 # 1 /\ t[i] = s[i + 1]
    BY <1>1
  <1>3. 1 \in DOMAIN s
    BY <1>1
  <1> HIDE DEF t
  <1>4. BareUp(s) => BareUp(t) /\ Head(s) = 0
    BY <1>1, <1>2, <1>3 DEF BareUp
  <1>5. ASSUME NEW n, HoldsUp(s, n)
        PROVE  HoldsUp(t, n) /\ (Head(s) # 0 => BareUp(t) /\ Head(s) = n)
    <2>1. \A i, j \in DOMAIN t : t[i] # 0 /\ t[j] # 0 => i = j
      <3> SUFFICES ASSUME NEW i \in DOMAIN t, NEW j \in DOMAIN t, t[i] # 0, t[j] # 0
                   PROVE  i = j
        OBVIOUS
      <3>1. i + 1 = j + 1
        BY <1>2, <1>5 DEF HoldsUp
      <3>2. QED
        BY <1>2, <3>1
    <2>2. HoldsUp(t, n)
      BY <1>2, <1>5, <2>1 DEF HoldsUp
    <2>3. Head(s) # 0 => BareUp(t) /\ Head(s) = n
      BY <1>1, <1>2, <1>3, <1>5 DEF HoldsUp, BareUp
    <2>4. QED
      BY <2>2, <2>3
  <1>6. QED
    BY <1>1, <1>4, <1>5 DEF t

LEMMA PrefixUp ==
  ASSUME NEW s \in Seq(Nat), NEW t \in Prefixed(s)
  PROVE  /\ t \in Seq(Nat)
         /\ BareUp(s) => BareUp(t)
         /\ \A n : HoldsUp(s, n) => HoldsUp(t, n)
  <1>1. PICK k \in 0..Len(s) : t = SubSeq(s, 1, k)
    BY DEF Prefixed
  <1>2. /\ t \in Seq(Nat) /\ Len(s) \in Nat
        /\ DOMAIN s = 1..Len(s) /\ DOMAIN t = 1..k
        /\ \A i \in 1..k : t[i] = s[i]
    BY <1>1, SubSeqProperties, LenProperties
  <1>3. \A i \in DOMAIN t : i \in DOMAIN s /\ t[i] = s[i]
    BY <1>2
  <1>4. QED
    BY <1>2, <1>3 DEF BareUp, HoldsUp

LEMMA NoUp == <<>> \in Seq(Nat) /\ BareUp(<<>>) /\ \A n : HoldsUp(<<>>, n)
  <1>1. <<>> \in Seq(Nat) /\ DOMAIN <<>> = {}
    BY EmptySeq
  <1>2. QED
    BY <1>1 DEF BareUp, HoldsUp

LEMMA NoLine == <<>> \in Seq(Words) /\ Bare(<<>>)
  <1>1. <<>> \in Seq(Words) /\ DOMAIN <<>> = {}
    BY EmptySeq
  <1>2. QED
    BY <1>1 DEF Bare

-----------------------------------------------------------------------------
\* What closing a socket and saying a line leave of the pipeline.

\* The step leaves every batch where the pipeline allows it.
Keeps ==
  /\ Clean => Clean'
  /\ \A n \in Calls : Pipe(n) => Pipe(n)'

WellShaped ==
  up' \in Seq(Nat) /\ running' \in Nat /\ down' \in Seq(Words) /\ out' \in Seq(Words)

\* The sockets lose, and gain nothing.
Loses ==
  /\ up' = up \/ up' \in Prefixed(up)
  /\ down' = down \/ down' \in Prefixed(down)

LEMMA Losses ==
  ASSUME Shape, Loses
  PROVE  /\ up' \in Seq(Nat) /\ down' \in Seq(Words)
         /\ BareUp(up) => BareUp(up')
         /\ \A n \in Calls : HoldsUp(up, n) => HoldsUp(up', n)
         /\ Bare(down) => Bare(down')
         /\ \A n \in Calls : Holds(down, n) => Holds(down', n)
  <1>1. up \in Seq(Nat) /\ down \in Seq(Words)
    BY DEF Shape
  <1>2. /\ up' \in Seq(Nat)
        /\ BareUp(up) => BareUp(up')
        /\ \A n \in Calls : HoldsUp(up, n) => HoldsUp(up', n)
    BY <1>1, PrefixUp DEF Loses
  <1>3. /\ down' \in Seq(Words)
        /\ Bare(down) => Bare(down')
        /\ \A n \in Calls : Holds(down, n) => Holds(down', n)
    BY <1>1, PrefixLine DEF Loses
  <1>4. QED
    BY <1>2, <1>3

LEMMA LosesKeeps ==
  ASSUME Shape, Loses, UNCHANGED <<replies, running, out>>
  PROVE  WellShaped /\ Keeps
  <1>1. WellShaped
    BY Losses DEF WellShaped, Shape
  <1>2. Clean => Clean'
    BY Losses DEF Clean
  <1>3. ASSUME NEW n \in Calls, Pipe(n) PROVE Pipe(n)'
    BY Losses, <1>3 DEF Pipe, Sent, Runs, Queued, Travels, Routed
  <1>4. QED
    BY <1>1, <1>2, <1>3 DEF Keeps

LEMMA CloseLoses == ASSUME NEW b, CloseSocket(b) PROVE Loses
  BY DEF CloseSocket, Loses

\* What the display says of its own accord is no reply.
LEMMA SayKeeps ==
  ASSUME Shape, NEW x \in Words, x.to # Reply, Say(x), UNCHANGED <<replies, running>>
  PROVE  WellShaped /\ Keeps
  <1>1. CASE UNCHANGED <<out, socket>>
    BY <1>1, LosesKeeps DEF Loses
  <1>2. CASE out' = Append(out, x) /\ UNCHANGED socket
    <2>1. /\ out' \in Seq(Words)
          /\ Bare(out) => Bare(out')
          /\ \A n : Holds(out, n) => Holds(out', n)
      BY <1>2, AppendLine DEF Shape
    <2>2. WellShaped
      BY <1>2, <2>1 DEF WellShaped, Shape
    <2>3. Clean => Clean'
      BY <1>2, <2>1 DEF Clean
    <2>4. ASSUME NEW n \in Calls, Pipe(n) PROVE Pipe(n)'
      BY <1>2, <2>1, <2>4 DEF Pipe, Sent, Runs, Queued, Travels, Routed
    <2>5. QED
      BY <2>2, <2>3, <2>4 DEF Keeps
  <1>3. CASE CloseSocket(FALSE) /\ UNCHANGED out
    BY <1>3, LosesKeeps, CloseLoses
  <1>4. QED
    BY <1>1, <1>2, <1>3 DEF Say

-----------------------------------------------------------------------------
\* Steps that leave the application's goroutines and its reader alone; and steps
\* that leave everything but these alone.

LEMMA FarStep ==
  ASSUME IInv, UNCHANGED client, WellShaped, Keeps, said' \in [Lanes -> Nat],
         appEnd' => appEnd
  PROVE  IInv'
  <1>1. Shape' /\ Writer' /\ Replies' /\ Ended' /\ ReplyIsOwn'
    BY DEF IInv, Shape, WellShaped, Writer, Replies, Ended, ReplyIsOwn
  <1>2. Pipeline'
    <2>1. CASE writeMu = Nobody
      BY <2>1 DEF IInv, Pipeline, Keeps
    <2>2. CASE writeMu # Nobody
      <3>1. PICK n \in Calls : n = call[writeMu]
        BY <2>2 DEF IInv, Writer
      <3>2. ~heard => Pipe(n)
        BY <2>2, <3>1 DEF IInv, Pipeline
      <3>3. ~heard' => Pipe(n)'
        BY <3>2 DEF Keeps
      <3>4. ~heard' => Pipe(call[writeMu])'
        BY <3>1, <3>3 DEF Pipe, Sent, Runs, Queued, Travels, Routed
      <3>5. QED
        BY <2>2, <3>4 DEF Pipeline
    <2>3. QED
      BY <2>1, <2>2
  <1>3. QED
    BY <1>1, <1>2 DEF IInv

\* Somebody else than the writer's holder moves on.
LEMMA NearStep ==
  ASSUME IInv, UNCHANGED <<writeMu, got, heard, replies, socket, display>>,
         calls' \in Nat,
         at' \in [Goroutines -> {"idle", "handling", "wants", "awaits", "answers"}],
         call' \in [Goroutines -> Nat],
         \A g \in Goroutines : at'[g] = "awaits" <=> at[g] = "awaits",
         \A g \in Goroutines : at'[g] = "awaits" => call'[g] = call[g],
         \A g \in Goroutines : at'[g] = "wants" => call'[g] \in Calls
  PROVE  IInv'
  <1>1. Shape'
    BY DEF IInv, Shape
  <1>2. Writer'
    BY DEF IInv, Writer
  <1>3. writeMu # Nobody => call'[writeMu] = call[writeMu]
    BY DEF IInv, Writer
  <1>4. Replies' /\ Ended' /\ ReplyIsOwn'
    BY <1>3 DEF IInv, Replies, Ended, ReplyIsOwn
  <1>5. Pipeline'
    BY <1>3 DEF IInv, Pipeline, Clean, Pipe, Sent, Runs, Queued, Travels, Routed
  <1>6. QED
    BY <1>1, <1>2, <1>4, <1>5 DEF IInv

-----------------------------------------------------------------------------
\* The initial states, and the steps that move a batch along.

LEMMA InitIInv == Init => IInv
  <1> SUFFICES ASSUME Init PROVE IInv
    OBVIOUS
  <1>1. Shape
    BY NoUp, NoLine DEF Init, Shape
  <1>2. Writer
    BY TransportAssumption DEF Init, Writer, Goroutines
  <1>3. Clean
    BY NoUp, NoLine DEF Init, Clean
  <1>4. Pipeline /\ Replies /\ Ended /\ ReplyIsOwn
    BY <1>3 DEF Init, Pipeline, Replies, Ended, ReplyIsOwn
  <1>5. QED
    BY <1>1, <1>2, <1>4 DEF IInv

\* A batch goes out only when the pipeline is clean.
LEMMA SendBatchIInv ==
  ASSUME IInv, NEW g \in Goroutines, SendBatch(g)
  PROVE  IInv'
  <1>1. PICK n \in Calls : n = call[g]
    BY DEF IInv, Writer, SendBatch
  <1>2. n \in Nat /\ up \in Seq(Nat) /\ g # Nobody
    BY TransportAssumption DEF Calls, IInv, Shape, Goroutines
  <1>3. ~heard /\ Clean
    BY DEF SendBatch, IInv, Ended, Pipeline
  <1>4. up' \in Seq(Nat) /\ HoldsUp(up', n)
    <2>1. HoldsUp(up, n)
      BY <1>3 DEF Clean, BareUp, HoldsUp
    <2>2. QED
      BY <1>1, <1>2, <1>3, <2>1, AppendUp DEF SendBatch, Write, Clean
  <1>5. Shape'
    BY <1>4 DEF IInv, Shape, SendBatch
  <1>6. Writer'
    <2>1. \A h \in Goroutines : at'[h] = "awaits" <=> h = g
      BY TransportAssumption DEF SendBatch, IInv, Shape, Writer, Goroutines
    <2>2. QED
      BY <1>1, <1>2, <2>1 DEF SendBatch, IInv, Shape, Writer
  <1>7. Pipe(call[writeMu])'
    BY <1>1, <1>3, <1>4 DEF Pipe, Sent, Clean, SendBatch
  <1>8. Pipeline'
    BY <1>2, <1>7 DEF Pipeline, SendBatch
  <1>9. Replies' /\ Ended' /\ ReplyIsOwn'
    BY <1>3 DEF SendBatch, IInv, Clean, Replies, Ended, ReplyIsOwn
  <1>10. QED
    BY <1>5, <1>6, <1>8, <1>9 DEF IInv

\* The reply taken is the writer's holder's, and the pipeline is clean behind it.
LEMMA TakeReplyIInv ==
  ASSUME IInv, NEW g \in Goroutines, TakeReply(g)
  PROVE  IInv'
  <1>1. writeMu = g /\ g # Nobody
    BY TransportAssumption DEF TakeReply, IInv, Writer, Goroutines
  <1>2. PICK n \in Calls : n = call[g]
    BY DEF IInv, Writer, TakeReply
  <1>3. replies = <<n>> /\ replies' = <<>> /\ writeMu' = Nobody
    BY <1>1, <1>2 DEF TakeReply, IInv, Replies, LetsGo
  <1>4. got' = [got EXCEPT ![n] = n]
    BY <1>2, <1>3 DEF TakeReply
  <1>5. n \in Nat
    BY TransportAssumption DEF Calls
  <1>6. Shape'
    BY <1>4, <1>5 DEF IInv, Shape, TakeReply, Returns, Working
  <1>7. Writer'
    <2>1. \A h \in Goroutines : at'[h] # "awaits"
      BY <1>1 DEF IInv, Shape, Writer, TakeReply, Returns, Working
    <2>2. \A h \in Goroutines : at'[h] = "wants" => at[h] = "wants" /\ call'[h] = call[h]
      BY DEF IInv, Shape, TakeReply, Returns, Working
    <2>3. QED
      BY <1>3, <2>1, <2>2, TransportAssumption DEF IInv, Writer, Goroutines
  <1>8. ~heard => Clean'
    <2> SUFFICES ASSUME ~heard PROVE Clean'
      OBVIOUS
    <2>1. Pipe(n)
      BY <1>1, <1>2 DEF IInv, Pipeline
    <2>2. Routed(n)
      BY <1>3, <2>1 DEF Pipe, Sent, Runs, Queued, Travels
    <2>3. QED
      BY <1>3, <2>2 DEF Routed, Clean, TakeReply
  <1>9. Pipeline' /\ Replies' /\ Ended'
    BY <1>3, <1>8 DEF Pipeline, Replies, Ended, IInv, TakeReply
  <1>10. ReplyIsOwn'
    BY <1>2, <1>4 DEF ReplyIsOwn, IInv, Shape
  <1>11. QED
    BY <1>6, <1>7, <1>9, <1>10 DEF IInv

\* Exec gives up only when the reader has ended.
LEMMA NoReplyIInv ==
  ASSUME IInv, NEW g \in Goroutines, NoReply(g)
  PROVE  IInv'
  <1>1. writeMu = g /\ writeMu' = Nobody
    BY DEF NoReply, IInv, Writer, LetsGo
  <1>2. Shape'
    BY DEF IInv, Shape, NoReply, Returns, Working
  <1>3. Writer'
    <2>1. \A h \in Goroutines : at'[h] # "awaits"
      BY <1>1 DEF IInv, Shape, Writer, NoReply, Returns, Working
    <2>2. \A h \in Goroutines : at'[h] = "wants" => at[h] = "wants" /\ call'[h] = call[h]
      BY DEF IInv, Shape, NoReply, Returns, Working
    <2>3. QED
      BY <1>1, <2>1, <2>2, TransportAssumption DEF IInv, Writer, Goroutines
  <1>4. Pipeline' /\ Replies' /\ Ended' /\ ReplyIsOwn'
    BY DEF NoReply, IInv, Pipeline, Replies, Ended, ReplyIsOwn
  <1>5. QED
    BY <1>2, <1>3, <1>4 DEF IInv

\* What a lane's handler sends on its own is no batch anybody waits for.
LEMMA AnswerIInv ==
  ASSUME IInv, NEW l \in Lanes, Answer(l)
  PROVE  IInv'
  <1>1. l \in Goroutines /\ writeMu = Nobody
    BY DEF Goroutines, Answer
  <1>2. up' \in Seq(Nat) /\ (BareUp(up) => BareUp(up'))
    BY AppendUp DEF IInv, Shape, Answer, Write
  <1>3. Shape'
    BY <1>2 DEF IInv, Shape, Answer
  <1>4. Writer'
    BY <1>1 DEF IInv, Shape, Writer, Answer
  <1>5. Pipeline'
    BY <1>1, <1>2 DEF IInv, Pipeline, Clean, Answer
  <1>6. Replies' /\ Ended' /\ ReplyIsOwn'
    BY <1>1 DEF IInv, Replies, Ended, ReplyIsOwn, Answer
  <1>7. QED
    BY <1>3, <1>4, <1>5, <1>6 DEF IInv

\* A reply read is routed to the channel, which is empty then.
LEMMA ReadIInv ==
  ASSUME IInv, Read
  PROVE  IInv'
  <1>1. down \in Seq(Words) /\ down # <<>> /\ ~heard
    BY DEF IInv, Shape, Read
  <1>2. /\ Tail(down) \in Seq(Words)
        /\ Bare(down) => Bare(Tail(down)) /\ Head(down).to # Reply
        /\ \A n : Holds(down, n) =>
             /\ Holds(Tail(down), n)
             /\ Head(down).to = Reply => Bare(Tail(down)) /\ Head(down).n = n
    BY <1>1, TailLine
  <1>3. Shape' /\ Writer' /\ Ended' /\ ReplyIsOwn'
    BY <1>2 DEF IInv, Shape, Writer, Ended, ReplyIsOwn, Read
  <1>4. CASE writeMu = Nobody
    <2>1. Clean
      BY <1>1, <1>4 DEF IInv, Pipeline
    <2>2. Head(down).to # Reply
      BY <1>2, <2>1 DEF Clean
    <2>3. Clean'
      BY <1>2, <2>1, <2>2 DEF Clean, Read, Route
    <2>4. Pipeline' /\ Replies'
      BY <1>4, <2>3 DEF Pipeline, Replies, Read, Clean
    <2>5. QED
      BY <1>3, <2>4 DEF IInv
  <1>5. CASE writeMu # Nobody
    <2>1. PICK n \in Calls : n = call[writeMu]
      BY <1>5 DEF IInv, Writer
    <2>2. Pipe(n)
      BY <1>1, <1>5, <2>1 DEF IInv, Pipeline
    <2>3. Head(down).to = Reply => Pipe(n)'
      <3> SUFFICES ASSUME Head(down).to = Reply PROVE Pipe(n)'
        OBVIOUS
      <3>1. Travels(n)
        BY <1>2, <2>2 DEF Pipe, Sent, Runs, Queued, Routed
      <3>2. Routed(n)' /\ replies' = <<n>>
        BY <1>2, <3>1 DEF Travels, Routed, Read, Route
      <3>3. QED
        BY <3>2 DEF Pipe
    <2>4. Head(down).to # Reply => Pipe(n)'
      <3> SUFFICES ASSUME Head(down).to # Reply PROVE Pipe(n)'
        OBVIOUS
      <3>1. replies' = replies
        BY DEF Read, Route
      <3>2. QED
        BY <1>2, <2>2, <3>1 DEF Pipe, Sent, Runs, Queued, Travels, Routed, Read
    <2>5. Pipe(n)'
      BY <2>3, <2>4
    <2>6. Pipeline'
      BY <1>5, <2>1, <2>5
      DEF Pipeline, Read, Pipe, Sent, Runs, Queued, Travels, Routed
    <2>7. Replies'
      BY <1>5, <2>1, <2>5
      DEF Replies, Read, Pipe, Sent, Runs, Queued, Travels, Routed
    <2>8. QED
      BY <1>3, <2>6, <2>7 DEF IInv
  <1>6. QED
    BY <1>4, <1>5

LEMMA ReaderEndsIInv ==
  ASSUME IInv, ReaderEnds
  PROVE  IInv'
  BY DEF IInv, Shape, Writer, Pipeline, Replies, Ended, ReplyIsOwn, ReaderEnds

\* The batch leaves what the application sent and is waited for.
LEMMA ReadBatchIInv ==
  ASSUME IInv, ReadBatch
  PROVE  IInv'
  <1>1. up \in Seq(Nat) /\ up # <<>>
    BY DEF IInv, Shape, ReadBatch
  <1>2. /\ Tail(up) \in Seq(Nat)
        /\ BareUp(up) => BareUp(Tail(up)) /\ Head(up) = 0
        /\ \A n : HoldsUp(up, n) =>
             /\ HoldsUp(Tail(up), n)
             /\ Head(up) # 0 => BareUp(Tail(up)) /\ Head(up) = n
    BY <1>1, TailUp
  <1>3. WellShaped
    BY <1>2 DEF WellShaped, IInv, Shape, ReadBatch
  <1>4. Clean => Clean'
    BY <1>2 DEF Clean, ReadBatch
  <1>5. ASSUME NEW n \in Calls, Pipe(n) PROVE Pipe(n)'
    <2>1. CASE Sent(n) /\ Head(up) # 0
      <3>1. Runs(n)'
        BY <1>2, <2>1 DEF Sent, Runs, ReadBatch
      <3>2. QED
        BY <3>1 DEF Pipe
    <2>2. CASE Sent(n) /\ Head(up) = 0
      <3>1. Sent(n)'
        BY <1>2, <2>2 DEF Sent, ReadBatch
      <3>2. QED
        BY <3>1 DEF Pipe
    <2>3. CASE ~Sent(n)
      BY <1>2, <1>5, <2>3 DEF Pipe, Sent, Runs, Queued, Travels, Routed, ReadBatch
    <2>4. QED
      BY <2>1, <2>2, <2>3
  <1>6. Keeps
    BY <1>4, <1>5 DEF Keeps
  <1>7. said' \in [Lanes -> Nat]
    BY DEF IInv, Shape, ReadBatch
  <1>8. QED
    BY <1>3, <1>6, <1>7, FarStep DEF ReadBatch

\* Whatever is said, a queue without a reply holds its reply at most.
LEMMA SayAdds ==
  ASSUME Shape, NEW x \in Words, Say(x)
  PROVE  /\ up' \in Seq(Nat) /\ down' \in Seq(Words) /\ out' \in Seq(Words)
         /\ BareUp(up) => BareUp(up')
         /\ Bare(down) => Bare(down')
         /\ Bare(out) => Holds(out', x.n)
  <1>1. CASE UNCHANGED <<out, socket>>
    BY <1>1, BareHolds DEF Shape
  <1>2. CASE out' = Append(out, x) /\ UNCHANGED socket
    <2>1. out' \in Seq(Words) /\ (Bare(out) => Holds(out', x.n))
      BY <1>2, AppendLine DEF Shape
    <2>2. QED
      BY <1>2, <2>1 DEF Shape
  <1>3. CASE CloseSocket(FALSE) /\ UNCHANGED out
    <2>1. /\ up' \in Seq(Nat) /\ down' \in Seq(Words)
          /\ BareUp(up) => BareUp(up')
          /\ Bare(down) => Bare(down')
      BY <1>3, Losses, CloseLoses
    <2>2. QED
      BY <1>3, <2>1, BareHolds DEF Shape
  <1>4. QED
    BY <1>1, <1>2, <1>3 DEF Say

\* The batch that ran is the one answered.
LEMMA ExecuteIInv ==
  ASSUME IInv, Execute
  PROVE  IInv'
  <1> DEFINE line == Line(Reply, running)
  <1>1. /\ said' \in [Lanes -> Nat] /\ UNCHANGED <<client, appEnd>>
        /\ running # 0 /\ running' = 0
    BY DEF IInv, Shape, Execute, Say, CloseSocket
  <1>2. line \in Words /\ line.n = running
    BY DEF Line, Words, IInv, Shape
  <1>3. /\ up' \in Seq(Nat) /\ down' \in Seq(Words) /\ out' \in Seq(Words)
        /\ BareUp(up) => BareUp(up')
        /\ Bare(down) => Bare(down')
        /\ Bare(out) => Holds(out', running)
    <2>1. Say(line)
      BY DEF Execute
    <2> HIDE DEF line
    <2>2. QED
      BY <1>2, <2>1, SayAdds DEF IInv
  <1>4. WellShaped
    BY <1>1, <1>3 DEF WellShaped
  <1>5. ~Clean
    BY <1>1 DEF Clean
  <1>6. ASSUME NEW n \in Calls, Pipe(n) PROVE Pipe(n)'
    <2>1. Runs(n)
      BY <1>1, <1>6 DEF Pipe, Sent, Queued, Travels, Routed
    <2>2. Queued(n)'
      BY <1>1, <1>3, <2>1 DEF Runs, Queued
    <2>3. QED
      BY <2>2 DEF Pipe
  <1>7. Keeps
    BY <1>5, <1>6 DEF Keeps
  <1>8. QED
    BY <1>1, <1>4, <1>7, FarStep

\* The head of the queue goes to the socket, or is lost with it.
LEMMA WriteIInv ==
  ASSUME IInv, WriteLine \/ WriteFails
  PROVE  IInv'
  <1>1. out \in Seq(Words) /\ down \in Seq(Words) /\ out # <<>>
    BY DEF IInv, Shape, WriteLine, WriteFails
  <1> DEFINE x == Head(out)
  <1>2. /\ out' = Tail(out) /\ UNCHANGED <<client, replies, running, up, appEnd, said>>
        /\ down' = down \/ down' = Append(down, x)
    BY DEF WriteLine, WriteFails
  <1>3. /\ out' \in Seq(Words) /\ x \in Words
        /\ Bare(out) => Bare(out') /\ x.to # Reply
        /\ \A n : Holds(out, n) => /\ Holds(out', n)
                                   /\ x.to = Reply => Bare(out') /\ x.n = n
    BY <1>1, <1>2, TailLine
  <1> HIDE DEF x
  <1>4. /\ down' \in Seq(Words)
        /\ x.to # Reply /\ Bare(down) => Bare(down')
        /\ x.to # Reply => \A n : Holds(down, n) => Holds(down', n)
        /\ Bare(down) => Holds(down', x.n)
    <2>1. CASE down' = down
      BY <1>1, <2>1, BareHolds
    <2>2. CASE down' = Append(down, x)
      BY <1>1, <1>3, <2>2, AppendLine
    <2>3. QED
      BY <1>2, <2>1, <2>2
  <1>5. WellShaped
    BY <1>2, <1>3, <1>4 DEF WellShaped, IInv, Shape
  <1>6. Clean => Clean'
    BY <1>2, <1>3, <1>4 DEF Clean
  <1>7. ASSUME NEW n \in Calls, Pipe(n) PROVE Pipe(n)'
    <2>1. CASE x.to = Reply
      <3>1. Queued(n)
        BY <1>3, <1>7, <2>1 DEF Pipe, Sent, Runs, Travels, Routed
      <3>2. Travels(n)'
        BY <1>2, <1>3, <1>4, <2>1, <3>1 DEF Queued, Travels
      <3>3. QED
        BY <3>2 DEF Pipe
    <2>2. CASE x.to # Reply
      BY <1>2, <1>3, <1>4, <1>7, <2>2 DEF Pipe, Sent, Runs, Queued, Travels, Routed
    <2>3. QED
      BY <2>1, <2>2
  <1>8. Keeps
    BY <1>6, <1>7 DEF Keeps
  <1>9. QED
    BY <1>2, <1>5, <1>8, FarStep DEF IInv, Shape

-----------------------------------------------------------------------------
\* Every step, and the theorem.

LEMMA NextIInv == IInv /\ [Next]_vars => IInv'
  <1> SUFFICES ASSUME IInv, [Next]_vars PROVE IInv'
    OBVIOUS
  <1> USE DEF Goroutines
  <1>1. ASSUME NEW g \in Goroutines, Call(g) PROVE IInv'
    <2>1. calls + 1 \in Calls
      BY <1>1, TransportAssumption DEF Call, Calls, IInv, Shape
    <2>2. QED
      BY <1>1, <2>1, NearStep DEF Call, Working, IInv, Shape, Writer
  <1>2. ASSUME NEW g \in Goroutines, SendFails(g) PROVE IInv'
    BY <1>2, NearStep DEF SendFails, Returns, Working, IInv, Shape, Writer
  <1>3. ASSUME NEW g \in Goroutines, SendBatch(g) \/ TakeReply(g) \/ NoReply(g)
        PROVE  IInv'
    BY <1>3, SendBatchIInv, TakeReplyIInv, NoReplyIInv
  <1>4. ASSUME NEW l \in Lanes, Handle(l) \/ Handled(l) PROVE IInv'
    BY <1>4, NearStep DEF Handle, Handled, IInv, Shape, Writer
  <1>5. ASSUME NEW l \in Lanes, Answer(l) PROVE IInv'
    BY <1>5, AnswerIInv
  <1>6. ASSUME NEW l \in Lanes, Raise(l) PROVE IInv'
    <2> DEFINE line == Line(l, said[l] + 1)
    <2>1. /\ Say(line) /\ said' \in [Lanes -> Nat]
          /\ UNCHANGED <<client, replies, running>> /\ (appEnd' => appEnd)
      BY <1>6 DEF Raise, Say, CloseSocket, IInv, Shape
    <2>2. line \in Words /\ line.to # Reply
      BY TransportAssumption DEF Line, Words, IInv, Shape
    <2> HIDE DEF line
    <2>3. WellShaped /\ Keeps
      BY <2>1, <2>2, SayKeeps DEF IInv
    <2>4. QED
      BY <2>1, <2>3, FarStep
  <1>7. CASE Read \/ ReaderEnds
    BY <1>7, ReadIInv, ReaderEndsIInv
  <1>8. CASE Deliver
    BY <1>8, NearStep DEF Deliver, IInv, Shape, Writer
  <1>9. CASE ReadBatch \/ Execute \/ WriteLine \/ WriteFails
    BY <1>9, ReadBatchIInv, ExecuteIInv, WriteIInv
  <1>10. CASE Leave \/ HangUpCloses
    <2>1. Loses
      BY <1>10, CloseLoses DEF Leave, HangUpCloses
    <2>2. UNCHANGED <<client, appEnd, replies, running, out, said>>
      BY <1>10 DEF Leave, HangUpCloses
    <2>3. QED
      BY <2>1, <2>2, LosesKeeps, FarStep DEF IInv, Shape
  <1>11. CASE HangUp
    <2> DEFINE line == Line(Goodbye, 0)
    <2>1. /\ Say(line) /\ said' \in [Lanes -> Nat]
          /\ UNCHANGED <<client, replies, running>> /\ (appEnd' => appEnd)
      BY <1>11 DEF HangUp, Say, CloseSocket, IInv, Shape
    <2>2. line \in Words /\ line.to # Reply
      BY TransportAssumption DEF Line, Words
    <2> HIDE DEF line
    <2>3. WellShaped /\ Keeps
      BY <2>1, <2>2, SayKeeps DEF IInv
    <2>4. QED
      BY <2>1, <2>3, FarStep
  <1>12. CASE AppCloses \/ WriterStops \/ HangUpFinishes \/ Break \/ UNCHANGED vars
    <2>1. /\ Loses /\ UNCHANGED <<client, replies, running, out, said>>
          /\ appEnd' => appEnd
      BY <1>12 DEF AppCloses, WriterStops, HangUpFinishes, Break, Loses
    <2>2. QED
      BY <2>1, LosesKeeps, FarStep DEF IInv, Shape
  <1>13. QED
    BY <1>1, <1>2, <1>3, <1>4, <1>5, <1>6, <1>7, <1>8, <1>9, <1>10, <1>11, <1>12
    DEF Next, GoroutineStep, LaneStep

LEMMA AlwaysIInv == Spec => []IInv
  BY InitIInv, NextIInv, PTL DEF Spec

\* What Exec returns for a batch is the answer to that batch (Exec,
\* client/remote.go:237, over lines that do not say what they answer), however
\* many goroutines call it, whatever else the display says, and whenever either
\* end closes or the network fails.
THEOREM ReplyIsOwnAlways == Spec => []ReplyIsOwn
  <1>1. IInv => ReplyIsOwn
    BY DEF IInv
  <1>2. QED
    BY <1>1, AlwaysIInv, PTL

-----------------------------------------------------------------------------
\* What the operations on sequences leave of their members and their length.

LEMMA Grow ==
  ASSUME NEW S, NEW s \in Seq(S), NEW x \in S
  PROVE  Append(s, x) \in Seq(S) /\ Len(Append(s, x)) = Len(s) + 1
  BY AppendProperties, LenProperties

LEMMA Shrink ==
  ASSUME NEW S, NEW s \in Seq(S), s # <<>>
  PROVE  /\ Tail(s) \in Seq(S) /\ Head(s) \in S
         /\ Len(s) \in Nat /\ Len(s) > 0 /\ Len(Tail(s)) = Len(s) - 1
  BY HeadTailProperties, LenProperties, EmptySeq

LEMMA Cut ==
  ASSUME NEW S, NEW s \in Seq(S), NEW t \in Prefixed(s)
  PROVE  t \in Seq(S) /\ Len(t) <= Len(s)
  <1>1. PICK k \in 0..Len(s) : t = SubSeq(s, 1, k)
    BY DEF Prefixed
  <1>2. t \in Seq(S) /\ Len(s) \in Nat /\ Len(t) = k
    BY <1>1, SubSeqProperties, LenProperties
  <1>3. QED
    BY <1>2

-----------------------------------------------------------------------------
\* The types, of the application's side, of the sockets and of the display's.

AppTyped ==
  /\ calls \in 0..MaxCalls
  /\ at \in [Goroutines -> {"idle", "handling", "wants", "awaits", "answers"}]
  /\ call \in [Goroutines -> 0..MaxCalls]
  /\ writeMu \in Goroutines \union {Nobody}
  /\ got \in [Calls -> 0..MaxCalls]
  /\ lost \subseteq Calls

ReaderTyped ==
  /\ replies \in Seq(Calls) /\ Len(replies) <= 1
  /\ chan \in [Lanes -> Seq(Places)]
  /\ \A l \in Lanes : Len(chan[l]) <= Room[l]
  /\ hand \in {Nothing} \union [to : Lanes, n : Places]
  /\ handled \in [Lanes -> Seq(Places)]

LinesTyped ==
  /\ up \in Seq(0..MaxCalls)
  /\ down \in Seq(Lines) /\ Len(down) <= SocketRoom
  /\ out \in Seq(Lines) /\ Len(out) <= OutRoom

DisplayTyped ==
  /\ running \in 0..MaxCalls
  /\ hung \in {"no", "said", "waits", "done"}
  /\ said \in [Lanes -> {0} \union Places]
  /\ answered \subseteq Calls
  /\ heldBy \in [Lanes -> {0} \union Places]

FlagsTyped ==
  /\ heard \in BOOLEAN /\ farewell \in BOOLEAN /\ appEnd \in BOOLEAN
  /\ displayEnd \in BOOLEAN /\ left \in BOOLEAN /\ gone \in BOOLEAN
  /\ written \in BOOLEAN /\ spoiled \in BOOLEAN

LEMMA TypeParts ==
  TypeOK <=> AppTyped /\ ReaderTyped /\ LinesTyped /\ DisplayTyped /\ FlagsTyped
  BY DEF TypeOK, AppTyped, ReaderTyped, LinesTyped, DisplayTyped, FlagsTyped

LEMMA Sizes == /\ Room \in [Lanes -> Nat \ {0}] /\ OutRoom \in Nat \ {0}
               /\ SocketRoom \in Nat \ {0} /\ MaxCalls \in Nat
               /\ MaxSaid \in [Lanes -> Nat] /\ Places \subseteq Nat \ {0}
               /\ Calls = (0..MaxCalls) \ {0}
  <1>1. Places \subseteq Nat \ {0}
    BY TransportAssumption DEF Places
  <1>2. QED
    BY <1>1, TransportAssumption DEF Calls

LEMMA NextPlace ==
  ASSUME NEW l \in Lanes, NEW n \in Nat, n < MaxSaid[l]
  PROVE  n + 1 \in Places
  <1>1. n + 1 \in 1..MaxSaid[l]
    BY Sizes
  <1>2. QED
    BY <1>1 DEF Places

LEMMA TypeInit == Init => TypeOK
  <1> SUFFICES ASSUME Init PROVE TypeOK
    OBVIOUS
  <1>1. AppTyped
    BY Sizes DEF Init, AppTyped
  <1>2. ReaderTyped
    <2>1. <<>> \in Seq(Places) /\ <<>> \in Seq(Calls) /\ Len(<<>>) = 0
      BY EmptySeq
    <2>2. QED
      BY <2>1, Sizes DEF Init, ReaderTyped
  <1>3. LinesTyped
    <2>1. <<>> \in Seq(0..MaxCalls) /\ <<>> \in Seq(Lines) /\ Len(<<>>) = 0
      BY EmptySeq
    <2>2. QED
      BY <2>1, Sizes DEF Init, LinesTyped
  <1>4. DisplayTyped
    BY Sizes DEF Init, DisplayTyped
  <1>5. FlagsTyped
    BY DEF Init, FlagsTyped
  <1>6. QED
    BY <1>1, <1>2, <1>3, <1>4, <1>5, TypeParts

LEMMA AppStep ==
  ASSUME TypeOK, IInv, [Next]_vars
  PROVE  AppTyped'
  <1> USE Sizes DEF AppTyped
  <1>1. AppTyped /\ replies \in Seq(Calls)
    BY TypeParts DEF ReaderTyped
  <1>2. CASE UNCHANGED goroutines
    BY <1>1, <1>2
  <1>3. ASSUME NEW g \in Goroutines, Call(g) PROVE AppTyped'
    BY <1>1, <1>3 DEF Call
  <1>4. ASSUME NEW g \in Goroutines, SendBatch(g) PROVE AppTyped'
    BY <1>1, <1>4 DEF SendBatch
  <1>5. ASSUME NEW g \in Goroutines, SendFails(g) \/ NoReply(g) PROVE AppTyped'
    <2>1. call[g] \in Calls
      BY <1>5 DEF IInv, Writer, SendFails, NoReply
    <2>2. lost' \subseteq Calls
      BY <1>1, <1>5, <2>1 DEF SendFails, NoReply
    <2>3. writeMu' \in Goroutines \union {Nobody}
      BY <1>1, <1>5 DEF SendFails, NoReply, LetsGo
    <2>4. /\ at' \in [Goroutines -> {"idle", "handling", "wants", "awaits", "answers"}]
          /\ call' \in [Goroutines -> 0..MaxCalls]
          /\ UNCHANGED <<calls, got>>
      <3>1. Returns(g) /\ UNCHANGED <<calls, got>>
        BY <1>5 DEF SendFails, NoReply
      <3>2. QED
        BY <1>1, <3>1 DEF Returns, Working
    <2>5. QED
      BY <1>1, <2>2, <2>3, <2>4
  <1>6. ASSUME NEW g \in Goroutines, TakeReply(g) PROVE AppTyped'
    <2>1. call[g] \in Calls /\ Head(replies) \in 0..MaxCalls
      BY <1>1, <1>6, Shrink DEF IInv, Writer, TakeReply
    <2>2. QED
      BY <1>1, <1>6, <2>1 DEF TakeReply, Returns, Working, LetsGo
  <1>7. ASSUME NEW l \in Lanes, LaneStep(l) PROVE AppTyped'
    BY <1>1, <1>7 DEF LaneStep, Handle, Answer, Handled, Goroutines
  <1>8. QED
    BY <1>2, <1>3, <1>4, <1>5, <1>6, <1>7
    DEF Next, GoroutineStep, Raise, Read, Deliver, ReaderEnds, AppCloses, ReadBatch,
        Execute, Leave, WriteLine, WriteFails, WriterStops, HangUp, HangUpFinishes,
        HangUpCloses, Break

LEMMA ReaderStep ==
  ASSUME TypeOK, [Next]_vars
  PROVE  ReaderTyped'
  <1>1. /\ replies \in Seq(Calls) /\ Len(replies) <= 1
        /\ chan \in [Lanes -> Seq(Places)]
        /\ \A l \in Lanes : Len(chan[l]) <= Room[l]
        /\ hand \in {Nothing} \union [to : Lanes, n : Places]
        /\ handled \in [Lanes -> Seq(Places)]
        /\ down \in Seq(Lines)
    BY TypeParts DEF ReaderTyped, LinesTyped
  <1>2. CASE UNCHANGED <<replies, chan, hand, handled>>
    BY <1>1, <1>2 DEF ReaderTyped
  <1>3. ASSUME NEW g \in Goroutines, TakeReply(g) PROVE ReaderTyped'
    <2>1. replies' \in Seq(Calls) /\ Len(replies') <= 1
      BY <1>1, <1>3, Shrink DEF TakeReply
    <2>2. QED
      BY <1>1, <1>3, <2>1 DEF TakeReply, ReaderTyped
  <1>4. ASSUME NEW l \in Lanes, Handle(l) PROVE ReaderTyped'
    <2>1. /\ Tail(chan[l]) \in Seq(Places) /\ Len(Tail(chan[l])) <= Room[l]
          /\ Append(handled[l], Head(chan[l])) \in Seq(Places)
      <3>1. /\ chan[l] \in Seq(Places) /\ chan[l] # <<>> /\ Len(chan[l]) <= Room[l]
            /\ handled[l] \in Seq(Places)
        BY <1>1, <1>4 DEF Handle
      <3>2. Room[l] \in Nat
        BY Sizes
      <3>3. QED
        BY <3>1, <3>2, Shrink, Grow
    <2>2. QED
      BY <1>1, <1>4, <2>1 DEF Handle, ReaderTyped
  <1>5. CASE Read
    <2>1. Head(down) \in Lines
      BY <1>1, <1>5, Shrink DEF Read
    <2>2. /\ Head(down).to = Reply => Head(down).n \in Calls
          /\ Head(down).to \notin {Reply, Goodbye} => Head(down) \in [to : Lanes, n : Places]
      BY <2>1, TransportAssumption DEF Lines, Line
    <2>3. replies' \in Seq(Calls) /\ Len(replies') <= 1
      <3>1. CASE replies' = replies
        BY <1>1, <3>1
      <3>2. CASE replies' # replies
        <4>1. replies' = <<Head(down).n>> /\ Head(down).n \in Calls
          BY <1>5, <2>2, <3>2 DEF Read, Route
        <4>2. QED
          BY <4>1
      <3>3. QED
        BY <3>1, <3>2
    <2>4. hand' \in {Nothing} \union [to : Lanes, n : Places]
      BY <1>1, <1>5, <2>2 DEF Read, Route
    <2>5. QED
      BY <1>1, <1>5, <2>3, <2>4 DEF Read, ReaderTyped
  <1>6. CASE Deliver
    <2>1. hand.to \in Lanes /\ hand.n \in Places
      BY <1>1, <1>6 DEF Deliver
    <2>2. /\ Append(chan[hand.to], hand.n) \in Seq(Places)
          /\ Len(chan[hand.to]) \in Nat
          /\ Len(Append(chan[hand.to], hand.n)) = Len(chan[hand.to]) + 1
      BY <1>1, <2>1, Grow, LenProperties
    <2>3. Len(Append(chan[hand.to], hand.n)) <= Room[hand.to]
      BY <1>6, <2>1, <2>2, Sizes DEF Deliver
    <2>4. QED
      BY <1>1, <1>6, <2>1, <2>2, <2>3 DEF Deliver, ReaderTyped
  <1>7. QED
    BY <1>2, <1>3, <1>4, <1>5, <1>6
    DEF Next, GoroutineStep, LaneStep, Call, SendBatch, SendFails, NoReply, Answer,
        Handled, Raise, ReaderEnds, AppCloses, ReadBatch, Execute, Leave, WriteLine,
        WriteFails, WriterStops, HangUp, HangUpFinishes, HangUpCloses, Break

LEMMA CloseTyped ==
  ASSUME LinesTyped, Loses, UNCHANGED out
  PROVE  LinesTyped'
  <1>1. up' \in Seq(0..MaxCalls)
    BY Cut DEF LinesTyped, Loses
  <1>2. down' \in Seq(Lines) /\ Len(down') <= SocketRoom
    <2>1. Len(down) \in Nat /\ (down' # down => down' \in Seq(Lines) /\ Len(down') \in Nat /\ Len(down') <= Len(down))
      BY Cut, LenProperties DEF LinesTyped, Loses
    <2>2. QED
      BY <2>1, Sizes DEF LinesTyped
  <1>3. QED
    BY <1>1, <1>2 DEF LinesTyped

LEMMA SayTyped ==
  ASSUME LinesTyped, NEW x \in Lines, Say(x)
  PROVE  LinesTyped'
  <1>1. CASE UNCHANGED <<out, socket>>
    BY <1>1 DEF LinesTyped
  <1>2. CASE Len(out) < OutRoom /\ out' = Append(out, x) /\ UNCHANGED socket
    <2>1. out' \in Seq(Lines) /\ Len(out') = Len(out) + 1 /\ Len(out) \in Nat
      BY <1>2, Grow, LenProperties DEF LinesTyped
    <2>2. QED
      BY <1>2, <2>1, Sizes DEF LinesTyped
  <1>3. CASE CloseSocket(FALSE) /\ UNCHANGED out
    BY <1>3, CloseLoses, CloseTyped
  <1>4. QED
    BY <1>1, <1>2, <1>3 DEF Say

LEMMA LinesStep ==
  ASSUME TypeOK, IInv, [Next]_vars
  PROVE  LinesTyped'
  <1>1. /\ LinesTyped /\ running \in 0..MaxCalls /\ said \in [Lanes -> {0} \union Places]
        /\ call \in [Goroutines -> 0..MaxCalls]
    BY TypeParts DEF AppTyped, DisplayTyped
  <1>2. CASE UNCHANGED <<up, down, out>>
    BY <1>1, <1>2 DEF LinesTyped
  <1>3. ASSUME NEW x \in 0..MaxCalls, Write(x), UNCHANGED <<down, out>> PROVE LinesTyped'
    BY <1>1, <1>3, Grow DEF LinesTyped, Write
  <1>4. ASSUME NEW g \in Goroutines, SendBatch(g) PROVE LinesTyped'
    BY <1>1, <1>3, <1>4 DEF SendBatch
  <1>5. ASSUME NEW l \in Lanes, Answer(l) PROVE LinesTyped'
    BY <1>2, <1>3, <1>5, Sizes DEF Answer
  <1>6. CASE Read
    BY <1>1, <1>6, Shrink, Sizes DEF Read, LinesTyped
  <1>7. CASE ReadBatch
    BY <1>1, <1>7, Shrink DEF ReadBatch, LinesTyped
  <1>8. CASE Execute
    <2>1. Line(Reply, running) \in Lines
      BY <1>1, <1>8, Sizes DEF Execute, Line, Lines
    <2>2. QED
      BY <1>1, <1>8, <2>1, SayTyped DEF Execute
  <1>9. ASSUME NEW l \in Lanes, Raise(l) PROVE LinesTyped'
    <2>1. said[l] \in Nat /\ said[l] < MaxSaid[l]
      BY <1>9 DEF Raise, IInv, Shape
    <2>2. said[l] + 1 \in Places
      BY <2>1, NextPlace
    <2>3. Line(l, said[l] + 1) \in Lines
      BY <2>2 DEF Line, Lines
    <2>4. QED
      BY <1>1, <1>9, <2>3, SayTyped DEF Raise
  <1>10. CASE HangUp
    BY <1>1, <1>10, SayTyped DEF HangUp, Lines
  <1>11. CASE Leave \/ HangUpCloses \/ Break
    BY <1>1, <1>11, CloseLoses, CloseTyped DEF Leave, HangUpCloses, Break, Loses
  <1>12. CASE WriteLine \/ WriteFails
    <2>1. /\ out' \in Seq(Lines) /\ Head(out) \in Lines
          /\ Len(out') = Len(out) - 1 /\ Len(out) \in Nat
      BY <1>1, <1>12, Shrink DEF WriteLine, WriteFails, LinesTyped
    <2>2. Append(down, Head(out)) \in Seq(Lines) /\ Len(Append(down, Head(out))) = Len(down) + 1
          /\ Len(down) \in Nat
      BY <1>1, <2>1, Grow, LenProperties DEF LinesTyped
    <2>3. down' \in Seq(Lines) /\ Len(down') <= SocketRoom
      <3>1. CASE down' = down
        BY <1>1, <3>1 DEF LinesTyped
      <3>2. CASE down' = Append(down, Head(out)) /\ Len(down) < SocketRoom
        BY <2>2, <3>2, Sizes
      <3>3. QED
        BY <1>12, <3>1, <3>2 DEF WriteLine, WriteFails
    <2>4. QED
      BY <1>1, <1>12, <2>1, <2>3, Sizes DEF LinesTyped, WriteLine, WriteFails
  <1>13. QED
    BY <1>2, <1>4, <1>5, <1>6, <1>7, <1>8, <1>9, <1>10, <1>11, <1>12
    DEF Next, GoroutineStep, LaneStep, Call, SendFails, TakeReply, NoReply, Handle,
        Handled, Deliver, ReaderEnds, AppCloses, WriterStops, HangUpFinishes

LEMMA DisplayStep ==
  ASSUME TypeOK, IInv, [Next]_vars
  PROVE  DisplayTyped'
  <1>1. DisplayTyped /\ up \in Seq(0..MaxCalls)
    BY TypeParts DEF LinesTyped
  <1>2. CASE UNCHANGED <<running, hung, said, answered, heldBy>>
    BY <1>1, <1>2 DEF DisplayTyped
  <1>3. CASE ReadBatch
    <2>1. Head(up) \in 0..MaxCalls
      BY <1>1, <1>3, Shrink DEF ReadBatch
    <2>2. QED
      BY <1>1, <1>3, <2>1 DEF ReadBatch, DisplayTyped
  <1>4. CASE Execute
    BY <1>1, <1>4, Sizes DEF Execute, DisplayTyped
  <1>5. ASSUME NEW l \in Lanes, Raise(l) PROVE DisplayTyped'
    <2>1. said[l] \in Nat /\ said[l] < MaxSaid[l]
      BY <1>5 DEF Raise, IInv, Shape
    <2>2. said[l] + 1 \in Places
      BY <2>1, NextPlace
    <2>3. QED
      BY <1>1, <1>5, <2>2 DEF Raise, DisplayTyped
  <1>6. CASE Leave \/ HangUp \/ HangUpFinishes \/ HangUpCloses
    BY <1>1, <1>6 DEF Leave, HangUp, HangUpFinishes, HangUpCloses, Finish, DisplayTyped
  <1>7. QED
    BY <1>2, <1>3, <1>4, <1>5, <1>6
    DEF Next, GoroutineStep, LaneStep, Call, SendBatch, SendFails, TakeReply, NoReply,
        Handle, Answer, Handled, Read, Deliver, ReaderEnds, AppCloses, WriteLine,
        WriteFails, WriterStops, Break

LEMMA FlagsStep ==
  ASSUME TypeOK, [Next]_vars
  PROVE  FlagsTyped'
  <1>1. FlagsTyped
    BY TypeParts
  <1>2. ASSUME NEW b \in BOOLEAN, CloseSocket(b)
        PROVE  displayEnd' \in BOOLEAN /\ spoiled' \in BOOLEAN
    BY <1>2 DEF CloseSocket
  <1>3. ASSUME NEW x, Say(x)
        PROVE  displayEnd' \in BOOLEAN /\ spoiled' \in BOOLEAN /\ appEnd' = appEnd
    BY <1>1, <1>2, <1>3 DEF Say, FlagsTyped
  <1> USE DEF FlagsTyped
  <1>4. ASSUME NEW g \in Goroutines, Call(g) \/ GoroutineStep(g) PROVE FlagsTyped'
    BY <1>1, <1>4 DEF GoroutineStep, Call, SendBatch, SendFails, TakeReply, NoReply
  <1>5. ASSUME NEW l \in Lanes, LaneStep(l) PROVE FlagsTyped'
    BY <1>1, <1>5 DEF LaneStep, Handle, Answer, Handled
  <1>6. ASSUME NEW l \in Lanes, Raise(l) PROVE FlagsTyped'
    BY <1>1, <1>3, <1>6 DEF Raise
  <1>7. CASE Read \/ Deliver \/ ReaderEnds \/ AppCloses \/ ReadBatch
    BY <1>1, <1>7 DEF Read, Route, Deliver, ReaderEnds, AppCloses, ReadBatch
  <1>8. CASE Execute \/ HangUp
    BY <1>1, <1>3, <1>8 DEF Execute, HangUp
  <1>9. CASE Leave
    BY <1>1, <1>2, <1>9 DEF Leave, Finish
  <1>10. CASE HangUpCloses
    BY <1>1, <1>2, <1>10 DEF HangUpCloses
  <1>11. CASE WriteLine \/ WriteFails \/ WriterStops \/ HangUpFinishes \/ Break
    BY <1>1, <1>11 DEF WriteLine, WriteFails, WriterStops, HangUpFinishes, Finish, Break
  <1>12. CASE UNCHANGED vars
    BY <1>1, <1>12
  <1>13. QED
    BY <1>4, <1>5, <1>6, <1>7, <1>8, <1>9, <1>10, <1>11, <1>12 DEF Next

\* Every variable has its type, in every reachable state; above all no channel
\* (remote.go:87, display.go:592) holds more than it was made to hold.
THEOREM TypeCorrect == Spec => []TypeOK
  <1>1. TypeOK /\ IInv /\ [Next]_vars => TypeOK'
    BY AppStep, ReaderStep, LinesStep, DisplayStep, FlagsStep
    DEF TypeOK, AppTyped, ReaderTyped, LinesTyped, DisplayTyped, FlagsTyped
  <1>2. QED
    BY <1>1, TypeInit, AlwaysIInv, PTL DEF Spec

-----------------------------------------------------------------------------
\* What is said on a lane, wherever it is.

Elems(s) == {s[i] : i \in DOMAIN s}
On(s, l) == {s[i].n : i \in {j \in DOMAIN s : s[j].to = l}}
Held(l) == IF hand.to = l THEN {hand.n} ELSE {}

Below(S, T) == \A x \in S, y \in T : x < y
Rising(s) == \A i, j \in DOMAIN s : i < j => s[i] < s[j]
RisingOn(s, l) ==
  \A i, j \in DOMAIN s : i < j /\ s[i].to = l /\ s[j].to = l => s[i].n < s[j].n

InApp(l) == Elems(handled[l]) \union Elems(chan[l]) \union Held(l)
Reached(l) == InApp(l) \union On(down, l)

\* How much of it the connection owes the application.
Bound(l) == IF gone THEN heldBy[l] ELSE said[l]

\* What got as far as the socket to the application is in order, and nothing of
\* what is owed is missing before anything that did.
Lined(l) ==
  /\ Rising(chan[l]) /\ RisingOn(down, l)
  /\ Below(Elems(handled[l]), Elems(chan[l]))
  /\ Below(Elems(handled[l]) \union Elems(chan[l]), Held(l))
  /\ Below(InApp(l), On(down, l))
  /\ Reached(l) \subseteq 1..said[l]
  /\ \A x \in Reached(l), v \in 1..Bound(l) : v < x => v \in Reached(l)

\* While the socket is open all that is owed is there or queued behind it.
Coming(l) ==
  appEnd /\ displayEnd =>
    /\ RisingOn(out, l)
    /\ Below(Reached(l), On(out, l))
    /\ On(out, l) \subseteq 1..said[l]
    /\ 1..Bound(l) \subseteq Reached(l) \union On(out, l)

Owed == \A l \in Lanes : heldBy[l] <= said[l]
Streams == \A l \in Lanes : Lined(l) /\ Coming(l)

Ordered == Owed /\ Streams /\ InOrder

-----------------------------------------------------------------------------
LEMMA GrowMembers ==
  ASSUME NEW S, NEW s \in Seq(S), NEW x \in S
  PROVE  Elems(Append(s, x)) = Elems(s) \union {x}
  <1> DEFINE t == Append(s, x)
  <1>1. /\ Len(s) \in Nat
        /\ DOMAIN s = 1..Len(s) /\ DOMAIN t = 1..(Len(s) + 1)
        /\ \A i \in 1..Len(s) : t[i] = s[i]
        /\ t[Len(s) + 1] = x
    BY AppendProperties, LenProperties
  <1> HIDE DEF t
  <1>2. DOMAIN t = DOMAIN s \union {Len(s) + 1}
    BY <1>1
  <1>3. Elems(t) = Elems(s) \union {x}
    BY <1>1, <1>2 DEF Elems
  <1>4. QED
    BY <1>3 DEF t

LEMMA ShrinkMembers ==
  ASSUME NEW S, NEW s \in Seq(S), s # <<>>
  PROVE  Elems(s) = {Head(s)} \union Elems(Tail(s))
  <1> DEFINE t == Tail(s)
  <1>1. /\ Len(s) \in Nat /\ Len(s) > 0
        /\ DOMAIN s = 1..Len(s) /\ DOMAIN t = 1..(Len(s) - 1)
        /\ \A i \in 1..(Len(s) - 1) : t[i] = s[i + 1]
        /\ Head(s) = s[1]
    BY HeadTailProperties, LenProperties, EmptySeq
  <1> HIDE DEF t
  <1>2. \A i \in DOMAIN t : i + 1 \in DOMAIN s /\ t[i] = s[i + 1]
    BY <1>1
  <1>3. \A i \in DOMAIN s : i = 1 \/ (i - 1 \in DOMAIN t /\ t[i - 1] = s[i])
    <2> SUFFICES ASSUME NEW i \in DOMAIN s, i # 1
                 PROVE  i - 1 \in DOMAIN t /\ t[i - 1] = s[i]
      OBVIOUS
    <2>1. i - 1 \in 1..(Len(s) - 1) /\ (i - 1) + 1 = i
      BY <1>1
    <2>2. QED
      BY <1>1, <2>1
  <1>4. Elems(s) \subseteq {Head(s)} \union Elems(t)
    BY <1>1, <1>3 DEF Elems
  <1>5. {Head(s)} \union Elems(t) \subseteq Elems(s)
    <2>1. 1 \in DOMAIN s
      BY <1>1
    <2>2. QED
      BY <1>1, <1>2, <2>1 DEF Elems
  <1>6. QED
    BY <1>4, <1>5 DEF t

LEMMA GrowValues ==
  ASSUME NEW s \in Seq(Nat), NEW x \in Nat
  PROVE  /\ Elems(Append(s, x)) = Elems(s) \union {x}
         /\ Rising(s) /\ Below(Elems(s), {x}) => Rising(Append(s, x))
  <1> DEFINE t == Append(s, x)
  <1>1. /\ Len(s) \in Nat
        /\ DOMAIN s = 1..Len(s) /\ DOMAIN t = 1..(Len(s) + 1)
        /\ \A i \in 1..Len(s) : t[i] = s[i]
        /\ t[Len(s) + 1] = x
    BY AppendProperties, LenProperties
  <1> HIDE DEF t
  <1>2. DOMAIN t = DOMAIN s \union {Len(s) + 1}
    BY <1>1
  <1>3. Elems(t) = Elems(s) \union {x}
    BY GrowMembers DEF t
  <1>4. ASSUME Rising(s), Below(Elems(s), {x}) PROVE Rising(t)
    <2> SUFFICES ASSUME NEW i \in DOMAIN t, NEW j \in DOMAIN t, i < j PROVE t[i] < t[j]
      BY DEF Rising
    <2>1. i \in DOMAIN s /\ t[i] = s[i]
      BY <1>1
    <2>2. CASE j \in DOMAIN s
      BY <1>1, <1>4, <2>1, <2>2 DEF Rising
    <2>3. CASE j = Len(s) + 1
      BY <1>1, <1>4, <2>1, <2>3 DEF Below, Elems
    <2>4. QED
      BY <1>2, <2>2, <2>3
  <1>5. QED
    BY <1>3, <1>4 DEF t

LEMMA ShrinkValues ==
  ASSUME NEW s \in Seq(Nat), s # <<>>
  PROVE  /\ Head(s) \in Nat
         /\ Elems(s) = {Head(s)} \union Elems(Tail(s))
         /\ Rising(s) => Rising(Tail(s)) /\ Below({Head(s)}, Elems(Tail(s)))
  <1> DEFINE t == Tail(s)
  <1>1. /\ Head(s) \in Nat /\ Len(s) \in Nat /\ Len(s) > 0
        /\ DOMAIN s = 1..Len(s) /\ DOMAIN t = 1..(Len(s) - 1)
        /\ \A i \in 1..(Len(s) - 1) : t[i] = s[i + 1]
        /\ Head(s) = s[1]
    BY HeadTailProperties, LenProperties, EmptySeq
  <1> HIDE DEF t
  <1>2. \A i \in DOMAIN t : i \in Nat /\ i >= 1 /\ i + 1 \in DOMAIN s /\ t[i] = s[i + 1]
    BY <1>1
  <1>3. Elems(s) = {Head(s)} \union Elems(t)
    BY ShrinkMembers DEF t
  <1>4. ASSUME Rising(s) PROVE Rising(t) /\ Below({Head(s)}, Elems(t))
    <2>1. Rising(t)
      <3> SUFFICES ASSUME NEW i \in DOMAIN t, NEW j \in DOMAIN t, i < j PROVE t[i] < t[j]
        BY DEF Rising
      <3>1. i + 1 < j + 1 /\ i + 1 \in DOMAIN s /\ j + 1 \in DOMAIN s
        BY <1>2
      <3>2. s[i + 1] < s[j + 1]
        BY <1>4, <3>1 DEF Rising
      <3>3. QED
        BY <1>2, <3>2
    <2>2. ASSUME NEW i \in DOMAIN t PROVE Head(s) < t[i]
      <3>1. 1 \in DOMAIN s /\ i + 1 \in DOMAIN s /\ 1 < i + 1
        BY <1>1, <1>2
      <3>2. s[1] < s[i + 1]
        BY <1>4, <3>1 DEF Rising
      <3>3. QED
        BY <1>1, <1>2, <3>2
    <2>3. QED
      BY <2>1, <2>2 DEF Below, Elems
  <1>5. QED
    BY <1>1, <1>3, <1>4 DEF t

LEMMA OnMembers ==
  ASSUME NEW s, NEW l
  PROVE  \A v : v \in On(s, l) <=> \E i \in DOMAIN s : s[i].to = l /\ v = s[i].n
  BY DEF On

LEMMA GrowLines ==
  ASSUME NEW s \in Seq(Words), NEW x \in Words, NEW l
  PROVE  /\ x.to # l => /\ On(Append(s, x), l) = On(s, l)
                        /\ RisingOn(s, l) => RisingOn(Append(s, x), l)
         /\ x.to = l => /\ On(Append(s, x), l) = On(s, l) \union {x.n}
                        /\ RisingOn(s, l) /\ Below(On(s, l), {x.n}) =>
                             RisingOn(Append(s, x), l)
  <1> DEFINE t == Append(s, x)
  <1>1. /\ Len(s) \in Nat
        /\ DOMAIN s = 1..Len(s) /\ DOMAIN t = 1..(Len(s) + 1)
        /\ \A i \in 1..Len(s) : t[i] = s[i]
        /\ t[Len(s) + 1] = x
    BY AppendProperties, LenProperties
  <1> HIDE DEF t
  <1>2. DOMAIN t = DOMAIN s \union {Len(s) + 1}
    BY <1>1
  <1>3. \A v : v \in On(t, l) <=> v \in On(s, l) \/ (x.to = l /\ v = x.n)
    <2>1. \A v : (\E i \in DOMAIN t : t[i].to = l /\ v = t[i].n) <=>
                   \/ \E i \in DOMAIN s : s[i].to = l /\ v = s[i].n
                   \/ x.to = l /\ v = x.n
      BY <1>1, <1>2
    <2>2. QED
      BY <2>1, OnMembers
  <1>4. /\ x.to # l => On(t, l) = On(s, l)
        /\ x.to = l => On(t, l) = On(s, l) \union {x.n}
    BY <1>3
  <1>5. ASSUME RisingOn(s, l), x.to = l => Below(On(s, l), {x.n}) PROVE RisingOn(t, l)
    <2> SUFFICES ASSUME NEW i \in DOMAIN t, NEW j \in DOMAIN t, i < j,
                        t[i].to = l, t[j].to = l
                 PROVE  t[i].n < t[j].n
      BY DEF RisingOn
    <2>1. i \in DOMAIN s /\ t[i] = s[i]
      BY <1>1
    <2>2. CASE j \in DOMAIN s
      BY <1>1, <1>5, <2>1, <2>2 DEF RisingOn
    <2>3. CASE j = Len(s) + 1
      BY <1>1, <1>5, <2>1, <2>3 DEF Below, On
    <2>4. QED
      BY <1>2, <2>2, <2>3
  <1>6. QED
    BY <1>4, <1>5 DEF t

LEMMA ShrinkLines ==
  ASSUME NEW s \in Seq(Words), s # <<>>, NEW l
  PROVE  /\ RisingOn(s, l) => RisingOn(Tail(s), l)
         /\ Head(s).to # l => On(s, l) = On(Tail(s), l)
         /\ Head(s).to = l => /\ On(s, l) = {Head(s).n} \union On(Tail(s), l)
                              /\ RisingOn(s, l) => Below({Head(s).n}, On(Tail(s), l))
  <1> DEFINE t == Tail(s)
  <1>1. /\ Len(s) \in Nat /\ Len(s) > 0
        /\ DOMAIN s = 1..Len(s) /\ DOMAIN t = 1..(Len(s) - 1)
        /\ \A i \in 1..(Len(s) - 1) : t[i] = s[i + 1]
        /\ Head(s) = s[1]
    BY HeadTailProperties, LenProperties, EmptySeq
  <1> HIDE DEF t
  <1>2. \A i \in DOMAIN t : i \in Nat /\ i >= 1 /\ i + 1 \in DOMAIN s /\ t[i] = s[i + 1]
    BY <1>1
  <1>3. \A i \in DOMAIN s : i = 1 \/ (i - 1 \in DOMAIN t /\ t[i - 1] = s[i])
    <2> SUFFICES ASSUME NEW i \in DOMAIN s, i # 1
                 PROVE  i - 1 \in DOMAIN t /\ t[i - 1] = s[i]
      OBVIOUS
    <2>1. i - 1 \in 1..(Len(s) - 1) /\ (i - 1) + 1 = i
      BY <1>1
    <2>2. QED
      BY <1>1, <2>1
  <1>4. On(t, l) \subseteq On(s, l)
    BY <1>2 DEF On
  <1>5. \A i \in DOMAIN s : s[i].to = l => i = 1 \/ s[i].n \in On(t, l)
    BY <1>3 DEF On
  <1>6. 1 \in DOMAIN s
    BY <1>1
  <1>7. Head(s).to # l => On(s, l) = On(t, l)
    <2>1. \A v : v \in On(s, l) /\ Head(s).to # l => v \in On(t, l)
      BY <1>1, <1>5, OnMembers
    <2>2. QED
      BY <1>4, <2>1
  <1>8. Head(s).to = l => On(s, l) = {Head(s).n} \union On(t, l)
    <2>1. \A v : v \in On(s, l) /\ Head(s).to = l => v \in {Head(s).n} \union On(t, l)
      BY <1>1, <1>5, OnMembers
    <2>2. Head(s).to = l => Head(s).n \in On(s, l)
      BY <1>1, <1>6, OnMembers
    <2>3. QED
      BY <1>4, <2>1, <2>2
  <1>9. RisingOn(s, l) => RisingOn(t, l)
    <2> SUFFICES ASSUME RisingOn(s, l), NEW i \in DOMAIN t, NEW j \in DOMAIN t, i < j,
                        t[i].to = l, t[j].to = l
                 PROVE  t[i].n < t[j].n
      BY DEF RisingOn
    <2>1. /\ i + 1 < j + 1 /\ i + 1 \in DOMAIN s /\ j + 1 \in DOMAIN s
          /\ s[i + 1].to = l /\ s[j + 1].to = l
      BY <1>2
    <2>2. s[i + 1].n < s[j + 1].n
      BY <2>1 DEF RisingOn
    <2>3. QED
      BY <1>2, <2>2
  <1>10. ASSUME RisingOn(s, l), Head(s).to = l, NEW i \in DOMAIN t, t[i].to = l
         PROVE  Head(s).n < t[i].n
    <2>1. 1 < i + 1 /\ i + 1 \in DOMAIN s /\ s[1].to = l /\ s[i + 1].to = l
      BY <1>1, <1>2, <1>10
    <2>2. s[1].n < s[i + 1].n
      BY <1>6, <1>10, <2>1 DEF RisingOn
    <2>3. QED
      BY <1>1, <1>2, <2>2
  <1>11. Head(s).to = l /\ RisingOn(s, l) => Below({Head(s).n}, On(t, l))
    BY <1>10 DEF Below, On
  <1>12. QED
    BY <1>7, <1>8, <1>9, <1>11 DEF t

LEMMA CutLines ==
  ASSUME NEW s \in Seq(Words), NEW t \in Prefixed(s), NEW l, RisingOn(s, l)
  PROVE  /\ RisingOn(t, l) /\ On(t, l) \subseteq On(s, l)
         /\ \A x \in On(t, l), y \in On(s, l) : y < x => y \in On(t, l)
  <1>1. PICK k \in 0..Len(s) : t = SubSeq(s, 1, k)
    BY DEF Prefixed
  <1>2. /\ Len(s) \in Nat /\ DOMAIN s = 1..Len(s) /\ DOMAIN t = 1..k
        /\ \A i \in 1..k : t[i] = s[i]
        /\ \A i \in DOMAIN s : s[i].n \in Nat
    <2>1. /\ Len(s) \in Nat /\ DOMAIN s = 1..Len(s) /\ DOMAIN t = 1..k
          /\ \A i \in 1..k : t[i] = s[i]
      BY <1>1, SubSeqProperties, LenProperties
    <2>2. \A i \in DOMAIN s : s[i] \in Words
      BY <2>1, ElementOfSeq
    <2>3. QED
      BY <2>1, <2>2 DEF Words
  <1>3. DOMAIN t \subseteq DOMAIN s /\ \A i \in DOMAIN t : t[i] = s[i]
    BY <1>2
  <1>4. RisingOn(t, l) /\ On(t, l) \subseteq On(s, l)
    BY <1>3 DEF RisingOn, On
  <1>5. ASSUME NEW i \in DOMAIN t, NEW j \in DOMAIN s, t[i].to = l, s[j].to = l,
               s[j].n < t[i].n
        PROVE  j \in DOMAIN t
    <2>1. ~(i <= j)
      <3>1. i \in DOMAIN s /\ t[i] = s[i]
        BY <1>3
      <3>2. i < j => s[i].n < s[j].n
        BY <1>5, <3>1 DEF RisingOn
      <3>3. s[i].n \in Nat /\ s[j].n \in Nat /\ i \in Nat /\ j \in Nat
        BY <1>2, <3>1
      <3>4. QED
        BY <1>5, <3>1, <3>2, <3>3
    <2>2. QED
      BY <1>2, <2>1
  <1>6. \A x \in On(t, l), y \in On(s, l) : y < x => y \in On(t, l)
    BY <1>3, <1>5 DEF On
  <1>7. QED
    BY <1>4, <1>6

-----------------------------------------------------------------------------
\* What the types say here.

LEMMA Numbers ==
  ASSUME TypeOK, IInv
  PROVE  /\ down \in Seq(Words) /\ out \in Seq(Words)
         /\ \A l \in Lanes : /\ handled[l] \in Seq(Nat) /\ chan[l] \in Seq(Nat)
                            /\ said[l] \in Nat /\ heldBy[l] \in Nat
         /\ hand = Nothing \/ (hand.to \in Lanes /\ hand.n \in Nat)
         /\ Nothing.to \notin Lanes /\ Reply \notin Lanes /\ Goodbye \notin Lanes
  <1>1. Places \subseteq Nat /\ \A s \in Seq(Places) : s \in Seq(Nat)
    <2>1. Places \subseteq Nat
      BY Sizes
    <2>2. QED
      BY <2>1, SeqMonotonic
  <1>2. /\ handled \in [Lanes -> Seq(Places)] /\ chan \in [Lanes -> Seq(Places)]
        /\ hand \in {Nothing} \union [to : Lanes, n : Places]
        /\ heldBy \in [Lanes -> {0} \union Places]
    BY TypeParts DEF ReaderTyped, DisplayTyped
  <1>3. \A l \in Lanes : heldBy[l] \in Nat
    <2>1. {0} \union Places \subseteq Nat
      BY <1>1
    <2>2. QED
      BY <1>2, <2>1
  <1>4. QED
    BY <1>1, <1>2, <1>3, TransportAssumption DEF IInv, Shape, Nothing, Line

LEMMA BoundIsNumber ==
  ASSUME TypeOK, IInv, Owed, NEW l \in Lanes
  PROVE  Bound(l) \in Nat /\ Bound(l) <= said[l]
  BY Numbers DEF Bound, Owed

-----------------------------------------------------------------------------
\* Steps that add nothing to what is said.

LEMMA StillStep ==
  ASSUME Ordered, UNCHANGED <<handled, chan, hand, down, out, said, gone, heldBy,
                              appEnd, displayEnd>>
  PROVE  Ordered'
  BY DEF Ordered, Owed, Streams, InOrder, Lined, Coming, Reached, InApp, Held, Bound

\* What the connection owes does not change once it is gone.
Steady == gone => gone' /\ UNCHANGED heldBy

LEMMA InOrderKept ==
  ASSUME InOrder, UNCHANGED handled, Steady
  PROVE  InOrder'
  BY DEF InOrder, Steady

\* What is closed loses, at the end, some of what was on its way.
LEMMA LinedKept ==
  ASSUME TypeOK, IInv, Ordered, NEW l \in Lanes, UNCHANGED <<handled, chan, hand>>,
         down' = down \/ down' \in Prefixed(down),
         said'[l] \in Nat, said[l] <= said'[l], Steady
  PROVE  Lined(l)'
  <1>1. Lined(l) /\ said[l] \in Nat
    BY Numbers DEF Ordered, Streams
  <1>2. /\ RisingOn(down', l) /\ On(down', l) \subseteq On(down, l)
        /\ \A x \in On(down', l), y \in On(down, l) : y < x => y \in On(down', l)
    BY <1>1, CutLines, Numbers DEF Lined
  <1>3. UNCHANGED <<InApp(l), Held(l)>>
    BY DEF InApp, Held
  <1>4. Reached(l)' \subseteq Reached(l)
    BY <1>2, <1>3 DEF Reached
  <1>5. /\ Below(InApp(l)', On(down', l))
        /\ Reached(l)' \subseteq 1..said'[l]
    <2>1. 1..said[l] \subseteq 1..said'[l]
      BY <1>1
    <2>2. Below(InApp(l)', On(down', l))
      BY <1>1, <1>2, <1>3 DEF Lined, Below
    <2>3. QED
      BY <1>1, <1>4, <2>1, <2>2 DEF Lined
  <1>6. ASSUME NEW x \in Reached(l)', NEW v \in 1..Bound(l)', v < x
        PROVE  v \in Reached(l)'
    <2>1. x \in Reached(l) /\ x \in 1..said[l]
      BY <1>1, <1>4 DEF Lined
    <2>2. v \in 1..Bound(l) /\ v \in Nat /\ x \in Nat
      <3>1. CASE gone
        BY <1>6, <2>1, <3>1 DEF Bound, Steady
      <3>2. CASE ~gone
        <4>1. Bound(l) = said[l]
          BY <3>2 DEF Bound
        <4>2. v \in Nat /\ v >= 1 /\ x \in Nat /\ x <= said[l]
          BY <1>1, <1>6, <2>1
        <4>3. QED
          BY <1>1, <1>6, <4>1, <4>2
      <3>3. QED
        BY <3>1, <3>2
    <2>3. v \in Reached(l)
      BY <1>1, <1>6, <2>1, <2>2 DEF Lined
    <2>4. CASE x \in On(down', l)
      BY <1>2, <1>3, <1>6, <2>3, <2>4 DEF Reached
    <2>5. CASE x \in InApp(l)
      <3>1. v \in On(down, l) => x < v
        BY <1>1, <2>5 DEF Lined, Below
      <3>2. v \notin On(down, l)
        BY <1>6, <2>2, <3>1
      <3>3. QED
        BY <1>3, <2>3, <3>2 DEF Reached
    <2>6. QED
      BY <1>3, <2>4, <2>5 DEF Reached
  <1>7. QED
    BY <1>1, <1>2, <1>3, <1>5, <1>6 DEF Lined, Held

LEMMA CutStep ==
  ASSUME TypeOK, IInv, Ordered, UNCHANGED <<handled, chan, hand, said>>,
         down' = down \/ down' \in Prefixed(down),
         UNCHANGED <<gone, heldBy>> \/ Finish,
         UNCHANGED <<down, out, appEnd, displayEnd>> \/ ~(appEnd' /\ displayEnd')
  PROVE  Ordered'
  <1>1. Steady /\ \A l \in Lanes : Bound(l)' = Bound(l)
    BY DEF Steady, Bound, Finish
  <1>2. Owed'
    BY Numbers DEF Ordered, Owed, Finish
  <1>3. InOrder'
    BY <1>1, InOrderKept DEF Ordered
  <1>4. ASSUME NEW l \in Lanes PROVE Lined(l)'
    BY <1>1, LinedKept, Numbers
  <1>5. ASSUME NEW l \in Lanes PROVE Coming(l)'
    <2>1. CASE UNCHANGED <<down, out, appEnd, displayEnd>>
      <3>1. Reached(l)' = Reached(l) /\ Coming(l)
        BY <2>1 DEF Reached, InApp, Held, Ordered, Streams
      <3>2. QED
        BY <1>1, <2>1, <3>1 DEF Coming
    <2>2. CASE ~(appEnd' /\ displayEnd')
      BY <2>2 DEF Coming
    <2>3. QED
      BY <2>1, <2>2
  <1>6. QED
    BY <1>2, <1>3, <1>4, <1>5 DEF Ordered, Streams

-----------------------------------------------------------------------------
\* Steps of the display's that say something.

LEMMA ComingOther ==
  ASSUME TypeOK, IInv, Ordered, NEW l \in Lanes, NEW x \in Words, x.to # l,
         out' = Append(out, x), said'[l] = said[l],
         UNCHANGED <<handled, chan, hand, down, gone, heldBy, appEnd, displayEnd>>
  PROVE  Coming(l)'
  <1>1. Coming(l)
    BY DEF Ordered, Streams
  <1>2. UNCHANGED <<Held(l), InApp(l), Reached(l), Bound(l)>>
    BY DEF Held, InApp, Reached, Bound
  <1>3. On(out', l) = On(out, l) /\ (RisingOn(out, l) => RisingOn(out', l))
    BY Numbers, GrowLines
  <1>4. QED
    BY <1>1, <1>2, <1>3 DEF Coming

LEMMA SayOther ==
  ASSUME TypeOK, IInv, Ordered, NEW x \in Words, x.to \notin Lanes, Say(x),
         UNCHANGED <<handled, chan, hand, said, gone, heldBy>>
  PROVE  Ordered'
  <1>1. CASE UNCHANGED <<out, socket>>
    BY <1>1, StillStep
  <1>2. CASE out' = Append(out, x) /\ UNCHANGED socket
    <2>1. Owed' /\ InOrder'
      BY InOrderKept DEF Ordered, Owed, Steady
    <2>2. ASSUME NEW l \in Lanes PROVE Lined(l)' /\ Coming(l)'
      BY <1>2, LinedKept, ComingOther, Numbers DEF Steady
    <2>3. QED
      BY <2>1, <2>2 DEF Ordered, Streams
  <1>3. CASE CloseSocket(FALSE) /\ UNCHANGED out
    BY <1>3, CutStep, CloseLoses DEF CloseSocket
  <1>4. QED
    BY <1>1, <1>2, <1>3 DEF Say

LEMMA RaiseOrdered ==
  ASSUME TypeOK, IInv, Ordered, NEW k \in Lanes, Raise(k)
  PROVE  Ordered'
  <1> DEFINE n == said[k] + 1
             x == Line(k, n)
  <1>1. /\ said[k] \in Nat /\ x \in Words /\ x.to = k /\ x.n = n
        /\ said' = [said EXCEPT ![k] = n] /\ said \in [Lanes -> Nat]
        /\ UNCHANGED <<handled, chan, hand, gone, heldBy, appEnd>>
        /\ Say(x)
    BY Numbers DEF Raise, Line, Words, IInv, Shape, Say, CloseSocket
  <1> HIDE DEF x
  <1>2. Owed' /\ InOrder'
    BY <1>1, InOrderKept, Numbers DEF Ordered, Owed, Steady
  <1>3. \A l \in Lanes : said[l] \in Nat /\ said'[l] \in Nat /\ said[l] <= said'[l]
    BY <1>1
  <1>4. down' = down \/ down' \in Prefixed(down)
    BY <1>1 DEF Say, CloseSocket
  <1>5. \A l \in Lanes : Lined(l)'
    BY <1>1, <1>3, <1>4, LinedKept DEF Steady
  <1>6. CASE gone /\ UNCHANGED <<out, socket>>
    <2>1. ASSUME NEW l \in Lanes PROVE Coming(l)'
      <3>1. Coming(l)
        BY DEF Ordered, Streams
      <3>2. UNCHANGED <<Reached(l), Bound(l)>>
        BY <1>1, <1>6 DEF Held, InApp, Reached, Bound
      <3>3. 1..said[l] \subseteq 1..said'[l]
        BY <1>3
      <3>4. QED
        BY <1>6, <3>1, <3>2, <3>3 DEF Coming
    <2>2. QED
      BY <1>2, <1>5, <2>1 DEF Ordered, Streams
  <1>7. CASE out' = Append(out, x) /\ UNCHANGED socket
    <2>1. Coming(k) /\ Lined(k) /\ said'[k] = n
      BY <1>1 DEF Ordered, Streams
    <2>2. UNCHANGED Reached(k)
      BY <1>1, <1>7 DEF Held, InApp, Reached
    <2>3. /\ On(out', k) = On(out, k) \union {n}
          /\ RisingOn(out, k) /\ Below(On(out, k), {n}) => RisingOn(out', k)
      <3>1. out \in Seq(Words) /\ x.to = k /\ x.n = n /\ x \in Words
        BY <1>1, Numbers
      <3> HIDE DEF n
      <3>2. QED
        BY <1>7, <3>1, GrowLines
    <2>4. /\ Below(1..said[k], {n}) /\ 1..said[k] \subseteq 1..n /\ n \in 1..n
          /\ 1..n = 1..said[k] \union {n}
      BY <1>1 DEF Below
    <2>5. Bound(k)' = IF gone THEN Bound(k) ELSE n
      BY <1>1 DEF Bound
    <2>6. Coming(k)'
      <3> SUFFICES ASSUME appEnd, displayEnd
                   PROVE  /\ RisingOn(out', k)
                          /\ Below(Reached(k), On(out', k))
                          /\ On(out', k) \subseteq 1..n
                          /\ 1..Bound(k)' \subseteq Reached(k) \union On(out', k)
        BY <1>7, <2>1, <2>2 DEF Coming
      <3>1. /\ RisingOn(out, k) /\ Below(Reached(k), On(out, k))
            /\ On(out, k) \subseteq 1..said[k] /\ Reached(k) \subseteq 1..said[k]
            /\ 1..Bound(k) \subseteq Reached(k) \union On(out, k)
        BY <2>1 DEF Coming, Lined
      <3> HIDE DEF n
      <3>2. RisingOn(out', k) /\ Below(Reached(k), On(out', k)) /\ On(out', k) \subseteq 1..n
        BY <2>3, <2>4, <3>1 DEF Below
      <3>3. 1..Bound(k)' \subseteq Reached(k) \union On(out', k)
        BY <2>3, <2>4, <2>5, <3>1 DEF Bound
      <3>4. QED
        BY <3>2, <3>3
    <2>7. ASSUME NEW l \in Lanes, l # k PROVE Coming(l)'
      <3>1. said'[l] = said[l] /\ x.to # l
        BY <1>1, <2>7
      <3>2. QED
        BY <1>1, <1>7, <3>1, ComingOther
    <2>8. QED
      BY <1>2, <1>5, <2>6, <2>7 DEF Ordered, Streams
  <1>8. CASE CloseSocket(FALSE)
    <2>1. \A l \in Lanes : Coming(l)'
      BY <1>8 DEF CloseSocket, Coming
    <2>2. QED
      BY <1>2, <1>5, <2>1 DEF Ordered, Streams
  <1>9. QED
    BY <1>1, <1>6, <1>7, <1>8 DEF Say

-----------------------------------------------------------------------------
\* Steps that move what was said along.

\* A line goes from the queue to the socket.
LEMMA WriteOrdered ==
  ASSUME TypeOK, IInv, Ordered, WriteLine \/ WriteFails
  PROVE  Ordered'
  <1>1. CASE WriteFails \/ ~appEnd
    <2>1. /\ UNCHANGED <<handled, chan, hand, said, down, gone, heldBy>>
          /\ ~(appEnd' /\ displayEnd')
      BY <1>1 DEF WriteLine, WriteFails
    <2>2. QED
      BY <2>1, CutStep
  <1>2. CASE WriteLine /\ appEnd
    <2> DEFINE x == Head(out)
    <2>1. /\ UNCHANGED <<handled, chan, hand, said, gone, heldBy, appEnd, displayEnd>>
          /\ out # <<>> /\ out' = Tail(out) /\ down' = Append(down, x)
          /\ appEnd /\ displayEnd /\ out \in Seq(Words) /\ down \in Seq(Words)
      BY <1>2, Numbers DEF WriteLine
    <2>2. x \in Words
      BY <2>1, TailLine
    <2> HIDE DEF x
    <2>3. Owed' /\ InOrder'
      BY <2>1, InOrderKept DEF Ordered, Owed, Steady
    <2>4. ASSUME NEW l \in Lanes PROVE Lined(l)' /\ Coming(l)'
      <3>1. Lined(l) /\ Coming(l)
        BY DEF Ordered, Streams
      <3>2. UNCHANGED <<InApp(l), Held(l), Bound(l)>>
        BY <2>1 DEF InApp, Held, Bound
      <3>3. /\ RisingOn(out', l) /\ Below(Reached(l), On(out, l))
            /\ On(out, l) \subseteq 1..said[l]
            /\ 1..Bound(l) \subseteq Reached(l) \union On(out, l)
            /\ RisingOn(out, l) /\ RisingOn(down, l)
            /\ Below(InApp(l), On(down, l))
            /\ Reached(l) \subseteq 1..said[l]
            /\ \A y \in Reached(l), v \in 1..Bound(l) : v < y => v \in Reached(l)
        BY <2>1, <3>1, ShrinkLines DEF Coming, Lined
      <3>4. CASE x.to # l
        <4>1. /\ On(out', l) = On(out, l) /\ On(down', l) = On(down, l)
              /\ RisingOn(down', l)
          BY <2>1, <2>2, <3>3, <3>4, GrowLines, ShrinkLines DEF x
        <4>2. Reached(l)' = Reached(l)
          BY <3>2, <4>1 DEF Reached
        <4>3. QED
          BY <2>1, <3>1, <3>2, <3>3, <4>1, <4>2 DEF Lined, Coming, Held
      <3>5. CASE x.to = l
        <4>1. /\ On(out, l) = {x.n} \union On(out', l)
              /\ Below({x.n}, On(out', l))
          BY <2>1, <3>3, <3>5, ShrinkLines DEF x
        <4>2. On(down', l) = On(down, l) \union {x.n}
          BY <2>1, <2>2, <3>5, GrowLines
        <4>3. Below(On(down, l), {x.n}) /\ Below(InApp(l), {x.n}) /\ x.n \in 1..said[l]
          BY <3>3, <4>1 DEF Below, Reached
        <4>4. RisingOn(down', l)
          BY <2>1, <2>2, <3>3, <3>5, <4>3, GrowLines
        <4>5. Reached(l)' = Reached(l) \union {x.n}
          BY <3>2, <4>2 DEF Reached
        <4>6. /\ Below(InApp(l), On(down', l)) /\ Reached(l)' \subseteq 1..said[l]
              /\ Below(Reached(l)', On(out', l)) /\ On(out', l) \subseteq 1..said[l]
              /\ 1..Bound(l) \subseteq Reached(l)' \union On(out', l)
          BY <3>3, <4>1, <4>2, <4>3, <4>5 DEF Below
        <4>7. ASSUME NEW y \in Reached(l)', NEW v \in 1..Bound(l), v < y
              PROVE  v \in Reached(l)'
          <5>1. v \in On(out', l) => y < v
            BY <4>6, <4>7 DEF Below
          <5>2. y \in Nat /\ v \in Nat
            <6>1. y \in 1..said[l] /\ said[l] \in Nat /\ Bound(l) \in Nat
              BY <4>6, Numbers, BoundIsNumber DEF Ordered
            <6>2. QED
              BY <6>1
          <5>3. QED
            BY <4>6, <4>7, <5>1, <5>2
        <4>8. QED
          BY <2>1, <3>1, <3>2, <3>3, <4>4, <4>6, <4>7 DEF Lined, Coming, Held
      <3>6. QED
        BY <3>4, <3>5
    <2>5. QED
      BY <2>3, <2>4 DEF Ordered, Streams
  <1>3. QED
    BY <1>1, <1>2

\* The reader takes a line off the socket.
LEMMA ReadOrdered ==
  ASSUME TypeOK, IInv, Ordered, Read
  PROVE  Ordered'
  <1> DEFINE x == Head(down)
  <1>1. /\ UNCHANGED <<handled, chan, said, gone, heldBy, out, appEnd, displayEnd>>
        /\ hand = Nothing /\ down # <<>> /\ down' = Tail(down) /\ down \in Seq(Words)
        /\ x.to \in {Reply, Goodbye} => hand' = Nothing
        /\ x.to \notin {Reply, Goodbye} => hand' = x
    BY Numbers DEF Read, Route
  <1> HIDE DEF x
  <1>2. Owed' /\ InOrder'
    BY <1>1, InOrderKept DEF Ordered, Owed, Steady
  <1>3. ASSUME NEW l \in Lanes PROVE Lined(l)' /\ Coming(l)'
    <2>1. Lined(l) /\ Coming(l)
      BY DEF Ordered, Streams
    <2>2. Held(l) = {} /\ InApp(l) = Elems(handled[l]) \union Elems(chan[l])
      BY <1>1, Numbers DEF Held, InApp
    <2>3. RisingOn(down', l) /\ Bound(l)' = Bound(l)
      BY <1>1, <2>1, ShrinkLines DEF Lined, Bound
    <2>4. CASE x.to # l
      <3>1. Held(l)' = {}
        BY <1>1, <2>4, Numbers DEF Held
      <3>2. On(down', l) = On(down, l) /\ InApp(l)' = InApp(l)
        BY <1>1, <2>2, <2>4, <3>1, ShrinkLines DEF x, InApp
      <3>3. Reached(l)' = Reached(l)
        BY <3>2 DEF Reached
      <3>4. Below(Elems(handled[l]) \union Elems(chan[l]), Held(l)')
        BY <3>1 DEF Below
      <3>5. QED
        BY <1>1, <2>1, <2>3, <3>2, <3>3, <3>4 DEF Lined, Coming
    <2>5. CASE x.to = l
      <3>1. Held(l)' = {x.n}
        BY <1>1, <2>5, Numbers DEF Held
      <3>2. /\ On(down, l) = {x.n} \union On(down', l)
            /\ Below({x.n}, On(down', l))
        BY <1>1, <2>1, <2>5, ShrinkLines DEF x, Lined
      <3>3. InApp(l)' = InApp(l) \union {x.n}
        BY <1>1, <2>2, <3>1 DEF InApp
      <3>4. Reached(l)' = Reached(l)
        BY <3>2, <3>3 DEF Reached
      <3>5. /\ Below(InApp(l)', On(down', l))
            /\ Below(Elems(handled[l]) \union Elems(chan[l]), Held(l)')
        BY <2>1, <2>2, <3>1, <3>2, <3>3 DEF Below, Lined
      <3>6. QED
        BY <1>1, <2>1, <2>3, <3>4, <3>5 DEF Lined, Coming
    <2>6. QED
      BY <2>4, <2>5
  <1>4. QED
    BY <1>2, <1>3 DEF Ordered, Streams

\* The reader hands it to the lane.
LEMMA DeliverOrdered ==
  ASSUME TypeOK, IInv, Ordered, Deliver
  PROVE  Ordered'
  <1>1. /\ UNCHANGED <<handled, down, said, gone, heldBy, out, appEnd, displayEnd>>
        /\ hand.to \in Lanes /\ hand.n \in Nat /\ hand' = Nothing
        /\ chan[hand.to] \in Seq(Nat)
    BY Numbers DEF Deliver
  <1>2. chan' = [chan EXCEPT ![hand.to] = Append(chan[hand.to], hand.n)]
        /\ chan \in [Lanes -> Seq(Places)]
    BY TypeParts DEF Deliver, ReaderTyped
  <1>3. Owed' /\ InOrder'
    BY <1>1, InOrderKept DEF Ordered, Owed, Steady
  <1>4. ASSUME NEW l \in Lanes PROVE Lined(l)' /\ Coming(l)'
    <2>1. Lined(l) /\ Coming(l) /\ Held(l)' = {} /\ Bound(l)' = Bound(l)
      BY <1>1, Numbers DEF Ordered, Streams, Held, Bound
    <2>2. Rising(chan'[l]) /\ Elems(chan'[l]) = Elems(chan[l]) \union Held(l)
      <3>1. CASE l = hand.to
        <4>1. Held(l) = {hand.n} /\ chan'[l] = Append(chan[l], hand.n)
          BY <1>2, <3>1 DEF Held
        <4>2. Rising(chan[l]) /\ Below(Elems(chan[l]), {hand.n})
          BY <2>1, <4>1 DEF Lined, Below
        <4>3. QED
          BY <1>1, <3>1, <4>1, <4>2, GrowValues
      <3>2. CASE l # hand.to
        BY <1>2, <2>1, <3>2 DEF Held, Lined
      <3>3. QED
        BY <3>1, <3>2
    <2>3. InApp(l)' = InApp(l)
      BY <1>1, <2>1, <2>2 DEF InApp
    <2>4. Reached(l)' = Reached(l)
      BY <1>1, <2>3 DEF Reached
    <2>5. /\ Below(Elems(handled[l]), Elems(chan'[l]))
          /\ Below(Elems(handled[l]) \union Elems(chan'[l]), Held(l)')
      BY <2>1, <2>2 DEF Lined, Below
    <2>6. QED
      BY <1>1, <2>1, <2>2, <2>3, <2>4, <2>5 DEF Lined, Coming
  <1>5. QED
    BY <1>3, <1>4 DEF Ordered, Streams

\* And the lane's goroutine to its handler: what is next is what comes next.
LEMMA HandleOrdered ==
  ASSUME TypeOK, IInv, Ordered, NEW k \in Lanes, Handle(k)
  PROVE  Ordered'
  <1> DEFINE x == Head(chan[k])
             h == handled[k]
  <1>1. /\ UNCHANGED <<hand, down, said, gone, heldBy, out, appEnd, displayEnd>>
        /\ chan[k] \in Seq(Nat) /\ chan[k] # <<>> /\ h \in Seq(Nat)
        /\ chan' = [chan EXCEPT ![k] = Tail(chan[k])]
        /\ handled' = [handled EXCEPT ![k] = Append(h, x)]
        /\ chan \in [Lanes -> Seq(Places)] /\ handled \in [Lanes -> Seq(Places)]
    BY Numbers, TypeParts DEF Handle, ReaderTyped
  <1>2. Lined(k) /\ Rising(chan[k]) /\ InOrder /\ Owed
    BY DEF Ordered, Streams, Lined
  <1>3. /\ x \in Nat /\ Elems(chan[k]) = {x} \union Elems(chan'[k])
        /\ Rising(chan'[k]) /\ Below({x}, Elems(chan'[k]))
    BY <1>1, <1>2, ShrinkValues
  <1>4. handled'[k] = Append(h, x) /\ Elems(handled'[k]) = Elems(h) \union {x}
    BY <1>1, <1>3, GrowValues
  <1> HIDE DEF x, h
  <1>5. ASSUME NEW l \in Lanes PROVE Lined(l)' /\ Coming(l)'
    <2>1. Lined(l) /\ Coming(l) /\ UNCHANGED <<Held(l), Bound(l)>>
      BY <1>1 DEF Ordered, Streams, Held, Bound
    <2>2. CASE l # k
      <3>1. UNCHANGED <<chan[l], handled[l]>>
        BY <1>1, <2>2
      <3>2. UNCHANGED <<InApp(l), Reached(l)>>
        BY <1>1, <2>1, <3>1 DEF InApp, Reached
      <3>3. QED
        BY <1>1, <2>1, <3>1, <3>2 DEF Lined, Coming
    <2>3. CASE l = k
      <3>1. InApp(l)' = InApp(l)
        BY <1>3, <1>4, <2>1, <2>3 DEF InApp, h
      <3>2. Reached(l)' = Reached(l)
        BY <1>1, <3>1 DEF Reached
      <3>3. /\ Below(Elems(handled'[l]), Elems(chan'[l]))
            /\ Below(Elems(handled'[l]) \union Elems(chan'[l]), Held(l)')
        <4>1. /\ Below(Elems(h), Elems(chan[k]))
              /\ Below(Elems(h) \union Elems(chan[k]), Held(k))
          BY <1>2 DEF Lined, h
        <4>2. Below(Elems(h) \union {x}, Elems(chan'[k]))
          BY <1>3, <4>1 DEF Below
        <4>3. Below(Elems(h) \union {x} \union Elems(chan'[k]), Held(k))
          BY <1>3, <4>1 DEF Below
        <4>4. QED
          BY <1>4, <2>1, <2>3, <4>2, <4>3
      <3>4. QED
        BY <1>1, <1>3, <2>1, <2>3, <3>1, <3>2, <3>3 DEF Lined, Coming
    <2>4. QED
      BY <2>2, <2>3
  <1>6. /\ Len(h) \in Nat /\ DOMAIN h = 1..Len(h)
        /\ DOMAIN handled'[k] = 1..(Len(h) + 1)
        /\ \A i \in 1..Len(h) : handled'[k][i] = h[i]
        /\ handled'[k][Len(h) + 1] = x
        /\ \A i \in 1..Len(h) : h[i] \in Nat /\ h[i] < x
    <2>1. h \in Seq(Nat)
      BY <1>1
    <2>2. \A i \in 1..Len(h) : h[i] < x
      <3>1. Below(Elems(h), {x})
        BY <1>2, <1>3 DEF Lined, Below, h
      <3>2. QED
        BY <2>1, <3>1, LenProperties DEF Below, Elems
    <2>3. QED
      BY <1>3, <1>4, <2>1, <2>2, AppendProperties, LenProperties, ElementOfSeq
  <1>7. x \in 1..said[k] /\ said[k] \in Nat /\ x \in Reached(k)
    BY <1>2, <1>3, Numbers DEF Lined, Reached, InApp
  <1>8. \/ x = Len(h) + 1
        \/ gone /\ x > heldBy[k]
    <2> SUFFICES ASSUME ~(gone /\ x > heldBy[k]) PROVE x = Len(h) + 1
      OBVIOUS
    <2>1. x <= Bound(k) /\ Bound(k) \in Nat
      BY <1>7, BoundIsNumber, Numbers DEF Bound
    <2>2. \A i \in 1..Len(h) : h[i] = i
      <3> SUFFICES ASSUME NEW i \in 1..Len(h), h[i] # i PROVE FALSE
        OBVIOUS
      <3>1. gone /\ h[i] > heldBy[k]
        BY <1>2, <1>6 DEF InOrder, h
      <3>2. h[i] < x /\ h[i] \in Nat /\ heldBy[k] \in Nat /\ x <= heldBy[k]
        BY <1>6, <2>1, <3>1, Numbers DEF Bound
      <3>3. QED
        BY <1>3, <3>1, <3>2
    <2>3. x > Len(h)
      <3>1. CASE Len(h) = 0
        BY <1>7, <3>1
      <3>2. CASE Len(h) # 0
        <4>1. Len(h) \in 1..Len(h)
          BY <1>6, <3>2
        <4>2. QED
          BY <1>6, <2>2, <4>1
      <3>3. QED
        BY <3>1, <3>2
    <2>4. ASSUME x > Len(h) + 1 PROVE FALSE
      <3> DEFINE v == Len(h) + 1
      <3>1. v \in 1..Bound(k) /\ v < x
        BY <1>3, <1>6, <2>1, <2>4
      <3>2. v \in Reached(k)
        BY <1>2, <1>7, <3>1 DEF Lined
      <3>3. v \notin Elems(h)
        <4>1. \A i \in DOMAIN h : h[i] # v
          BY <1>6, <2>2
        <4>2. QED
          BY <4>1 DEF Elems
      <3>4. \A y \in Elems(chan'[k]) \union Held(k) \union On(down, k) : x < y
        <4>1. x \in Elems(chan[k]) /\ x \in InApp(k)
          BY <1>3 DEF InApp
        <4>2. QED
          BY <1>2, <1>3, <4>1 DEF Lined, Below
      <3>5. v \notin Elems(chan'[k]) \union Held(k) \union On(down, k) \union {x}
        BY <1>3, <1>6, <2>4, <3>4
      <3> HIDE DEF v
      <3>6. QED
        BY <1>3, <3>2, <3>3, <3>5 DEF Reached, InApp, h
    <2>5. QED
      BY <1>3, <1>6, <2>3, <2>4
  <1>9. InOrder'
    <2> SUFFICES ASSUME NEW l \in Lanes, NEW i \in DOMAIN handled'[l]
                 PROVE  \/ handled'[l][i] = i
                        \/ /\ gone /\ handled'[l][i] > heldBy[l]
                           /\ i > 1 => handled'[l][i] > handled'[l][i - 1]
      BY <1>1 DEF InOrder
    <2>1. CASE l # k
      BY <1>1, <1>2, <2>1 DEF InOrder
    <2>2. CASE l = k /\ i \in 1..Len(h)
      <3>1. handled'[k][i] = h[i] /\ (i > 1 => handled'[k][i - 1] = h[i - 1])
        BY <1>6, <2>2
      <3>2. \/ h[i] = i
            \/ /\ gone /\ h[i] > heldBy[k]
               /\ i > 1 => h[i] > h[i - 1]
        BY <1>2, <1>6, <2>2 DEF InOrder, h
      <3>3. QED
        BY <2>2, <3>1, <3>2
    <2>3. CASE l = k /\ i = Len(h) + 1
      <3>1. handled'[k][i] = x /\ (i > 1 => handled'[k][i - 1] < x)
        <4>1. i > 1 => i - 1 \in 1..Len(h)
          BY <1>6, <2>3
        <4>2. QED
          BY <1>6, <2>3, <4>1
      <3>2. i > 1 => handled'[k][i - 1] \in Nat
        <4>1. i > 1 => i - 1 \in 1..Len(h)
          BY <1>6, <2>3
        <4>2. QED
          BY <1>6, <4>1
      <3>3. QED
        BY <1>3, <1>8, <2>3, <3>1, <3>2
    <2>4. QED
      BY <1>6, <2>1, <2>2, <2>3
  <1>10. Owed'
    BY <1>1, <1>2 DEF Owed
  <1>11. QED
    BY <1>5, <1>9, <1>10 DEF Ordered, Streams

-----------------------------------------------------------------------------
LEMMA OrderedInit == Init => Ordered
  <1> SUFFICES ASSUME Init PROVE Ordered
    OBVIOUS
  <1>1. DOMAIN <<>> = {}
    BY EmptySeq
  <1>2. \A l \in Lanes : /\ Elems(handled[l]) = {} /\ Elems(chan[l]) = {}
                         /\ On(down, l) = {} /\ On(out, l) = {} /\ Held(l) = {}
    <2>1. Nothing.to \notin Lanes
      BY TransportAssumption DEF Nothing, Line
    <2>2. QED
      BY <1>1, <2>1 DEF Init, Elems, On, Held
  <1>3. ASSUME NEW l \in Lanes PROVE Lined(l) /\ Coming(l)
    <2>1. Reached(l) = {} /\ InApp(l) = {} /\ Bound(l) = 0 /\ 1..0 = {}
      BY <1>2, <1>3 DEF Reached, InApp, Bound, Init
    <2>2. Rising(chan[l]) /\ RisingOn(down, l) /\ RisingOn(out, l)
      BY <1>1 DEF Init, Rising, RisingOn
    <2>3. QED
      BY <1>2, <2>1, <2>2 DEF Lined, Coming, Below
  <1>4. Owed /\ InOrder
    BY <1>1 DEF Init, Owed, InOrder
  <1>5. QED
    BY <1>3, <1>4 DEF Ordered, Streams

LEMMA OrderedStep ==
  ASSUME TypeOK, IInv, Ordered, [Next]_vars
  PROVE  Ordered'
  <1>1. ASSUME NEW g \in Goroutines, Call(g) \/ GoroutineStep(g) PROVE Ordered'
    BY <1>1, StillStep DEF GoroutineStep, Call, SendBatch, SendFails, TakeReply, NoReply
  <1>2. ASSUME NEW l \in Lanes, Answer(l) \/ Handled(l) PROVE Ordered'
    BY <1>2, StillStep DEF Answer, Handled
  <1>3. ASSUME NEW l \in Lanes, Handle(l) \/ Raise(l) PROVE Ordered'
    BY <1>3, HandleOrdered, RaiseOrdered
  <1>4. CASE Read \/ Deliver \/ WriteLine \/ WriteFails
    BY <1>4, ReadOrdered, DeliverOrdered, WriteOrdered
  <1>5. CASE ReadBatch \/ WriterStops \/ UNCHANGED vars
    BY <1>5, StillStep DEF ReadBatch, WriterStops
  <1>6. CASE Execute
    <2>1. Line(Reply, running) \in Words /\ Line(Reply, running).to \notin Lanes
      BY Numbers DEF Line, Words, IInv, Shape
    <2>2. QED
      BY <1>6, <2>1, SayOther DEF Execute
  <1>7. CASE HangUp
    <2>1. Line(Goodbye, 0) \in Words /\ Line(Goodbye, 0).to \notin Lanes
      BY Numbers DEF Line, Words
    <2>2. QED
      BY <1>7, <2>1, SayOther DEF HangUp
  <1>8. CASE ReaderEnds \/ AppCloses \/ Break \/ HangUpFinishes
    BY <1>8, CutStep DEF ReaderEnds, AppCloses, Break, HangUpFinishes
  <1>9. CASE Leave \/ HangUpCloses
    BY <1>9, CutStep, CloseLoses DEF Leave, HangUpCloses, CloseSocket
  <1>10. QED
    BY <1>1, <1>2, <1>3, <1>4, <1>5, <1>6, <1>7, <1>8, <1>9 DEF Next, LaneStep

\* A handler is given what the display said on its lane in order and once, nothing
\* left out (send, display.go:1195); only of what was said after the connection was
\* given up something may be missing, and what arrives of it is in order.
THEOREM EverythingInOrder == Spec => []InOrder
  <1>1. Ordered => InOrder
    BY DEF Ordered
  <1>2. TypeOK /\ IInv /\ Ordered /\ [Next]_vars => Ordered'
    BY OrderedStep
  <1>3. QED
    BY <1>1, <1>2, OrderedInit, AlwaysIInv, TypeCorrect, PTL DEF Spec

-----------------------------------------------------------------------------
\* Why what was queued still goes.

\* A line the writer will write, or the reader read.
OnItsWay(x) == x \in Elems(down) \/ (~written /\ x \in Elems(out))

\* A connection whose socket nobody closed but its own hang-up, in no hurry, loses
\* nothing: the reader stops after the socket, the socket after the writer, and
\* the writer after what was queued.
Unhurried ==
  ~spoiled =>
    /\ ~appEnd => heard
    /\ heard => ~displayEnd /\ down = <<>>
    /\ ~displayEnd => hung = "done" /\ written
    /\ written => gone
    /\ gone => hung \in {"waits", "done"}
    /\ hung # "no" => farewell \/ OnItsWay(Line(Goodbye, 0))
    /\ \A n \in answered : got[n] = n \/ replies = <<n>> \/ OnItsWay(Line(Reply, n))

LEMMA NoElems == Elems(<<>>) = {}
  <1>1. DOMAIN <<>> = {}
    BY EmptySeq
  <1>2. QED
    BY <1>1 DEF Elems

\* Steps that touch neither the lines nor the ends of the connection.
LEMMA QuietStep ==
  ASSUME Unhurried,
         UNCHANGED <<heard, farewell, appEnd, displayEnd, down, out, written, hung,
                     gone, spoiled, answered>>,
         \A n \in answered : got[n] = n \/ replies = <<n>> => got'[n] = n \/ replies' = <<n>>
  PROVE  Unhurried'
  BY DEF Unhurried, OnItsWay

\* Of an unspoiled connection a line is dropped only once it is gone.
LEMMA SayGoes ==
  ASSUME Unhurried, ~spoiled', NEW x \in Words, Say(x)
  PROVE  /\ ~spoiled /\ UNCHANGED socket
         /\ out' = Append(out, x) \/ (gone /\ out' = out)
  <1>1. CASE UNCHANGED <<out, socket, spoiled>> /\ gone
    BY <1>1
  <1>2. CASE out' = Append(out, x) /\ UNCHANGED <<socket, spoiled>>
    BY <1>2
  <1>3. CASE ~gone /\ CloseSocket(FALSE)
    <2>1. ~spoiled /\ ~displayEnd
      BY <1>3 DEF CloseSocket
    <2>2. QED
      BY <1>3, <2>1 DEF Unhurried
  <1>4. QED
    BY <1>1, <1>2, <1>3 DEF Say

LEMMA SayKeepsGoing ==
  ASSUME TypeOK, IInv, Unhurried, ~spoiled', NEW x \in Words, Say(x), UNCHANGED written
  PROVE  /\ \A y : OnItsWay(y) => OnItsWay(y)'
         /\ ~gone => OnItsWay(x)'
  <1>1. UNCHANGED down /\ (out' = Append(out, x) \/ (gone /\ out' = out)) /\ ~spoiled
    BY SayGoes
  <1>2. out \in Seq(Words)
    BY Numbers
  <1>3. out' = Append(out, x) => Elems(out') = Elems(out) \union {x}
    BY <1>2, GrowMembers
  <1>4. \A y : OnItsWay(y) => OnItsWay(y)'
    BY <1>1, <1>3 DEF OnItsWay
  <1>5. ~gone => ~written
    BY <1>1 DEF Unhurried
  <1>6. ~gone => OnItsWay(x)'
    BY <1>1, <1>3, <1>5 DEF OnItsWay
  <1>7. QED
    BY <1>4, <1>6

LEMMA RaiseGoes ==
  ASSUME TypeOK, IInv, Unhurried, NEW l \in Lanes, Raise(l)
  PROVE  Unhurried'
  <1> SUFFICES ASSUME ~spoiled' PROVE Unhurried'
    BY DEF Unhurried
  <1>1. Line(l, said[l] + 1) \in Words
    BY DEF Line, Words, IInv, Shape
  <1>2. \A y : OnItsWay(y) => OnItsWay(y)'
    BY <1>1, SayKeepsGoing DEF Raise
  <1>3. ~spoiled /\ UNCHANGED socket
    BY <1>1, SayGoes DEF Raise
  <1>4. UNCHANGED <<heard, farewell, written, hung, gone, answered, got, replies>>
    BY DEF Raise
  <1>5. QED
    BY <1>2, <1>3, <1>4 DEF Unhurried

LEMMA ExecuteGoes ==
  ASSUME TypeOK, IInv, Unhurried, Execute
  PROVE  Unhurried'
  <1> SUFFICES ASSUME ~spoiled' PROVE Unhurried'
    BY DEF Unhurried
  <1>1. PICK n \in Nat : n = running
    BY DEF IInv, Shape
  <1> DEFINE x == Line(Reply, n)
  <1>2. /\ x \in Words /\ Say(x)
        /\ UNCHANGED <<heard, farewell, written, hung, gone, got, replies>>
    BY <1>1 DEF Line, Words, Execute
  <1>3. /\ \A y : OnItsWay(y) => OnItsWay(y)'
        /\ ~gone => OnItsWay(x)'
    <2> HIDE DEF x
    <2>1. QED
      BY <1>2, SayKeepsGoing
  <1>4. ~spoiled /\ UNCHANGED socket
    <2> HIDE DEF x
    <2>1. QED
      BY <1>2, SayGoes
  <1>5. \A m \in answered' : m \in answered \/ (~gone /\ m = n)
    BY <1>1 DEF Execute
  <1>6. QED
    BY <1>2, <1>3, <1>4, <1>5 DEF Unhurried

LEMMA HangUpGoes ==
  ASSUME TypeOK, IInv, Unhurried, HangUp
  PROVE  Unhurried'
  <1> SUFFICES ASSUME ~spoiled' PROVE Unhurried'
    BY DEF Unhurried
  <1> DEFINE x == Line(Goodbye, 0)
  <1>1. x \in Words /\ Say(x) /\ hung = "no" /\ hung' = "said"
    BY DEF Line, Words, HangUp
  <1>2. UNCHANGED <<heard, farewell, written, gone, answered, got, replies>>
    BY DEF HangUp
  <1>3. /\ \A y : OnItsWay(y) => OnItsWay(y)'
        /\ ~gone => OnItsWay(x)'
    <2> HIDE DEF x
    <2>1. QED
      BY <1>1, <1>2, SayKeepsGoing
  <1>4. ~spoiled /\ UNCHANGED socket
    <2> HIDE DEF x
    <2>1. QED
      BY <1>1, SayGoes
  <1>5. ~gone /\ displayEnd
    BY <1>1, <1>4 DEF Unhurried
  <1>6. QED
    BY <1>1, <1>2, <1>3, <1>4, <1>5 DEF Unhurried

\* The reader takes a reply only when none waits to be taken.
LEMMA ReadGoes ==
  ASSUME TypeOK, IInv, Unhurried, Read
  PROVE  Unhurried'
  <1> SUFFICES ASSUME ~spoiled' PROVE Unhurried'
    BY DEF Unhurried
  <1> DEFINE x == Head(down)
  <1>1. /\ ~heard /\ down # <<>> /\ down' = Tail(down) /\ Route(x) /\ ~spoiled
        /\ down \in Seq(Words)
        /\ UNCHANGED <<heard, appEnd, displayEnd, written, hung, gone, out, answered, got>>
    BY Numbers DEF Read
  <1>2. Elems(down) = {x} \union Elems(down')
    BY <1>1, ShrinkMembers
  <1>3. x.to = Reply => replies = <<>>
    <2>1. Bare(down) => x.to # Reply
      BY <1>1, TailLine
    <2>2. CASE writeMu = Nobody
      BY <1>1, <2>1, <2>2 DEF IInv, Pipeline, Clean
    <2>3. CASE writeMu # Nobody
      BY <1>1, <2>1, <2>3 DEF IInv, Pipeline, Pipe, Sent, Runs, Queued, Travels, Routed
    <2>4. QED
      BY <2>2, <2>3
  <1> HIDE DEF x
  <1>4. \A y : OnItsWay(y) => OnItsWay(y)' \/ y = x
    BY <1>1, <1>2 DEF OnItsWay
  <1>5. farewell \/ OnItsWay(Line(Goodbye, 0)) => farewell' \/ OnItsWay(Line(Goodbye, 0))'
    <2>1. farewell => farewell'
      BY <1>1 DEF Route
    <2>2. x = Line(Goodbye, 0) => farewell'
      BY <1>1, TransportAssumption DEF Route, Line
    <2>3. QED
      BY <1>4, <2>1, <2>2
  <1>6. ASSUME NEW n, replies = <<n>> \/ OnItsWay(Line(Reply, n))
        PROVE  replies' = <<n>> \/ OnItsWay(Line(Reply, n))'
    <2>1. replies = <<n>> => replies' = <<n>>
      BY <1>1, <1>3 DEF Route
    <2>2. x = Line(Reply, n) => replies' = <<n>>
      BY <1>1, <1>3 DEF Route, Line
    <2>3. QED
      BY <1>4, <1>6, <2>1, <2>2
  <1>7. QED
    BY <1>1, <1>5, <1>6 DEF Unhurried

LEMMA WriteGoes ==
  ASSUME TypeOK, IInv, Unhurried, WriteLine
  PROVE  Unhurried'
  <1> SUFFICES ASSUME ~spoiled' PROVE Unhurried'
    BY DEF Unhurried
  <1> DEFINE x == Head(out)
  <1>1. /\ ~written /\ displayEnd /\ ~spoiled /\ out # <<>> /\ out' = Tail(out)
        /\ UNCHANGED <<heard, farewell, appEnd, displayEnd, written, hung, gone,
                       answered, got, replies>>
        /\ out \in Seq(Words) /\ down \in Seq(Words)
    BY Numbers DEF WriteLine
  <1>2. appEnd /\ ~heard
    BY <1>1 DEF Unhurried
  <1>3. x \in Words /\ down' = Append(down, x)
    BY <1>1, <1>2, TailLine DEF WriteLine
  <1>4. Elems(out) = {x} \union Elems(out')
    BY <1>1, ShrinkMembers
  <1> HIDE DEF x
  <1>5. Elems(down') = Elems(down) \union {x}
    BY <1>1, <1>3, GrowMembers
  <1>6. \A y : OnItsWay(y) => OnItsWay(y)'
    BY <1>1, <1>4, <1>5 DEF OnItsWay
  <1>7. QED
    BY <1>1, <1>2, <1>6 DEF Unhurried

\* The writer stops with nothing left to write.
LEMMA WriterGoes ==
  ASSUME Unhurried, WriteFails \/ WriterStops
  PROVE  Unhurried'
  <1> SUFFICES ASSUME ~spoiled' PROVE Unhurried'
    BY DEF Unhurried
  <1>1. CASE WriteFails
    BY <1>1 DEF WriteFails, Unhurried
  <1>2. CASE WriterStops
    <2>1. Elems(out) = {}
      BY <1>2, NoElems DEF WriterStops
    <2>2. \A y : OnItsWay(y) => OnItsWay(y)'
      BY <1>2, <2>1 DEF WriterStops, OnItsWay
    <2>3. QED
      BY <1>2, <2>2 DEF WriterStops, Unhurried
  <1>3. QED
    BY <1>1, <1>2

\* The ends of the connection.
LEMMA EndsGo ==
  ASSUME Unhurried,
         ReaderEnds \/ AppCloses \/ Break \/ Leave \/ HangUpFinishes \/ HangUpCloses
  PROVE  Unhurried'
  <1> SUFFICES ASSUME ~spoiled' PROVE Unhurried'
    BY DEF Unhurried
  <1>1. ~spoiled /\ ~AppCloses /\ ~Break
    <2>1. ~AppCloses /\ ~Break
      BY DEF AppCloses, Break
    <2>2. CASE ReaderEnds \/ HangUpFinishes
      BY <2>1, <2>2 DEF ReaderEnds, HangUpFinishes
    <2>3. CASE Leave \/ HangUpCloses
      BY <2>1, <2>3 DEF Leave, HangUpCloses, CloseSocket
    <2>4. QED
      BY <2>1, <2>2, <2>3
  <1>2. UNCHANGED <<farewell, out, written, answered, got, replies>>
    BY <1>1 DEF ReaderEnds, Leave, HangUpFinishes, HangUpCloses
  <1>3. CASE ReaderEnds
    <2>1. down = <<>> /\ ~displayEnd
      BY <1>1, <1>3 DEF ReaderEnds, Unhurried
    <2>2. UNCHANGED <<down, displayEnd, hung, gone>> /\ heard' /\ ~appEnd'
      BY <1>3 DEF ReaderEnds
    <2>3. QED
      BY <1>1, <1>2, <2>1, <2>2 DEF Unhurried, OnItsWay
  <1>4. CASE Leave
    <2>1. ~displayEnd
      BY <1>1, <1>4 DEF Leave, CloseSocket
    <2>2. UNCHANGED <<heard, appEnd, down, hung>> /\ ~displayEnd' /\ gone'
      BY <1>4, <2>1 DEF Leave, CloseSocket, Finish
    <2>3. QED
      BY <1>1, <1>2, <2>1, <2>2 DEF Unhurried, OnItsWay
  <1>5. CASE HangUpFinishes
    <2>1. /\ UNCHANGED <<heard, appEnd, displayEnd, down>> /\ gone'
          /\ hung = "said" /\ hung' = "waits"
      BY <1>5 DEF HangUpFinishes, Finish
    <2>2. QED
      BY <1>1, <1>2, <2>1 DEF Unhurried, OnItsWay
  <1>6. CASE HangUpCloses
    <2>1. /\ UNCHANGED <<heard, appEnd, gone>> /\ hung = "waits" /\ hung' = "done"
          /\ displayEnd' = FALSE
      BY <1>6 DEF HangUpCloses, CloseSocket
    <2>2. displayEnd
      BY <1>1, <2>1 DEF Unhurried
    <2>3. written /\ up = <<>>
      BY <1>6, <2>2 DEF HangUpCloses, CloseSocket
    <2>4. down' = down
      BY <1>6, <2>3 DEF HangUpCloses, CloseSocket
    <2>5. QED
      BY <1>1, <1>2, <2>1, <2>2, <2>3, <2>4 DEF Unhurried, OnItsWay
  <1>7. QED
    BY <1>1, <1>3, <1>4, <1>5, <1>6

LEMMA UnhurriedInit == Init => Unhurried
  BY DEF Init, Unhurried

LEMMA UnhurriedStep ==
  ASSUME TypeOK, IInv, Unhurried, [Next]_vars
  PROVE  Unhurried'
  <1>1. ASSUME NEW g \in Goroutines, Call(g) \/ SendBatch(g) \/ SendFails(g) \/ NoReply(g)
        PROVE  Unhurried'
    BY <1>1, QuietStep DEF Call, SendBatch, SendFails, NoReply
  <1>2. ASSUME NEW g \in Goroutines, TakeReply(g) PROVE Unhurried'
    <2>1. writeMu = g /\ writeMu # Nobody /\ call[g] \in Calls
      BY <1>2, TransportAssumption DEF TakeReply, IInv, Writer, Goroutines
    <2>2. replies = <<call[g]>> /\ got' = [got EXCEPT ![call[g]] = call[g]]
      <3>1. PICK n \in Calls : n = call[g]
        BY <2>1
      <3>2. replies = <<n>>
        BY <1>2, <2>1, <3>1 DEF TakeReply, IInv, Replies
      <3>3. Head(<<n>>) = n
        OBVIOUS
      <3>4. QED
        BY <1>2, <3>1, <3>2, <3>3 DEF TakeReply
    <2>3. ASSUME NEW n \in answered, got[n] = n \/ replies = <<n>> PROVE got'[n] = n
      <3>1. got \in [Calls -> Nat] /\ n \in Calls
        BY TypeParts DEF IInv, Shape, DisplayTyped
      <3>2. replies = <<n>> => n = call[g]
        BY <2>2
      <3>3. QED
        BY <2>1, <2>2, <2>3, <3>1, <3>2
    <2>4. QED
      BY <1>2, <2>3, QuietStep DEF TakeReply
  <1>3. ASSUME NEW l \in Lanes, LaneStep(l) PROVE Unhurried'
    BY <1>3, QuietStep DEF LaneStep, Handle, Answer, Handled
  <1>4. CASE Deliver \/ ReadBatch \/ UNCHANGED vars
    BY <1>4, QuietStep DEF Deliver, ReadBatch
  <1>5. ASSUME NEW l \in Lanes, Raise(l) PROVE Unhurried'
    BY <1>5, RaiseGoes
  <1>6. QED
    BY <1>1, <1>2, <1>3, <1>4, <1>5, ExecuteGoes, HangUpGoes, ReadGoes, WriteGoes,
       WriterGoes, EndsGo
    DEF Next, GoroutineStep

\* "Whatever was already queued still goes" (writeLoop, display.go:1217): an
\* application that reads to the end of a connection hung up on unhurriedly has
\* heard its goodbye, and has every reply that was queued.
THEOREM QueuedGoes == Spec => []QueuedStillGoes
  <1>1. Unhurried => QueuedStillGoes
    <2> SUFFICES ASSUME Unhurried, heard, ~spoiled
                 PROVE  farewell /\ \A n \in answered : got[n] = n \/ replies = <<n>>
      BY DEF QueuedStillGoes
    <2>1. hung = "done" /\ written /\ down = <<>>
      BY DEF Unhurried
    <2>2. \A y : ~OnItsWay(y)
      BY <2>1, NoElems DEF OnItsWay
    <2>3. QED
      BY <2>1, <2>2 DEF Unhurried
  <1>2. TypeOK /\ IInv /\ Unhurried /\ [Next]_vars => Unhurried'
    BY UnhurriedStep
  <1>3. QED
    BY <1>1, <1>2, UnhurriedInit, AlwaysIInv, TypeCorrect, PTL DEF Spec
=============================================================================
