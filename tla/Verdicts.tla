------------------------------ MODULE Verdicts ------------------------------
(***************************************************************************)
(* What a decision promises, and nothing of how: a question is put once,   *)
(* for one connection, and comes to exactly one verdict.  Once a           *)
(* connection has left nothing more is asked of it, and what it owed can   *)
(* only come back unsaid.  Decisions.tla is the mechanism that keeps this  *)
(* promise.                                                                *)
(***************************************************************************)
EXTENDS Sequences

CONSTANTS
  Ids,      \* the ids decisions are minted under
  Conns,    \* the connections questions are put to
  NoConn    \* the asker of an id that has not been minted

VARIABLES
  asker,    \* asker[d]: the connection d was put to, or NoConn
  told,     \* told[d]: every verdict the caller of d has been called back with
  gone      \* the connections that have left

vars == <<asker, told, gone>>

Verdict == {"allowed", "denied", "unsaid"}

Init ==
  /\ asker = [d \in Ids |-> NoConn]
  /\ told = [d \in Ids |-> <<>>]
  /\ gone = {}

Put(d, c) ==
  /\ asker[d] = NoConn
  /\ c \notin gone
  /\ asker' = [asker EXCEPT ![d] = c]
  /\ UNCHANGED <<told, gone>>

Tell(d, v) ==
  /\ asker[d] # NoConn
  /\ told[d] = <<>>
  /\ v # "unsaid" => asker[d] \notin gone
  /\ told' = [told EXCEPT ![d] = <<v>>]
  /\ UNCHANGED <<asker, gone>>

Leave(c) ==
  /\ c \notin gone
  /\ gone' = gone \union {c}
  /\ UNCHANGED <<asker, told>>

Next ==
  \/ \E d \in Ids, c \in Conns : Put(d, c)
  \/ \E d \in Ids, v \in Verdict : Tell(d, v)
  \/ \E c \in Conns : Leave(c)

Spec == Init /\ [][Next]_vars
=============================================================================
