------------------------------- MODULE Answers -------------------------------
(***************************************************************************)
(* What a source promises whoever reads it, whichever side of a wire its   *)
(* records are on: a scope asked for is answered with its own records, all *)
(* of them and in the order they were produced, or is refused, or was let  *)
(* go by the reader -- and whichever it is, it is over.                    *)
(***************************************************************************)
EXTENDS Naturals, Sequences

CONSTANT Scopes

VARIABLES
  asked,     \* the scopes asked for
  fate,      \* fate[q]: what the source has made of the question so far
  made,      \* made[q]: how many records it has produced
  got,       \* got[q]: what reached the reader, as <<question, place>>
  ended      \* ended[q]: how the reader was told it ended, "no" if it was not

avars == <<asked, fate, made, got, ended>>

Finished == {"complete", "error", "refused"}

Init ==
  /\ asked = {}
  /\ fate = [q \in Scopes |-> "none"]
  /\ made = [q \in Scopes |-> 0]
  /\ got = [q \in Scopes |-> <<>>]
  /\ ended = [q \in Scopes |-> "no"]

Ask(q) ==
  /\ q \notin asked
  /\ asked' = asked \union {q}
  /\ UNCHANGED <<fate, made, got, ended>>

TakeUp(q, how) ==
  /\ q \in asked
  /\ fate[q] = "none"
  /\ how \in {"open", "refused"}
  /\ fate' = [fate EXCEPT ![q] = how]
  /\ UNCHANGED <<asked, made, got, ended>>

Produce(q) ==
  /\ fate[q] = "open"
  /\ made' = [made EXCEPT ![q] = @ + 1]
  /\ UNCHANGED <<asked, fate, got, ended>>

Finish(q, how) ==
  /\ fate[q] = "open"
  /\ how \in {"complete", "error"}
  /\ fate' = [fate EXCEPT ![q] = how]
  /\ UNCHANGED <<asked, made, got, ended>>

\* One more record of the question reaches its reader, or the end does, or
\* both at once; the end only behind the last record.
Deliver(q, more, end) ==
  /\ more \/ end
  /\ ended[q] = "no"
  /\ more => Len(got[q]) < made[q]
  /\ got' = [got EXCEPT ![q] = IF more THEN Append(@, <<q, Len(@) + 1>>) ELSE @]
  /\ end => fate[q] \in Finished /\ Len(got'[q]) = made[q]
  /\ ended' = [ended EXCEPT ![q] = IF end THEN fate[q] ELSE @]
  /\ UNCHANGED <<asked, fate, made>>

HangUp(Q) ==
  /\ \A q \in Q : q \in asked /\ ended[q] = "no"
  /\ ended' = [q \in Scopes |-> IF q \in Q THEN "closed" ELSE ended[q]]
  /\ UNCHANGED <<asked, fate, made, got>>

Next ==
  \/ \E q \in Scopes :
       \/ Ask(q) \/ Produce(q)
       \/ \E how \in {"open", "refused"} : TakeUp(q, how)
       \/ \E how \in {"complete", "error"} : Finish(q, how)
       \/ \E more, end \in BOOLEAN : Deliver(q, more, end)
  \/ \E Q \in SUBSET Scopes : HangUp(Q)

Spec == Init /\ [][Next]_avars
=============================================================================
