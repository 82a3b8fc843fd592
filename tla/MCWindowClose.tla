---------------------------- MODULE MCWindowClose ---------------------------
(***************************************************************************)
(* WindowClose on small instances: two applications with a window each, or *)
(* one application whose window w2 is a child of its window w1.            *)
(***************************************************************************)
EXTENDS WindowClose, TLC

CONSTANTS w1, w2, a1, a2

OwnerOne == [w \in Windows |-> a1]
OwnerApart == (w1 :> a1) @@ (w2 :> a2)
NoParents == [w \in Windows |-> Nobody]
Family == (w1 :> Nobody) @@ (w2 :> w1)

\* What the rest of a behaviour, and the properties, can tell apart: of a
\* settled question, only that its id is spent and whether its timer's run is
\* still on its way.
Counting == open \union {p[1] : p \in posted}

View == <<open, ticking, posted, gone, Cardinality({d \in Ids : asker[d] = Nobody}),
          [d \in Counting |-> <<about[d], armed[d]>>],
          windows, quits, dialogs, thread>>
=============================================================================
