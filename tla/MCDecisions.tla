----------------------------- MODULE MCDecisions ----------------------------
(* Decisions on a small instance: two questions, of one connection or two.  *)
EXTENDS Decisions
=============================================================================
