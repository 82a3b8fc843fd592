----------------------------- MODULE MCSession ------------------------------
(* Two windows of an application, and a part in one of them. *)
EXTENDS Session, TLC

CONSTANTS w1, w2, part, name

Alike == Permutations({w1, w2})
=============================================================================
