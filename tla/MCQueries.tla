------------------------------ MODULE MCQueries ------------------------------
(* Queries on a small instance: two sources, a sequence on each, either of which may be read twice. *)
EXTENDS Queries

CONSTANTS s1, s2, t1, t2

TwoSources == t1 :> s1 @@ t2 :> s2
=============================================================================
