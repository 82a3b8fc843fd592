------------------------------ MODULE MCStore -------------------------------
(* Two keys, one of them the start of the other, as "fig" of "figaro". *)
EXTENDS Store, TLC

CONSTANTS fig, figaro, psl, txt, piece, s1, s2, s3, older, newer

MCRank == fig :> 0 @@ figaro :> 1
MCShorter == fig :> {} @@ figaro :> {fig}

\* an item holds nothing, or a piece and is a bundle
MCBundleOf == <<fig, <<piece>> >> :> newer @@ <<figaro, <<piece>> >> :> older

Alike == Permutations({s1, s2, s3})
=============================================================================
