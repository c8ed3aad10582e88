---------------------------- MODULE MCMintSession ----------------------------
(* A small instance of MintSession for TLC. *)
EXTENDS MintSession, TLC

CONSTANTS ann, ben

\* The two buyers are alike.
Symmetry == Permutations({ann, ben})
=============================================================================
