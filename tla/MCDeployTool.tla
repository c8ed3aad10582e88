---------------------------- MODULE MCDeployTool ----------------------------
(* Small instances of DeployTool for TLC. *)
EXTENDS DeployTool, TLC

CONSTANTS alice, bob, w1, w2

\* The two accounts are alike, and so are the two builds.
Symmetry == Permutations({alice, bob}) \cup Permutations({w1, w2})
=============================================================================
