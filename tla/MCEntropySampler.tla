-------------------------- MODULE MCEntropySampler --------------------------
(***************************************************************************)
(* Symmetry of the addresses of EntropySampler for TLC's safety runs.      *)
(***************************************************************************)
EXTENDS EntropySampler, TLC

SourceSymmetry == Permutations(Sources)
=============================================================================
