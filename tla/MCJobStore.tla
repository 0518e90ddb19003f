----------------------------- MODULE MCJobStore -----------------------------
(* Model-checking instance of JobStore.                                    *)
EXTENDS JobStore, TLC

MCSymmetry == Permutations(Callers) \cup Permutations(Jobs) \cup Permutations(Hashes)
=============================================================================
