---------------------------- MODULE MCIndexJobs ----------------------------
(* Small instances of IndexJobs.                                           *)
EXTENDS IndexJobs, TLC

Symmetry == Permutations(Workers) \cup Permutations(Keys) \cup Permutations(Items)

=============================================================================
