-------------------------- MODULE MCEvidenceStore --------------------------
(* Small instances of EvidenceStore, whose sessions are interchangeable.   *)
EXTENDS EvidenceStore, TLC

CONSTANTS s1, s2, s3

Symmetry == Permutations(Sessions)

=============================================================================
