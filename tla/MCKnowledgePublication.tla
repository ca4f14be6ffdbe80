----------------------- MODULE MCKnowledgePublication -----------------------
(***************************************************************************)
(* Small instances of KnowledgePublication.                                *)
(***************************************************************************)
EXTENDS KnowledgePublication, TLC

CONSTANTS site

MCSourceOf == [i \in Items |-> site]

Symmetry ==
    Permutations(Reviewers) \cup Permutations(Publishers)
        \cup Permutations(Items) \cup Permutations(Documents)

=============================================================================
