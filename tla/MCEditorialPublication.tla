----------------------- MODULE MCEditorialPublication -----------------------
(***************************************************************************)
(* Small instances of EditorialPublication.                                *)
(***************************************************************************)
EXTENDS EditorialPublication, TLC

CONSTANTS site

MCSourceOf == [i \in Items |-> site]

Symmetry == Permutations(Bodies)

=============================================================================
