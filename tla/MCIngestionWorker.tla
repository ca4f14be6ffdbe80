------------------------- MODULE MCIngestionWorker -------------------------
(***************************************************************************)
(* Small instances of IngestionWorker.  Where there are two jobs, the      *)
(* registry of the second worker may lack the second of them.              *)
(***************************************************************************)
EXTENDS IngestionWorker, TLC

CONSTANTS j1, j2, w1, w2, site

MCJobs == {j1, j2}
MCSourceOf == [j \in Jobs |-> site]
MCMaxAttempts == [j \in Jobs |-> 2]
MCServed == [w \in Workers |-> IF w = w2 THEN Jobs \ {j2} ELSE Jobs]
MCServedAll == [w \in Workers |-> Jobs]

Symmetry == Permutations(Messages) \cup Permutations(Contents)

=============================================================================
