-------------------------- MODULE MCSourceRegistry --------------------------
(***************************************************************************)
(* Small instances of SourceRegistry: two deployments, of which the later  *)
(* one drops a source and withdraws the approval of another.               *)
(***************************************************************************)
EXTENDS SourceRegistry, TLC

CONSTANTS s1, s2, m1, o1, o2, u1, u2, y1, y2

Entry(o, u, eligible) == [org |-> o, url |-> u, eligible |-> eligible, official |-> TRUE]

MCOld == s1 :> Entry(o1, u1, TRUE) @@ s2 :> Entry(o2, u2, TRUE)
MCNew == s1 :> Entry(o1, u1, FALSE)
MCStable == s1 :> Entry(o1, u1, TRUE)

MCRegistries == {MCOld, MCNew, MCStable}
MCRegistryOf == y1 :> MCOld @@ y2 :> MCNew
MCRegistryOfStable == y1 :> MCOld @@ y2 :> MCStable

=============================================================================
