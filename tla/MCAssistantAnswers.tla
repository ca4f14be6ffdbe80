------------------------- MODULE MCAssistantAnswers -------------------------
(***************************************************************************)
(* A small instance of AssistantAnswers, in which every reason to leave an  *)
(* item out decides alone about some pack: a chunk; its correction for some *)
(* users; the same text from a source of the second tier as well; a chunk   *)
(* without citation; one of another domain, too long beside any other; and  *)
(* three live pages, more than fit, beside one that gives instructions.     *)
(***************************************************************************)
EXTENDS AssistantAnswers

CONSTANTS f1, v1, v2, s1, s2, c1, c2, c3, c4, c5, p1, p2, p3, p4

Info(sources, body) ==
    [sources |-> sources, language |-> "en", domain |-> "everyday-living",
     correction |-> FALSE, applies |-> [f \in RetrievalFields |-> {}],
     body |-> body, size |-> 1, cited |-> TRUE, control |-> FALSE]

MCInfoOf ==
    c1 :> Info({s1}, 1)
    @@ c2 :> [Info({s1}, 2) EXCEPT !.correction = TRUE,
                                   !.applies = [f \in RetrievalFields |-> {v1}]]
    @@ c3 :> Info({s1, s2}, 1)
    @@ c4 :> [Info({s2}, 3) EXCEPT !.cited = FALSE]
    @@ c5 :> [Info({s1}, 4) EXCEPT !.domain = "immigration", !.size = MaxCharacters]
    @@ p1 :> Info({s1, s2}, 5)
    @@ p2 :> Info({s2}, 6)
    @@ p3 :> Info({s1}, 7)
    @@ p4 :> [Info({s1}, 8) EXCEPT !.control = TRUE]

MCTierOf == s1 :> 1 @@ s2 :> 2

=============================================================================
