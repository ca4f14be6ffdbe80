------------------------- MODULE ConversationState -------------------------
(***************************************************************************)
(* What a conversation knows of its user: facts, the missing context, and  *)
(* the facts that contradicted each other.  The resolver applies a list of *)
(* updates to a copy of the state and returns it; an update that no active *)
(* user message supports makes it raise, and the state stays as it was.    *)
(***************************************************************************)
EXTENDS Naturals

CONSTANTS
    Fields,           \* ConversationField
    RetrievalFields,  \* those that filter knowledge
    Values,           \* what a field may be
    NoFact, NoDraft

Facts == [value: Values, status: {"confirmed", "inferred"}]
ConflictPairs == [previous: Facts, proposed: Facts]

\* ConversationState.
States == [facts: [Fields -> Facts \cup {NoFact}],
           conflicts: [Fields -> ConflictPairs \cup {NoFact}],
           missing: SUBSET Fields]

ASSUME ConversationAssumption ==
    /\ RetrievalFields \subseteq Fields
    /\ NoFact \notin Facts \cup ConflictPairs \cup Values
    /\ NoDraft \notin States

VARIABLES
    memory,   \* the state of the conversation
    draft     \* the copy that apply works on

conversationVars == <<memory, draft>>

EmptyState ==
    [facts |-> [f \in Fields |-> NoFact], conflicts |-> [f \in Fields |-> NoFact],
     missing |-> {}]

ConversationInit == memory = EmptyState /\ draft = NoDraft

Active(state) == {f \in Fields : state.facts[f] # NoFact}
Conflicted(state) == {f \in Fields : state.conflicts[f] # NoFact}

\* validate_state: a field is active, missing or in conflict, or none of these.
\* A conflicted field may be missing too.
Valid(state) ==
    /\ Active(state) \cap state.missing = {}
    /\ Active(state) \cap Conflicted(state) = {}

-----------------------------------------------------------------------------
(***************************************************************************)
(* ConversationStateResolver.apply, one update of its list at a time.      *)
(***************************************************************************)
\* facts[f] = fact, and no conflict or missing entry of f.
Settle(state, f, fact) ==
    [state EXCEPT !.facts[f] = fact, !.conflicts[f] = NoFact, !.missing = @ \ {f}]

\* Mutant: the contradicted fact stays active.
ContestBeside(state, f, fact) ==
    [state EXCEPT !.conflicts[f] = [previous |-> state.facts[f], proposed |-> fact],
                  !.missing = @ \ {f}]

Contest(state, f, fact) ==
    [state EXCEPT !.facts[f] = NoFact,
                  !.conflicts[f] = [previous |-> state.facts[f], proposed |-> fact],
                  !.missing = @ \ {f}]

Forget(state, f) ==
    [state EXCEPT !.facts[f] = NoFact, !.conflicts[f] = NoFact]

Contradicts(state, f, fact) ==
    state.facts[f] # NoFact /\ state.facts[f].value # fact.value

BeginApply ==
    /\ draft = NoDraft
    /\ draft' = memory
    /\ UNCHANGED memory

Observe(f, fact) ==
    /\ draft # NoDraft
    /\ draft' = IF Contradicts(draft, f, fact) THEN Contest(draft, f, fact)
                                               ELSE Settle(draft, f, fact)
    /\ UNCHANGED memory

Correct(f, fact) ==
    /\ draft # NoDraft
    /\ draft' = Settle(draft, f, fact)
    /\ UNCHANGED memory

RemoveFact(f) ==
    /\ draft # NoDraft
    /\ draft' = Forget(draft, f)
    /\ UNCHANGED memory

\* fact_source_message_invalid or fact_quote_mismatch.
RaiseStateError ==
    /\ draft # NoDraft
    /\ draft' = NoDraft
    /\ UNCHANGED memory

\* The copy is validated as a ConversationState and returned.
EndApply ==
    /\ draft # NoDraft
    /\ Valid(draft)
    /\ memory' = draft
    /\ draft' = NoDraft

\* Outside src/: the workflow finds that it needs f.
RequireContext(f) ==
    /\ draft = NoDraft
    /\ f \notin Active(memory)
    /\ memory' = [memory EXCEPT !.missing = @ \cup {f}]
    /\ UNCHANGED draft

ConversationStep ==
    \/ BeginApply
    \/ \E f \in Fields, fact \in Facts : Observe(f, fact) \/ Correct(f, fact)
    \/ \E f \in Fields : RemoveFact(f) \/ RequireContext(f)
    \/ RaiseStateError
    \/ EndApply

-----------------------------------------------------------------------------
(***************************************************************************)
(* What the state is used for.                                             *)
(***************************************************************************)
\* ClarificationPlanner.plan asks for the first conflict, or else the first
\* missing field: the fields that may come first.
Clarifications(state) ==
    IF Conflicted(state) # {} THEN Conflicted(state) ELSE state.missing

Confirmed(state) == {f \in Active(state) : state.facts[f].status = "confirmed"}

\* ContextualQueryResolver.resolve: confirmed facts fill what the request leaves
\* open; what the request says wins.
Resolve(requested, state) ==
    [f \in RetrievalFields |->
        IF requested[f] = NoFact /\ f \in Confirmed(state) THEN state.facts[f].value
                                                           ELSE requested[f]]

-----------------------------------------------------------------------------
(* Properties.                                                             *)

ConversationTypeOK == memory \in States /\ draft \in States \cup {NoDraft}

\* apply never raises on its own result: no list of updates, in any order, makes a
\* field active and missing, or active and in conflict.
AppliedStatesValid == Valid(memory) /\ (draft # NoDraft => Valid(draft))

=============================================================================
