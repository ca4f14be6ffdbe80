-------------------------- MODULE AssistantAnswers --------------------------
(***************************************************************************)
(* One user's questions, one after the other: planning, scope, retrieval,  *)
(* the fallback to live pages of approved sources, the attempts of the     *)
(* model gateway, and the validation and the repair of what the model      *)
(* wrote.  Sources are activated and deactivated meanwhile, and between    *)
(* questions the state of the conversation is updated.                     *)
(***************************************************************************)
EXTENDS ConversationState, SequencesExt

CONSTANTS
    Languages, ConversationLanguage, Intents,
    Sources, TierOf,      \* trust_tier of every source
    Chunks, Pages,        \* retrievable chunks; live pages
    InfoOf,               \* what is known of each of them
    CandidateLimit, RetrievalLimit, MaxItems, MaxCharacters,
    MaxSources,           \* ai_web_max_sources
    MaxAttempts,          \* of the approved model route
    WebFallback,          \* ai_web_fallback_enabled
    Unknown,              \* an evidence id that is none
    NoPlan

\* The sources of a page are those whose host name covers its host.
Infos == [sources: SUBSET Sources, language: Languages, domain: STRING,
          correction: BOOLEAN, applies: [RetrievalFields -> SUBSET Values],
          body: Nat, size: Nat, cited: BOOLEAN, control: BOOLEAN]

ASSUME AssistantAssumption ==
    /\ ConversationLanguage \in Languages
    /\ TierOf \in [Sources -> 1..3]
    /\ IsFiniteSet(Chunks) /\ IsFiniteSet(Pages)
    /\ Chunks \cap Pages = {} /\ Unknown \notin Chunks \cup Pages
    /\ InfoOf \in [Chunks \cup Pages -> Infos]
    /\ \A k \in Chunks \cup Pages : InfoOf[k].sources # {}
    /\ CandidateLimit \in Nat \ {0} /\ RetrievalLimit \in 1..CandidateLimit
    /\ MaxItems \in 1..RetrievalLimit /\ MaxCharacters \in Nat \ {0}
    /\ MaxSources \in Nat \ {0}
    /\ MaxAttempts \in 1..3 /\ WebFallback \in BOOLEAN

VARIABLES
    active,     \* sources that are active, allowed, and of an active official organization
    pc,         \* where the request is
    plan,       \* RetrievalPlan, and whether the caller holds a conversation state
    matched,    \* the chunks that the text search matched
    approved,   \* the sources that the web fallback read as approved
    hits,       \* the pages it has still to fetch
    fetched,    \* those it has fetched
    evidence,   \* the items of the evidence pack
    attempts,   \* failed calls of the model provider
    outcome     \* AssistantAnswerData of the last question

web == <<approved, hits, fetched>>
request == <<pc, plan, matched, web, evidence, attempts, outcome>>
vars == <<active, request, conversationVars>>

-----------------------------------------------------------------------------
(***************************************************************************)
(* Planning and scope.                                                     *)
(***************************************************************************)
IntentDomains ==
    [pinfl |-> {"everyday-living"}, banking |-> {"everyday-living"},
     renting |-> {"everyday-living"}, visa_eligibility |-> {"immigration"},
     foreigner_registration |-> {"immigration"}, residence_permit |-> {"immigration"},
     stay_extension |-> {"immigration"}, healthcare |-> {"healthcare"},
     business_registration |-> {"business-registration"},
     arrival_entry |-> {"immigration", "tourism"}, customs |-> {"immigration", "tourism"},
     departure |-> {"immigration", "tourism"}, moving |-> {"immigration", "everyday-living"},
     employment |-> {"immigration", "everyday-living"},
     study |-> {"immigration", "everyday-living"},
     general |-> {"immigration", "tourism", "business-registration", "healthcare",
                  "everyday-living"}]

HighRisk(p) ==
    IntentDomains[p.intent] \cap {"immigration", "business-registration", "healthcare"} # {}

AllowedTiers(p) == IF HighRisk(p) THEN {1} ELSE {1, 2}

\* What a question says: whether it holds an orchestration delimiter, and names
\* Uzbekistan, another country, or a supported subject.
Questions == [intent: Intents, language: Languages, delimiter: BOOLEAN,
              uzbekistan: BOOLEAN, abroad: BOOLEAN, supported: BOOLEAN]

\* UzbekistanScopeGuard.allows
InScope(q) ==
    /\ q.abroad => q.uzbekistan
    /\ q.intent = "general" => q.uzbekistan /\ q.supported

Plans == [language: Languages, intent: Intents,
          applicability: [RetrievalFields -> Values \cup {NoFact}], stateful: BOOLEAN]

-----------------------------------------------------------------------------
(***************************************************************************)
(* HybridRetrievalService and EvidencePackBuilder, without vectors, which  *)
(* the assistant does not ask for.                                         *)
(***************************************************************************)
\* The WHERE clause: every source of the chunk is eligible.
Retrievable(p) ==
    {c \in Chunks : /\ InfoOf[c].sources \subseteq active
                    /\ InfoOf[c].language = p.language
                    /\ InfoOf[c].domain \in IntentDomains[p.intent]}

\* Mutant: corrections have the rank of their text alone.
ByScore(chunks) == SetToSeqs(chunks)

\* ORDER BY authority_priority DESC, raw_score DESC: corrections come first.
Rankings(chunks) ==
    LET corrections == {c \in chunks : InfoOf[c].correction}
    IN {first \o rest : first \in SetToSeqs(corrections),
                        rest \in SetToSeqs(chunks \ corrections)}

Top(s, n) == SubSeq(s, 1, IF Len(s) < n THEN Len(s) ELSE n)

\* _matches_plan; a chunk has the tier of its least trusted source.
MatchesPlan(c, p) ==
    /\ InfoOf[c].language = p.language
    /\ InfoOf[c].domain \in IntentDomains[p.intent]
    /\ \A s \in InfoOf[c].sources :
          (\A t \in InfoOf[c].sources : TierOf[t] <= TierOf[s]) => TierOf[s] \in AllowedTiers(p)
    /\ \A f \in RetrievalFields :
          p.applicability[f] # NoFact /\ InfoOf[c].applies[f] # {} =>
              p.applicability[f] \in InfoOf[c].applies[f]

\* The items of s that are in S, in their order.
Keep(s, S) ==
    LET kept[n \in 0..Len(s)] ==
            IF n = 0 THEN <<>>
            ELSE IF s[n] \in S THEN Append(kept[n - 1], s[n]) ELSE kept[n - 1]
    IN kept[Len(s)]

Corrections(s) == {i \in DOMAIN s : InfoOf[s[i]].correction}

\* _prefer_manual_corrections
PreferCorrections(s) ==
    LET corrected == UNION {InfoOf[s[i]].sources : i \in Corrections(s)}
    IN Keep(s, {c \in Chunks : \/ InfoOf[c].correction
                               \/ InfoOf[c].sources \cap corrected = {}})

Retrieved(ranking, p) ==
    Top(PreferCorrections(Keep(Top(ranking, CandidateLimit),
                               {c \in Chunks : MatchesPlan(c, p)})), RetrievalLimit)

Characters(items) ==
    LET total[n \in 0..Len(items)] ==
            IF n = 0 THEN 0 ELSE total[n - 1] + InfoOf[items[n]].size
    IN total[Len(items)]

\* Mutant: the limits are compared before the item is counted.
FitsBefore(items, k) ==
    /\ ~InfoOf[k].control /\ InfoOf[k].cited
    /\ \A i \in DOMAIN items : InfoOf[items[i]].body # InfoOf[k].body
    /\ Len(items) <= MaxItems
    /\ Characters(items) <= MaxCharacters

\* What is quarantined, not cited, a duplicate, or beyond the limits is skipped.
Fits(items, k) ==
    /\ ~InfoOf[k].control /\ InfoOf[k].cited
    /\ \A i \in DOMAIN items : InfoOf[items[i]].body # InfoOf[k].body
    /\ Len(items) < MaxItems
    /\ Characters(items) + InfoOf[k].size <= MaxCharacters

\* EvidencePackBuilder.build goes on with what follows.
Build(s) ==
    LET pack[n \in 0..Len(s)] ==
            IF n = 0 THEN <<>>
            ELSE IF Fits(pack[n - 1], s[n]) THEN Append(pack[n - 1], s[n]) ELSE pack[n - 1]
    IN pack[Len(s)]

-----------------------------------------------------------------------------
(***************************************************************************)
(* What the model writes, and GroundedAnswerValidator.                     *)
(***************************************************************************)
\* A claim cites one item.  Its quote is exact or not, and may hold nothing but
\* stopwords; its text shares with the quote too few words, enough for medium,
\* or enough for high risk.  What is not in the pack cannot be quoted: such a claim
\* is at its most convincing.
Claims(items) ==
    [cites: Range(items), quote: {"exact"}, support: 0..2]
    \cup [cites: Range(items), quote: {"inexact", "stopwords"}, support: {0}]
    \cup [cites: {Unknown}, quote: {"exact"}, support: {2}]

\* GroundedAnswers of at most two claims, which name at most one fact as used; the
\* evidence that the limitations name is known or not.
RawAnswers(items) ==
    [language: Languages,
     claims: {{x, y} : x, y \in Claims(items)} \cup {{}},
     used: {{}} \cup {{u} : u \in [field: Fields, value: Values]},
     limits: {{}, {Unknown}}]

Supported(claim, p) == claim.support >= (IF HighRisk(p) THEN 2 ELSE 1)

ClaimIssue(claim, items, p) ==
    CASE claim.cites \notin Range(items) -> "citation_evidence_unknown"
      [] claim.quote = "inexact" -> "citation_quote_mismatch"
      [] ~Supported(claim, p) -> "claim_not_supported"
      [] OTHER -> "none"

\* _validate_context: used facts are confirmed facts of the state, if there is one.
ContextMismatch(used, p) ==
    \E u \in used : \/ ~p.stateful
                   \/ u.field \notin Confirmed(memory)
                   \/ memory.facts[u.field].value # u.value

Issues(a, items, p) ==
    ({ClaimIssue(claim, items, p) : claim \in a.claims} \ {"none"})
    \cup (IF ContextMismatch(a.used, p) THEN {"answer_context_mismatch"} ELSE {})
    \cup (IF a.language = p.language THEN {} ELSE {"answer_language_mismatch"})
    \cup (IF a.limits \subseteq Range(items) THEN {} ELSE {"limitation_evidence_unknown"})

\* _repair_claims_extractively: the text of an unsupported claim becomes its quote.
Repair(a, p) ==
    [a EXCEPT !.claims =
        {IF Supported(claim, p) \/ claim.quote = "stopwords"
           THEN claim ELSE [claim EXCEPT !.support = 2] : claim \in a.claims}]

OnlyUnsupported(a, items, p) == Issues(a, items, p) = {"claim_not_supported"}

\* Mutant: the repaired answer is not validated again.
AcceptedOnce(a, items, p) ==
    IF Issues(a, items, p) = {} THEN {a}
    ELSE IF OnlyUnsupported(a, items, p) THEN {Repair(a, p)} ELSE {}

\* The answer that is accepted, if one is.
Accepted(a, items, p) ==
    IF OnlyUnsupported(a, items, p)
      THEN {b \in {Repair(a, p)} : Issues(b, items, p) = {}}
      ELSE {b \in {a} : Issues(b, items, p) = {}}

-----------------------------------------------------------------------------
Kinds == {"none", "control_delimiter", "out_of_scope", "insufficient", "clarification",
          "accepted"}
Outcome(kind, claims, items, high) ==
    [kind |-> kind, claims |-> claims, items |-> items, high |-> high]
Closed(kind) == Outcome(kind, {}, <<>>, FALSE)

Init ==
    /\ ConversationInit
    /\ active = Sources
    /\ pc = "idle" /\ plan = NoPlan
    /\ matched = {} /\ evidence = <<>>
    /\ approved = {} /\ hits = <<>> /\ fetched = <<>>
    /\ attempts = 0
    /\ outcome = Closed("none")

Finish(result) ==
    /\ outcome' = result
    /\ pc' = "idle" /\ plan' = NoPlan
    /\ matched' = {} /\ evidence' = <<>>
    /\ approved' = {} /\ hits' = <<>> /\ fetched' = <<>>
    /\ attempts' = 0
    /\ UNCHANGED <<active, conversationVars>>

\* answer(): the question, and what its request says of the user.  A caller without
\* a conversation state has an empty memory.
Ask(q, requested, stateful) ==
    /\ pc = "idle" /\ draft = NoDraft
    /\ stateful \/ memory = EmptyState
    /\ IF q.delimiter THEN Finish(Closed("control_delimiter"))
       ELSE IF ~InScope(q) THEN Finish(Closed("out_of_scope"))
       ELSE /\ pc' = "retrieve"
            /\ outcome' = Closed("none")
            /\ plan' = [language |-> q.language, intent |-> q.intent, stateful |-> stateful,
                        applicability |-> IF stateful THEN Resolve(requested, memory)
                                                      ELSE requested]
            /\ UNCHANGED <<active, matched, web, evidence, attempts, conversationVars>>

Retrieve ==
    /\ pc = "retrieve"
    /\ \E chunks \in SUBSET Retrievable(plan) : \E ranking \in Rankings(chunks) :
          /\ matched' = chunks
          /\ evidence' = Build(Retrieved(ranking, plan))
    /\ pc' = IF evidence' = <<>> /\ WebFallback THEN "web" ELSE "orchestrate"
    /\ UNCHANGED <<active, plan, web, attempts, outcome, conversationVars>>

\* approved_sources, of the tiers of the plan; without any there is no search.  No
\* chunk is in the pack, nor will be.
ReadApproved ==
    /\ pc = "web"
    /\ approved' = {s \in active : TierOf[s] \in AllowedTiers(plan)}
    /\ matched' = {}
    /\ pc' = IF approved' = {} THEN "orchestrate" ELSE "search"
    /\ UNCHANGED <<active, plan, hits, fetched, evidence, attempts, outcome,
                   conversationVars>>

\* A page is found, and fetched, on the word of any approved source whose host name
\* covers its host.
Covered(k) == InfoOf[k].sources \cap approved # {}

\* A failed search finds nothing.
SearchWeb ==
    /\ pc = "search"
    /\ \E found \in {S \in SUBSET Pages : Cardinality(S) <= MaxSources} :
          /\ \A k \in found : Covered(k)
          /\ hits' \in SetToSeqs(found)
    /\ pc' = IF hits' = <<>> THEN "orchestrate" ELSE "fetch"
    /\ UNCHANGED <<active, plan, matched, approved, fetched, evidence, attempts, outcome,
                   conversationVars>>

\* A page that cannot be fetched or read is skipped.
FetchPage ==
    /\ pc = "fetch"
    /\ hits' = Tail(hits)
    /\ fetched' \in {fetched, Append(fetched, Head(hits))}
    /\ IF hits' = <<>> THEN evidence' = Build(fetched') /\ pc' = "orchestrate"
                       ELSE UNCHANGED <<evidence, pc>>
    /\ UNCHANGED <<active, plan, matched, approved, attempts, outcome, conversationVars>>

\* GroundedAnswerOrchestrator.answer before the model is asked.
Orchestrate ==
    /\ pc = "orchestrate"
    /\ IF plan.stateful /\ plan.language # ConversationLanguage
         THEN Finish(Closed("insufficient"))
       ELSE IF plan.stateful /\ Clarifications(memory) # {}
         THEN Finish(Closed("clarification"))
       ELSE IF evidence = <<>>
         THEN Finish(Closed("insufficient"))
       ELSE /\ pc' = "generate"
            /\ matched' = {} /\ approved' = {} /\ fetched' = <<>>
            /\ UNCHANGED <<active, plan, hits, evidence, attempts, outcome, conversationVars>>

\* ModelGateway.invoke: no approved route, no provider, or a budget is exceeded.
GatewayRefuses ==
    /\ pc = "generate" /\ attempts = 0
    /\ Finish(Closed("insufficient"))

AttemptAgain ==
    /\ attempts' = attempts + 1
    /\ UNCHANGED <<active, pc, plan, matched, web, evidence, outcome, conversationVars>>

\* Mutant: the attempts are counted anew when they are used up.
RetryableFailureCountedAnew ==
    /\ pc = "generate"
    /\ attempts' = (attempts + 1) % MaxAttempts
    /\ UNCHANGED <<active, pc, plan, matched, web, evidence, outcome, conversationVars>>

\* HTTP 429 or 5xx, or a transport error.
RetryableFailure ==
    /\ pc = "generate"
    /\ IF attempts + 1 < MaxAttempts THEN AttemptAgain ELSE Finish(Closed("insufficient"))

\* Any other error, a late or too expensive result, an answer of the wrong shape.
FatalFailure ==
    /\ pc = "generate"
    /\ Finish(Closed("insufficient"))

ModelAnswers ==
    /\ pc = "generate"
    /\ \E a \in RawAnswers(evidence) :
          Finish(IF Accepted(a, evidence, plan) = {} THEN Closed("insufficient")
                 ELSE Outcome("accepted", UNION {b.claims : b \in Accepted(a, evidence, plan)},
                              evidence, HighRisk(plan)))

Pipeline ==
    \/ Retrieve \/ ReadApproved \/ SearchWeb \/ FetchPage \/ Orchestrate
    \/ GatewayRefuses \/ RetryableFailure \/ FatalFailure \/ ModelAnswers

\* A registry synchronisation or an administrator, in a process of their own.
SwitchSource(s) ==
    /\ active' = IF s \in active THEN active \ {s} ELSE active \cup {s}
    /\ UNCHANGED <<request, conversationVars>>

\* Updates arrive between questions, after the last answer was delivered.
UpdateConversation ==
    /\ pc = "idle"
    /\ ConversationStep
    /\ outcome' = Closed("none")
    /\ UNCHANGED <<active, pc, plan, matched, web, evidence, attempts>>

Next ==
    \/ \E q \in Questions, requested \in [RetrievalFields -> Values \cup {NoFact}],
          stateful \in BOOLEAN : Ask(q, requested, stateful)
    \/ Pipeline
    \/ \E s \in Sources : SwitchSource(s)
    \/ UpdateConversation

Spec == Init /\ [][Next]_vars

\* A request runs in a thread of its own until it returns; the transports to the
\* provider and to the web answer or time out.
FairSpec == Spec /\ WF_vars(Pipeline)

-----------------------------------------------------------------------------
(* Properties.                                                             *)

TypeOK ==
    /\ ConversationTypeOK
    /\ active \subseteq Sources
    /\ pc \in {"idle", "retrieve", "web", "search", "fetch", "orchestrate", "generate"}
    /\ plan \in Plans \cup {NoPlan}
    /\ matched \subseteq Chunks /\ approved \subseteq Sources
    /\ Range(hits) \cup Range(fetched) \subseteq Pages
    /\ Range(evidence) \subseteq Chunks \cup Pages
    /\ attempts \in 0..MaxAttempts - 1
    /\ outcome.kind \in Kinds

\* Whatever the model wrote, repaired or not: every claim of an accepted answer
\* cites an item of the evidence that was returned with it, quotes it exactly, and
\* has the support that the risk asks for.
AnswersAreGrounded ==
    \A claim \in outcome.claims :
        /\ claim.cites \in Range(outcome.items)
        /\ claim.quote # "inexact"
        /\ claim.support >= (IF outcome.high THEN 2 ELSE 1)

\* "Suppress stale evidence when a reviewed correction targets the same source": a
\* correction that the search matched and that applies to the user is never cut
\* off by a limit while what it corrects stays.
CorrectionsWin ==
    \A c \in matched, k \in matched \cap Range(evidence) :
        InfoOf[c].correction /\ MatchesPlan(c, plan) /\ ~InfoOf[k].correction =>
            InfoOf[c].sources \cap InfoOf[k].sources = {}

\* All that the model is given is cited and gives no instructions; a chunk is in the
\* question's language and domains, applies to the user, and all its sources are of
\* the trust tiers that the risk allows, as is one of the sources that cover a
\* page; bodies are distinct, and the limits are kept whatever was skipped.
EvidenceAllowed ==
    pc \in {"orchestrate", "generate"} =>
        /\ \A k \in Range(evidence) : InfoOf[k].cited /\ ~InfoOf[k].control
        /\ \A k \in Range(evidence) \cap Chunks :
              /\ InfoOf[k].language = plan.language
              /\ InfoOf[k].domain \in IntentDomains[plan.intent]
              /\ \A f \in RetrievalFields : \/ InfoOf[k].applies[f] = {}
                                            \/ plan.applicability[f] = NoFact
                                            \/ plan.applicability[f] \in InfoOf[k].applies[f]
              /\ \A s \in InfoOf[k].sources : TierOf[s] \in AllowedTiers(plan)
        /\ \A k \in Range(evidence) \cap Pages : \E s \in InfoOf[k].sources :
              TierOf[s] \in AllowedTiers(plan)
        /\ \A i, j \in DOMAIN evidence :
              InfoOf[evidence[i]].body = InfoOf[evidence[j]].body => i = j
        /\ Len(evidence) <= MaxItems
        /\ Characters(evidence) <= MaxCharacters

\* The steps that a request has left, at most.
StepsLeft ==
    CASE pc = "retrieve" -> MaxAttempts + MaxSources + 4
      [] pc = "web" -> MaxAttempts + MaxSources + 3
      [] pc = "search" -> MaxAttempts + MaxSources + 2
      [] pc = "fetch" -> MaxAttempts + Len(hits) + 1
      [] pc = "orchestrate" -> MaxAttempts + 1
      [] pc = "generate" -> MaxAttempts - attempts
      [] OTHER -> 0

\* A request is never sent back: each of its steps leaves it fewer, whatever is
\* found, fails or is tried again, and the sources that change meanwhile give it
\* none.  So it ends within MaxAttempts + MaxSources + 4 steps.
StepsRunOut ==
    [][pc # "idle" => StepsLeft' < StepsLeft \/ UNCHANGED request]_vars

\* Every question is answered, whatever the web and the provider do.
QuestionsAnswered == (pc # "idle") ~> (pc = "idle")

=============================================================================
