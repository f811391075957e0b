-------------------------------- MODULE Copilot --------------------------------
(***************************************************************************)
(* The offline copilot of netra/copilot: Copilot.answer() retrieves        *)
(* context (Retrieval), decides whether it suffices, asks the backend that *)
(* select_llm_client() chose, and passes the answer through the citation   *)
(* gate.  The backend is either the template or a local llama-server,      *)
(* which may come and go, time out, or answer with anything its grammar    *)
(* admits; after one retry the client falls back to the template.  The     *)
(* caller is the API, with any mix of analytics, or the pipeline, which    *)
(* answers from its incident should answer() raise.                        *)
(*                                                                         *)
(* Confidence is in tenths.  The prose of an answer and its faithfulness   *)
(* score, which is recorded but decides nothing, are left out.             *)
(***************************************************************************)
EXTENDS Integers, FiniteSets, Retrieval

CONSTANTS
    Chunks,          \* ids of the retrievable chunks
    DocOf,           \* [Chunks -> ids]: document_ids()
    Corpora,         \* what may have been indexed, in order of loading
    Queries,         \* bound: how chunks may score for a query
    Contexts,        \* bound: [incident, risk, root, blast, playbook], each or None
    Incidents,       \* bound: [issue, risk, root, blast, playbook]
    Foreign,         \* ids that are in no context
    Steps,           \* what a playbook or a model may tell the operator to do
    StateChanging,   \* the steps that change device state
    Entities,        \* sites, devices and services an answer may call affected
    Issues,          \* the fault classes other than Healthy
    ModelCitations,  \* bound: the ids a model may cite
    ModelActions,    \* bound: actions a model may recommend
    Telemetry,       \* the id of the incident's own telemetry
    MaxChunks,       \* request.max_context_chunks
    Healthy,         \* IssueType.NONE
    GatherMore,      \* the step of an abstaining answer
    Diagnose,        \* the step of the default diagnostic action
    NoContext,       \* the sentinel citation
    None             \* Python's None

Docs  == {DocOf[c] : c \in Chunks}
Facts == {RootCauseFact, BlastRadiusFact, ReachabilityFact}
Ids == Chunks \cup Docs \cup Facts \cup Foreign

Action == [step : Steps \cup {GatherMore, Diagnose}, ref : Ids \cup {None},
           approval : BOOLEAN]

ASSUME IdAssumption == /\ NoContext \notin Ids \cup {Telemetry} /\ Telemetry \notin Ids
                       /\ None \notin Ids
                       /\ Foreign \cap (Chunks \cup Docs \cup Facts) = {}
ASSUME ActionAssumption ==
    /\ StateChanging \subseteq Steps
    /\ GatherMore \notin Steps /\ Diagnose \notin Steps
    /\ ModelCitations \subseteq SUBSET Ids
    /\ ModelActions \subseteq Action
    \* the repository's playbooks gate what changes state
    /\ \A x \in Contexts \cup Incidents : x.playbook # None =>
          \A a \in x.playbook.actions : a.step \in StateChanging => a.approval
ASSUME ValueAssumption ==
    /\ MaxChunks \in Nat \ {0}
    /\ Healthy \notin Issues
    \* an incident has the issue of most of its events, its risk that of one
    /\ \A inc \in Incidents : inc.risk.issue # Healthy => inc.issue # Healthy

(* The fields pydantic checks of a FusedRisk, a Playbook and a BlastRadius. *)
Risks     == [issue : Issues \cup {Healthy}, confidence : 0..10]
Playbooks == [ref : Ids, actions : SUBSET Action]
Scopes    == SUBSET Entities

ASSUME CorpusAssumption ==
    /\ Corpora \subseteq Seq(Chunks)
    /\ \A q \in Queries : q.dense \in [Chunks -> Int] /\ q.sparse \in [Chunks -> Int]
ASSUME ContextAssumption ==
    /\ None \notin Incidents \cup Risks
    \* unlike the analytics of a request, those of an incident are complete
    /\ \A inc \in Incidents : inc.issue \in Issues \cup {Healthy} /\ inc.risk \in Risks
    /\ \A context \in Contexts : /\ context.incident \in Incidents \cup {None}
                                 /\ context.risk \in Risks \cup {None}
    /\ \A x \in Contexts \cup Incidents : /\ x.blast \in Scopes \cup {None}
                                          /\ x.playbook \in Playbooks \cup {None}

VARIABLES
    corpus,   \* what the retriever indexed
    asked,    \* ghost: [query, chunks] of the request at the backend, or None
    server,   \* the llama-server process: "up" or "down"
    client,   \* Copilot.llm: "llama", "template", or None before __init__
    pc,       \* answer(): "idle", "backend", "gate" or "answered"
    ctx,      \* the CopilotGrounding of the running request, or None
    incident, \* the incident the pipeline asks about, or None
    attempt,  \* complete_copilot(): attempts used up
    response  \* the CopilotResponse so far, or None

vars == <<corpus, asked, server, client, pc, ctx, incident, attempt, response>>
-------------------------------------------------------------------------------
Low == 2

(* What the grammar admits: each field of its type, chosen freely.          *)
ModelOutput == [citations : ModelCitations, insufficient : BOOLEAN,
                issue : Issues \cup {Healthy}, scope : SUBSET Entities,
                actions : {as \in SUBSET ModelActions : Cardinality(as) <= 1}]

AbstainActions == {[step |-> GatherMore, ref |-> None, approval |-> FALSE]}
-------------------------------------------------------------------------------
Init == /\ corpus \in Corpora
        /\ asked = None
        /\ server \in {"up", "down"}
        /\ client = None
        /\ pc = "idle"
        /\ ctx = None
        /\ incident = None
        /\ attempt = 0
        /\ response = None

(* The llama-server process starts, stops or hangs (external).              *)
ServerFlips ==
    /\ server' = IF server = "up" THEN "down" ELSE "up"
    /\ UNCHANGED <<corpus, asked, client, pc, ctx, incident, attempt, response>>

(* __init__ and select_llm_client: llama only if wanted, on a loopback URL, *)
(* and answering the health probe now.                                      *)
Construct(wanted, loopback) ==
    /\ client = None
    /\ client' = IF wanted /\ loopback /\ server = "up" THEN "llama" ELSE "template"
    /\ UNCHANGED <<corpus, asked, server, pc, ctx, incident, attempt, response>>

(* should_abstain(n_context_chunks=...), as answer() calls it.              *)
ShouldAbstain(chunks) == chunks = {}

(* resolved_...(): an explicit value wins, else the incident has it.        *)
Resolved(context, field) ==
    IF context[field] # None \/ context.incident = None THEN context[field]
    ELSE context.incident[field]

ResolvedIssue(context) ==
    IF context.risk # None THEN context.risk.issue
    ELSE IF context.incident # None THEN context.incident.issue ELSE Healthy

ResolvedConfidence(context) ==
    LET risk == Resolved(context, "risk") IN IF risk = None THEN 0 ELSE risk.confidence

(* The context of a request of the pipeline, _answer().                     *)
ContextOf(inc) == [incident |-> inc, risk |-> inc.risk, root |-> inc.root,
                   blast |-> inc.blast, playbook |-> inc.playbook]

(* _playbook_to_actions: a step refers to a runbook or to its playbook.     *)
PlaybookToActions(playbook) ==
    IF playbook = None THEN {}
    ELSE {[a EXCEPT !.ref = IF @ = None THEN playbook.ref ELSE @] : a \in playbook.actions}

(* _actions_for: the playbook's steps, or a read-only diagnostic that       *)
(* refers to universe[0].                                                   *)
ActionsFor(playbook, ranked, facts) ==
    IF PlaybookToActions(playbook) # {} THEN {PlaybookToActions(playbook)}
    ELSE {{[step |-> Diagnose, ref |-> r, approval |-> FALSE]} :
              r \in IF ranked # <<>> THEN {Head(ranked)} ELSE IF facts # {} THEN facts ELSE {None}}

(* answer(), steps 1 to 7: resolve the analytics, retrieve, decide.  A      *)
(* chunk stands for its document, too (document_ids).                       *)
Ask(query, context) ==
    LET blast == Resolved(context, "blast")
        facts == GraphFacts(Resolved(context, "root"), blast, None)
    IN /\ client # None
       /\ pc = "idle"
       /\ \E ranked \in Retrieved(corpus, query, MaxChunks) :
             LET chunks == ToSet(ranked)
             IN \E actions \in ActionsFor(Resolved(context, "playbook"), ranked, facts) :
                   /\ ctx' = [universe |-> chunks \cup {DocOf[c] : c \in chunks} \cup facts,
                              insufficient |-> ShouldAbstain(chunks),
                              confidence |-> ResolvedConfidence(context),
                              issue |-> ResolvedIssue(context),
                              scope |-> AffectedScope(blast, None), actions |-> actions]
                   /\ asked' = [query |-> query, chunks |-> chunks]
       /\ pc' = "backend"
       /\ UNCHANGED <<corpus, server, client, attempt, response>>

AskOfApi(query, context) == Ask(query, context) /\ incident' = None

AskOfPipeline(query, inc) == Ask(query, ContextOf(inc)) /\ incident' = inc
-------------------------------------------------------------------------------
(* Mutant: the abstain decision is not honoured.                            *)
TemplateResponseBold ==
    IF ctx.universe = {}
    THEN [citations |-> {NoContext}, insufficient |-> TRUE,
          confidence |-> Min({ctx.confidence, Low}), issue |-> ctx.issue,
          scope |-> ctx.scope, actions |-> AbstainActions, by |-> "template"]
    ELSE [citations |-> ctx.universe, insufficient |-> FALSE,
          confidence |-> ctx.confidence, issue |-> ctx.issue,
          scope |-> ctx.scope, actions |-> ctx.actions, by |-> "template"]

(* TemplateClient.complete_copilot: _abstain or _answer.                    *)
TemplateResponse ==
    IF ctx.insufficient \/ ctx.universe = {}
    THEN [citations |-> {NoContext}, insufficient |-> TRUE,
          confidence |-> Min({ctx.confidence, Low}), issue |-> ctx.issue,
          scope |-> ctx.scope, actions |-> AbstainActions, by |-> "template"]
    ELSE [citations |-> ctx.universe, insufficient |-> FALSE,
          confidence |-> ctx.confidence, issue |-> ctx.issue,
          scope |-> ctx.scope, actions |-> ctx.actions, by |-> "template"]

(* LlamaCppClient._assemble: the model's fields, except for the numbers.    *)
Assemble(out) ==
    LET cited == out.citations \cap ctx.universe
    IN [citations |-> IF cited = {} THEN {NoContext} ELSE cited,
        insufficient |-> out.insufficient \/ cited = {},
        confidence |-> ctx.confidence,
        issue |-> IF out.issue = Healthy THEN ctx.issue ELSE out.issue,
        scope |-> IF out.scope = {} THEN ctx.scope ELSE out.scope,
        actions |-> IF out.actions = {} THEN AbstainActions ELSE out.actions,
        by |-> "model"]

(* The template backend, chosen at construction or after two failed calls.  *)
TemplateAnswers ==
    /\ pc = "backend"
    /\ client = "template" \/ attempt = 2
    /\ response' = TemplateResponse
    /\ pc' = "gate"
    /\ asked' = None
    /\ UNCHANGED <<corpus, server, client, ctx, incident, attempt>>

(* _chat and _assemble succeed with what the model made of the prompt.      *)
ModelAnswers(out) ==
    /\ pc = "backend"
    /\ client = "llama"
    /\ attempt < 2
    /\ server = "up"
    /\ response' = Assemble(out)
    /\ pc' = "gate"
    /\ asked' = None
    /\ UNCHANGED <<corpus, server, client, ctx, incident, attempt>>

(* Mutant: attempts are not counted.                                        *)
ModelFailsUncounted ==
    /\ pc = "backend"
    /\ client = "llama"
    /\ attempt < 2
    /\ UNCHANGED vars

(* Refused, timed out, truncated or invalid: the attempt is used up.        *)
ModelFails ==
    /\ pc = "backend"
    /\ client = "llama"
    /\ attempt < 2
    /\ attempt' = attempt + 1
    /\ UNCHANGED <<corpus, asked, server, client, pc, ctx, incident, response>>

(* Mutant: a forced abstain keeps the recommended actions.                  *)
EnforceCitationsKeepsActions(r) ==
    LET valid == r.citations \cap ctx.universe
        refs == {[a EXCEPT !.ref = IF @ \in ctx.universe THEN @ ELSE None] : a \in r.actions}
    IN IF valid = {}
       THEN [r EXCEPT !.citations = {NoContext}, !.insufficient = TRUE,
                      !.confidence = Min({@, Low}), !.actions = refs]
       ELSE [r EXCEPT !.citations = valid, !.actions = refs]

(* enforce_citations: keep what is in the universe; with no valid citation  *)
(* left, force the abstaining answer.                                       *)
EnforceCitations(r) ==
    LET valid == r.citations \cap ctx.universe
    IN IF valid = {}
       THEN [r EXCEPT !.citations = {NoContext},
                      !.insufficient = TRUE,
                      !.confidence = Min({@, Low}),
                      !.actions = AbstainActions]
       ELSE [r EXCEPT !.citations = valid,
                      !.actions = {[a EXCEPT !.ref = IF @ \in ctx.universe THEN @ ELSE None] :
                                      a \in @}]

(* answer(), steps 9 and 10.                                                *)
Gate ==
    /\ pc = "gate"
    /\ response' = EnforceCitations(response)
    /\ pc' = "answered"
    /\ UNCHANGED <<corpus, asked, server, client, ctx, incident, attempt>>

(* _fallback_response_from_incident: it passes no gate, and never abstains. *)
LastResort(inc) ==
    LET steps == IF inc.playbook = None THEN {} ELSE inc.playbook.actions
    IN [citations |-> {Telemetry} \cup (IF inc.playbook = None THEN {} ELSE {inc.playbook.ref}),
        insufficient |-> FALSE,
        confidence |-> inc.risk.confidence,
        issue |-> inc.issue,
        scope |-> AffectedScope(inc.blast, None),
        actions |-> IF steps # {} THEN steps
                    ELSE {[step |-> Diagnose, ref |-> None, approval |-> FALSE]},
        by |-> "pipeline"]

(* Whatever answer() stumbles over, the pipeline has an answer.             *)
Raise ==
    /\ pc \in {"backend", "gate"}
    /\ incident # None
    /\ response' = LastResort(incident)
    /\ pc' = "answered"
    /\ asked' = None
    /\ UNCHANGED <<corpus, server, client, ctx, incident, attempt>>

(* answer() returns; nothing of the request is kept.                        *)
Return ==
    /\ pc = "answered"
    /\ pc' = "idle"
    /\ ctx' = None
    /\ incident' = None
    /\ attempt' = 0
    /\ response' = None
    /\ UNCHANGED <<corpus, asked, server, client>>

Next ==
    \/ ServerFlips
    \/ \E wanted, loopback \in BOOLEAN : Construct(wanted, loopback)
    \/ \E query \in Queries, context \in Contexts : AskOfApi(query, context)
    \/ \E query \in Queries, inc \in Incidents : AskOfPipeline(query, inc)
    \/ TemplateAnswers
    \/ \E out \in ModelOutput : ModelAnswers(out)
    \/ ModelFails
    \/ Gate
    \/ Raise
    \/ Return

Spec == Init /\ [][Next]_vars

(* answer() runs to its end: httpx bounds every call by timeout_s.          *)
Fairness == /\ WF_vars(TemplateAnswers)
            /\ WF_vars(ModelFails)
            /\ WF_vars(Gate)

FairSpec == Spec /\ Fairness
-------------------------------------------------------------------------------
Answered == pc = "answered"

(* citations.py, the closed-set check: every citation and every runbook_ref *)
(* was given to the backend, or the one citation is the sentinel.           *)
CitesWhatItWasGiven ==
    /\ response.citations # {}
    /\ response.citations \subseteq ctx.universe \/ response.citations = {NoContext}
    /\ \A a \in response.actions : a.ref \in ctx.universe \cup {None}

(* "the LLM explains the numbers, it never gets to fabricate them": no more *)
(* confident than the analytics, nor less unless it abstains, and never     *)
(* healthy where they see a fault.                                          *)
KeepsTheNumbers ==
    /\ \/ response.confidence = ctx.confidence
       \/ response.insufficient /\ response.confidence < ctx.confidence
    /\ ctx.issue # Healthy => response.issue # Healthy

(* Whichever backend answered, after whatever failures, an answer keeps to  *)
(* the analytics' numbers, also the one that is made of nothing else; what  *)
(* passed the gate keeps to its citations; and one that cites nothing it    *)
(* was given claims nothing: it abstains, is not confident, and only says   *)
(* to gather more data.                                                     *)
AnswerIsGrounded ==
    Answered =>
        /\ KeepsTheNumbers
        /\ response.by # "pipeline" => CitesWhatItWasGiven
        /\ response.citations = {NoContext} =>
              /\ response.insufficient
              /\ response.confidence <= Low
              /\ response.actions = AbstainActions

(* The answers without a model honour the playbook's approval gates and the *)
(* analytics' scope, also when they are reached through failed model calls  *)
(* or an exception; the template path honours the abstain decision, too.    *)
FallbackIsCautious ==
    Answered /\ response.by # "model" =>
        /\ response.by = "template" /\ ctx.insufficient => response.insufficient
        /\ \A a \in response.actions : a.step \in StateChanging => a.approval
        /\ response.scope = ctx.scope

(* Among the chunks of the corpus, one that matches a query better in both  *)
(* ways than one that was given to the backend was given to it, too; and    *)
(* as long as there is a corpus, some were, however little they match: the  *)
(* abstain decision depends on nothing else (retrieve, should_abstain).     *)
BestChunksRetrieved ==
    pc = "backend" =>
        /\ \A c \in asked.chunks, d \in ToSet(corpus) :
              asked.query.dense[d] > asked.query.dense[c] /\ asked.query.sparse[d] > asked.query.sparse[c]
                 => d \in asked.chunks
        /\ ctx.insufficient <=> corpus = <<>>

(* Every request is answered, whatever the server does.                     *)
EveryRequestAnswered == pc = "backend" ~> pc = "answered"
===============================================================================
