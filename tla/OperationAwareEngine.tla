------------------------- MODULE OperationAwareEngine ------------------------
(***************************************************************************)
(* The operation-aware evaluation engine                                   *)
(* (src/src/basis_core/evaluation/operation_aware/engine.py): validate the *)
(* bundle, determine its applicability, select candidates, evaluate        *)
(* conditions, aggregate, and assemble an EvaluationTrace whose own        *)
(* validators may refuse it (trace_assembly.py, audit/operation_aware).    *)
(*                                                                         *)
(* Calls share one bundle.  The bundle is a frozen model around a plain    *)
(* list of rules: its owner can change the list while calls run, so a call *)
(* is broken at each stage that reads the list.                            *)
(***************************************************************************)
EXTENDS PolicyDocument

CONSTANTS
  Calls,        \* the evaluations, possibly of several threads
  Requests,     \* the OperationAwareDecisionRequests that are submitted
  Names,        \* non-blank identifiers of traces and audit evidence
  Blank,        \* a whitespace-only identifier
  Documents,    \* the policy documents, good and bad, that authors write
  RuleLists,    \* the lists of rules a bundle's owner may put in place
  OwnerEdits    \* may the bundle's owner change its list while calls run?

ASSUME BlankAssumption == Blank \notin Names
ASSUME OwnerEditsAssumption == OwnerEdits \in BOOLEAN

ASSUME RequestsAssumption == \A r \in Requests : RequestConstructible(r)
ASSUME RuleListsAssumption == \A list \in RuleLists : IsRuleList(list)
ASSUME DocumentsAssumption == \A d \in Documents : IsDocument(d)

VARIABLES
  document,     \* the document the bundle was built from
  rules,        \* the bundle's list of rules, as it is now
  stage,        \* stage[c]: where call c is in evaluate
  request,      \* request[c]: the request of call c, a frozen model
  traceId,      \* traceId[c]: the caller's trace_id
  candidates,   \* candidates[c]: the rules selected, in order of rule_id
  trace         \* trace[c]: the EvaluationTrace produced

engineVars == <<document, rules, stage, request, traceId, candidates, trace>>

\* The bundle's scope, which nobody edits.
scope == Selectors(document.scope)

Stages == {"idle", "validating", "scoping", "selecting", "evaluating", "produced", "raised"}

NoTrace == [trace_id |-> Blank, request_id |-> Scalar("string", 0), status |-> "failed",
            outcome |-> "null", applicability |-> "null", failure |-> "none",
            reason |-> "none", rule_evidence |-> <<>>]

EngineTypeOK ==
  /\ document \in Documents
  /\ rules \in RuleLists \cup {RulesOf(document)}
  /\ stage \in [Calls -> Stages]
  /\ DOMAIN request = Calls /\ \A c \in Calls : stage[c] # "idle" => request[c] \in Requests
  /\ traceId \in [Calls -> Names \cup {Blank}]
  /\ DOMAIN candidates = Calls
  /\ DOMAIN trace = Calls
  /\ \A c \in Calls : stage[c] = "produced" =>
       /\ trace[c].status \in {"completed", "failed"}
       /\ trace[c].outcome \in {"allow", "deny", "not_applicable", "null"}
       /\ trace[c].applicability \in {"applicable", "not_applicable", "null"}

\* A boundary exists only for a document that became a bundle.
EngineInit ==
  /\ document \in Documents
  /\ BundleAccepted(document)
  /\ rules = RulesOf(document)
  /\ stage = [c \in Calls |-> "idle"]
  /\ request = [c \in Calls |-> <<>>]
  /\ traceId = [c \in Calls |-> Blank]
  /\ candidates = [c \in Calls |-> <<>>]
  /\ trace = [c \in Calls |-> NoTrace]
-----------------------------------------------------------------------------
\* A plausible bug: an authored rationale is copied whatever the rule's result.
ProjectRuleRationale_Copied(rule, result) == rule.rationale

\* _project_rule_rationale: authored text explains a match and nothing else.
ProjectRuleRationale(rule, result) ==
  IF result = "matched" THEN rule.rationale ELSE "none"

\* assemble_rule_evidence; an empty condition_results is None.
RuleEvidence(rule, evaluation) ==
  [rule_id |-> rule.rule_id, effect |-> rule.effect, result |-> evaluation.result,
   conditions |-> evaluation.condition_results,
   rationale |-> ProjectRuleRationale(rule, evaluation.result)]

\* TraceRuleEvidence's validators.
RuleEvidenceConstructible(e) ==
  /\ Distinct(e.conditions, LAMBDA c : c.condition_id)
  /\ (\E i \in DOMAIN e.conditions : e.conditions[i].result = "error") => e.result = "error"

\* EvaluationTrace's validators: six invariants and a non-blank trace_id.
TraceConstructible(t) ==
  /\ t.trace_id # Blank
  /\ (t.status = "failed") <=> (t.outcome = "null")
  /\ (t.status = "failed") <=> (t.failure # "none")
  /\ (\E i \in DOMAIN t.rule_evidence : t.rule_evidence[i].result = "error")
       => t.status = "failed"
  /\ t.status = "completed" =>
       t.applicability = IF t.outcome = "not_applicable" THEN "not_applicable" ELSE "applicable"
  /\ t.applicability = "not_applicable" => t.rule_evidence = <<>>
  /\ Distinct(t.rule_evidence, LAMBDA e : e.rule_id)

\* assemble_evaluation_trace.
TraceOf(c, result, applicability, evidence) ==
  [trace_id |-> traceId[c], request_id |-> request[c].fields["request_id"],
   status |-> result.status, outcome |-> result.outcome, applicability |-> applicability,
   failure |-> result.failure, reason |-> result.reason, rule_evidence |-> evidence]

\* evaluate returns t, or raises if t cannot be constructed.
Produces(c, t) ==
  IF TraceConstructible(t)
    THEN trace' = [trace EXCEPT ![c] = t] /\ stage' = [stage EXCEPT ![c] = "produced"]
    ELSE stage' = [stage EXCEPT ![c] = "raised"] /\ UNCHANGED trace
-----------------------------------------------------------------------------
Enter(c, r, i) ==
  /\ stage[c] = "idle"
  /\ stage' = [stage EXCEPT ![c] = "validating"]
  /\ request' = [request EXCEPT ![c] = r]
  /\ traceId' = [traceId EXCEPT ![c] = i]
  /\ UNCHANGED <<document, rules, candidates, trace>>

\* Stage 1: the list is validated at every call.
ValidateBundle(c) ==
  /\ stage[c] = "validating"
  /\ SemanticallyValid(rules)
  /\ stage' = [stage EXCEPT ![c] = "scoping"]
  /\ UNCHANGED <<document, rules, request, traceId, candidates, trace>>

\* An invalid bundle gives a failed trace that claims nothing about the rules.
RejectBundle(c) ==
  /\ stage[c] = "validating"
  /\ ~SemanticallyValid(rules)
  /\ Produces(c, TraceOf(c, Failed("policy_validation_failure"), "null", <<>>))
  /\ UNCHANGED <<document, rules, request, traceId, candidates>>

\* Stage 2.
BundleApplies(c) ==
  /\ stage[c] = "scoping"
  /\ Applicable(scope, request[c])
  /\ stage' = [stage EXCEPT ![c] = "selecting"]
  /\ UNCHANGED <<document, rules, request, traceId, candidates, trace>>

\* No rule is looked at; aggregation still names the outcome.
BundleDoesNotApply(c) ==
  /\ stage[c] = "scoping"
  /\ ~Applicable(scope, request[c])
  /\ Produces(c, TraceOf(c, AggregatePolicyOutcome(FALSE, <<>>), "not_applicable", <<>>))
  /\ UNCHANGED <<document, rules, request, traceId, candidates>>

\* Stage 3: the list is read a second time, after it was validated.
SelectCandidates(c) ==
  /\ stage[c] = "selecting"
  /\ candidates' = [candidates EXCEPT ![c] = SelectCandidateRules(rules, request[c])]
  /\ stage' = [stage EXCEPT ![c] = "evaluating"]
  /\ UNCHANGED <<document, rules, request, traceId, trace>>

Evaluations(c) ==
  [k \in DOMAIN candidates[c] |-> EvaluateRuleConditions(candidates[c][k].rule, request[c])]

EvaluatedRules(c) ==
  [k \in DOMAIN candidates[c] |->
     [rule_id |-> candidates[c][k].rule.rule_id, effect |-> candidates[c][k].rule.effect,
      result |-> Evaluations(c)[k].result]]

EvidenceOf(c) ==
  [k \in DOMAIN candidates[c] |-> RuleEvidence(candidates[c][k].rule, Evaluations(c)[k])]

\* Stages 4 to 9: conditions of every candidate, aggregation, rule evidence and
\* the trace, from the call's own tuple of candidates.
Conclude(c) ==
  /\ stage[c] = "evaluating"
  /\ IF \A k \in DOMAIN candidates[c] : RuleEvidenceConstructible(EvidenceOf(c)[k])
       THEN Produces(c, TraceOf(c, AggregatePolicyOutcome(TRUE, EvaluatedRules(c)),
                                "applicable", EvidenceOf(c)))
       ELSE stage' = [stage EXCEPT ![c] = "raised"] /\ UNCHANGED trace
  /\ UNCHANGED <<document, rules, request, traceId, candidates>>

\* The owner replaces, extends, empties or reorders the list in place.
EditRules(list) ==
  /\ OwnerEdits
  /\ rules' = list
  /\ UNCHANGED <<document, stage, request, traceId, candidates, trace>>

EngineStep(c) ==
  \/ ValidateBundle(c)
  \/ RejectBundle(c)
  \/ BundleApplies(c)
  \/ BundleDoesNotApply(c)
  \/ SelectCandidates(c)
  \/ Conclude(c)

EngineNext ==
  \/ \E c \in Calls : \/ \E r \in Requests, i \in Names \cup {Blank} : Enter(c, r, i)
                     \/ EngineStep(c)
  \/ \E list \in RuleLists : EditRules(list)

EngineSpec == EngineInit /\ [][EngineNext]_engineVars
-----------------------------------------------------------------------------
\* What a rule says of a request, written without the pipeline: it holds if
\* every selector and every condition does.
Holds(rule, r) ==
  /\ AllAccept(rule.match, r)
  /\ \A i \in DOMAIN rule.conditions : EvaluateCondition(rule.conditions[i], r) = "match"

\* The rule applies and one of its conditions has no answer.
Fails(rule, r) ==
  /\ AllAccept(rule.match, r)
  /\ \E i \in DOMAIN rule.conditions : EvaluateCondition(rule.conditions[i], r) = "error"

\* The rules of the bundle were put to call c.
WereAsked(c) == candidates[c] # <<>>

Rules(c) == {candidates[c][k].rule : k \in DOMAIN candidates[c]}

(***************************************************************************)
(* The outcome is the one the author wrote: a document with a rule_id      *)
(* twice fails, one whose scope leaves the request out never denies, and   *)
(* else the outcome is failed exactly when some rule about the request     *)
(* cannot be evaluated, deny if a deny rule holds, allow if an allow rule  *)
(* holds, deny by default; from the document through loading (rule.py      *)
(* 469-683, bundle.py 325-556), selection, conditions and aggregation      *)
(* (aggregation.py 547-647).                                               *)
(***************************************************************************)
OutcomeIsMeant ==
  \A c \in Calls : (stage[c] = "produced" /\ ~OwnerEdits) =>
    LET t == trace[c]
        authored == {document.rules[i] : i \in DOMAIN document.rules}
        Held(e) == \E w \in authored : w.effect = e /\ WrittenHolds(w, request[c])
        failed == \E w \in authored : WrittenFails(w, request[c])
    IN CASE ~Distinct(document.rules, LAMBDA w : w.rule_id) ->
              t.failure = "policy_validation_failure" /\ t.applicability = "null"
         [] Distinct(document.rules, LAMBDA w : w.rule_id)
            /\ ~WrittenMatch(document.scope, request[c]) -> t.outcome = "not_applicable"
         [] OTHER ->
              /\ (t.status = "failed") <=> failed
              /\ ~failed => t.outcome = IF Held("allow") /\ ~Held("deny") THEN "allow" ELSE "deny"

\* The request carries the object or field in which selector s looks.
Speaks(r, s) ==
  IF s = "subject_roles" THEN r.roles # {}
  ELSE CategoryPath[s][1] \in IF Len(CategoryPath[s]) = 1 THEN DOMAIN r.fields
                              ELSE DOMAIN r.contexts

(***************************************************************************)
(* Silence never matches: a bundle or a rule that restricts something the  *)
(* request does not mention neither applies nor matches, nor are the       *)
(* rule's conditions evaluated (applicability.py 205-228, selector.py      *)
(* 388-444).                                                               *)
(***************************************************************************)
SilenceNeverMatches ==
  \A c \in Calls : (stage[c] = "produced" /\ trace[c].applicability = "applicable") =>
    /\ \A d \in DOMAIN scope : Speaks(request[c], d)
    /\ \A k \in DOMAIN candidates[c] :
         (\E s \in DOMAIN candidates[c][k].rule.match : ~Speaks(request[c], s)) =>
           /\ trace[c].rule_evidence[k].result = "not_matched"
           /\ trace[c].rule_evidence[k].conditions = <<>>

(***************************************************************************)
(* Evidence is honest: one entry per candidate, in order of rule_id, with  *)
(* the result the rule really had; conditions are reported all or none,    *)
(* and authored text only where the rule matched (trace_assembly.py        *)
(* 194-366).                                                               *)
(***************************************************************************)
EvidenceIsHonest ==
  \A c \in Calls : (stage[c] = "produced" /\ trace[c].applicability = "applicable") =>
    LET evidence == trace[c].rule_evidence
    IN /\ \A k \in DOMAIN evidence :
            LET e == evidence[k]
                rule == CHOOSE r \in Rules(c) : r.rule_id = e.rule_id
            IN /\ (e.result = "matched") <=> Holds(rule, request[c])
               /\ (e.result = "error") <=> Fails(rule, request[c])
               /\ Len(e.conditions) =
                    IF AllAccept(rule.match, request[c]) THEN Len(rule.conditions) ELSE 0
               /\ e.rationale = IF Holds(rule, request[c]) THEN rule.rationale ELSE "none"
       /\ {evidence[k].rule_id : k \in DOMAIN evidence} = {r.rule_id : r \in Rules(c)}
       /\ \A k \in DOMAIN evidence : k > 1 => evidence[k - 1].rule_id < evidence[k].rule_id

(***************************************************************************)
(* Authoring order is irrelevant: two calls with the same request that     *)
(* found the same rules in the bundle, in whatever order, produce the same *)
(* evaluation trace but for its id (selector.py 772-841).                  *)
(***************************************************************************)
AuthoringOrderIrrelevant ==
  \A c, d \in Calls :
    ( /\ stage[c] = "produced" /\ stage[d] = "produced"
      /\ WereAsked(c) /\ WereAsked(d)
      /\ request[c] = request[d] /\ Rules(c) = Rules(d) )
    => trace[c] = [trace[d] EXCEPT !.trace_id = traceId[c]]

HasCause(c) ==
  \/ traceId[c] = Blank
  \/ OwnerEdits /\ \E j, k \in DOMAIN candidates[c] :
       j # k /\ candidates[c][j].rule.rule_id = candidates[c][k].rule.rule_id

(***************************************************************************)
(* The engine raises only for what it was handed: a blank trace_id, or a   *)
(* list of rules changed between its validation and its use (the six       *)
(* invariants of EvaluationTrace never refuse the engine's own work).      *)
(***************************************************************************)
EngineRaisesForACause == \A c \in Calls : stage[c] = "raised" => HasCause(c)

-----------------------------------------------------------------------------
\* The invariant behind these, in parts: what a call has established at each
\* stage, and the three ways in which a trace comes about.
BundleKept ==
  /\ document \in Documents /\ BundleAccepted(document)
  /\ rules \in RuleLists \cup {RulesOf(document)}
  /\ ~OwnerEdits => rules = RulesOf(document)

\* The candidates are those of a list the bundle has had.
Selected(c) ==
  \E list \in RuleLists \cup {RulesOf(document)} :
    /\ candidates[c] = SelectCandidateRules(list, request[c])
    /\ ~OwnerEdits => list = rules /\ SemanticallyValid(rules)

Rejected(c) ==
  /\ candidates[c] = <<>>
  /\ ~OwnerEdits => ~SemanticallyValid(rules)
  /\ trace[c] = TraceOf(c, Failed("policy_validation_failure"), "null", <<>>)

OutOfScope(c) ==
  /\ candidates[c] = <<>> /\ ~Applicable(scope, request[c])
  /\ ~OwnerEdits => SemanticallyValid(rules)
  /\ trace[c] = TraceOf(c, AggregatePolicyOutcome(FALSE, <<>>), "not_applicable", <<>>)

Concluded(c) ==
  /\ Selected(c) /\ Applicable(scope, request[c])
  /\ trace[c] = TraceOf(c, AggregatePolicyOutcome(TRUE, EvaluatedRules(c)),
                        "applicable", EvidenceOf(c))

EngineInvOf(c) ==
  /\ stage[c] # "idle" => request[c] \in Requests
  /\ stage[c] \in {"idle", "validating", "scoping", "selecting"} => candidates[c] = <<>>
  /\ (stage[c] \in {"scoping", "selecting"} /\ ~OwnerEdits) => SemanticallyValid(rules)
  /\ stage[c] \in {"selecting", "evaluating"} => Applicable(scope, request[c])
  /\ stage[c] = "evaluating" => Selected(c)
  /\ stage[c] = "produced" =>
       TraceConstructible(trace[c]) /\ (Rejected(c) \/ OutOfScope(c) \/ Concluded(c))

(***************************************************************************)
(* What every call knows at each of its stages, whatever the bundle's      *)
(* owner does to the list meanwhile (engine.py 311-508).                   *)
(***************************************************************************)
EngineInv == BundleKept /\ EngineRaisesForACause /\ \A c \in Calls : EngineInvOf(c)

(***************************************************************************)
(* The calls whose rules are asked implement DenyOverrides, the promise of *)
(* the v0.1 engine: a rule that cannot be evaluated answers "raises", and  *)
(* a default deny is the conclusion that no rule has an opinion.           *)
(***************************************************************************)
Answer(rule, r) ==
  IF Fails(rule, r) THEN "raises"
  ELSE IF Holds(rule, r) THEN rule.effect ELSE "not_applicable"

AbstractAnswers ==
  [c \in Calls |-> IF WereAsked(c) THEN {Answer(r, request[c]) : r \in Rules(c)} ELSE {}]

AbstractOutcome ==
  [c \in Calls |->
     CASE ~WereAsked(c) -> "unasked"
       [] WereAsked(c) /\ stage[c] # "produced" -> "pending"
       [] OTHER -> IF trace[c].status = "failed" THEN "error"
                   ELSE IF trace[c].reason = "no_allow_rule_matched" THEN "not_applicable"
                   ELSE trace[c].outcome]

Abstract == INSTANCE DenyOverrides WITH answers <- AbstractAnswers,
                                        outcome <- AbstractOutcome

ImplementsDenyOverrides == Abstract!Spec
=============================================================================
