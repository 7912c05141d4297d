---------------------- MODULE OperationAwareEngineProofs -----------------------
(***************************************************************************)
(* Proofs about OperationAwareEngine, for any number of calls, documents   *)
(* and rules, and an owner who may edit the bundle's list at any moment.   *)
(* The inductive invariant is EngineInv; the steps of the boundary that    *)
(* runs the engine are those of its calls, so the lemmas here are about    *)
(* single steps and OperationAwareEnforcementProofs states the theorems.   *)
(***************************************************************************)
EXTENDS OperationAwareEngine, OperationAwarePolicyProofs

\* What the conditions of one rule give: matched exactly if the rule holds, an
\* error exactly if one of the conditions it asks has no answer.
LEMMA RuleEvaluationMeans ==
  ASSUME NEW rule, IsSequence(rule.conditions), NEW r
  PROVE  LET e == EvaluateRuleConditions(rule, r)
         IN /\ e.result \in {"matched", "not_matched", "error"}
            /\ (e.result = "matched") <=> Holds(rule, r)
            /\ (e.result = "error") <=> Fails(rule, r)
            /\ Len(e.condition_results) =
                 IF AllAccept(rule.match, r) THEN Len(rule.conditions) ELSE 0
            /\ ~AllAccept(rule.match, r) => e.condition_results = <<>>
            /\ DOMAIN e.condition_results \subseteq DOMAIN rule.conditions
            /\ \A i \in DOMAIN e.condition_results :
                 /\ e.condition_results[i].condition_id = rule.conditions[i].condition_id
                 /\ e.condition_results[i].result = "error" => e.result = "error"
<1> DEFINE e == EvaluateRuleConditions(rule, r)
           asked == AllAccept(rule.match, r)
           answer(i) == EvaluateCondition(rule.conditions[i], r)
           results == [i \in DOMAIN rule.conditions |->
                         [condition_id |-> rule.conditions[i].condition_id, result |-> answer(i)]]
<1>1. /\ DOMAIN rule.conditions = 1 .. Len(rule.conditions) /\ Len(rule.conditions) \in Nat
      /\ rule.conditions = <<>> <=> DOMAIN rule.conditions = {}
  BY SequenceDomain DEF IsSequence
<1>2. /\ Holds(rule, r) <=> asked /\ \A i \in DOMAIN rule.conditions : answer(i) = "match"
      /\ Fails(rule, r) <=> asked /\ \E i \in DOMAIN rule.conditions : answer(i) = "error"
  BY DEF Holds, Fails
<1>3. CASE asked /\ rule.conditions # <<>>
  <2>1. e = [rule_id |-> rule.rule_id, result |-> AggregateConditions(results),
             condition_results |-> results]
    BY <1>3 DEF EvaluateRuleConditions, EvaluateRuleSelectors
  <2>2. /\ DOMAIN results = DOMAIN rule.conditions /\ Len(results) = Len(rule.conditions)
        /\ \A i \in DOMAIN rule.conditions :
             /\ results[i].condition_id = rule.conditions[i].condition_id
             /\ results[i].result = answer(i)
    <3>1. DOMAIN results = DOMAIN rule.conditions /\ results = [i \in DOMAIN results |-> results[i]]
      OBVIOUS
    <3> HIDE DEF answer
    <3>2. \A i \in DOMAIN rule.conditions :
             /\ results[i].condition_id = rule.conditions[i].condition_id
             /\ results[i].result = answer(i)
      OBVIOUS
    <3> HIDE DEF results
    <3> QED BY <1>1, <3>1, <3>2, ListIsSequence
  <2> HIDE DEF results, answer, asked, e
  <2>3. /\ AggregateConditions(results) \in {"matched", "not_matched", "error"}
        /\ AggregateConditions(results) = "error" <=>
             \E i \in DOMAIN rule.conditions : answer(i) = "error"
        /\ AggregateConditions(results) = "matched" <=>
             \A i \in DOMAIN rule.conditions : answer(i) = "match"
    BY <2>2 DEF AggregateConditions
  <2>4. /\ e.result = AggregateConditions(results) /\ e.condition_results = results
    BY <2>1
  <2> QED BY <1>2, <1>3, <2>2, <2>3, <2>4 DEF e, asked
<1>4. CASE ~asked \/ rule.conditions = <<>>
  <2>1. /\ e.result = IF asked THEN "matched" ELSE "not_matched"
        /\ e.condition_results = <<>>
    BY <1>4 DEF EvaluateRuleConditions, EvaluateRuleSelectors
  <2> HIDE DEF answer, asked, e
  <2>2. DOMAIN e.condition_results = {} /\ Len(e.condition_results) = 0
    BY <2>1
  <2>3. rule.conditions = <<>> => Len(rule.conditions) = 0 /\ DOMAIN rule.conditions = {}
    OBVIOUS
  <2> QED BY <1>2, <1>4, <2>1, <2>2, <2>3 DEF e, asked
<1> QED BY <1>3, <1>4
-----------------------------------------------------------------------------
LEMMA AggregateForms ==
  ASSUME NEW evaluated
  PROVE  LET a == AggregatePolicyOutcome(TRUE, evaluated)
             erred == \E i \in DOMAIN evaluated : evaluated[i].result = "error"
         IN /\ erred => a = Failed("condition_evaluation_error")
            /\ ~erred /\ MatchedEffect(evaluated, "deny") =>
                 a = Completed("deny", "deny_rule_matched")
            /\ ~erred /\ ~MatchedEffect(evaluated, "deny") /\ MatchedEffect(evaluated, "allow") =>
                 a = Completed("allow", "allow_rule_matched")
            /\ ~erred /\ ~MatchedEffect(evaluated, "deny") /\ ~MatchedEffect(evaluated, "allow") =>
                 a = Completed("deny", "no_allow_rule_matched")
BY DEF AggregatePolicyOutcome

\* What the engine makes of its candidates, position by position.
LEMMA EvaluatedPositions ==
  ASSUME NEW c
  PROVE  /\ DOMAIN EvaluatedRules(c) = DOMAIN candidates[c]
         /\ DOMAIN EvidenceOf(c) = DOMAIN candidates[c]
         /\ \A k \in DOMAIN candidates[c] :
              LET rule == candidates[c][k].rule
                  e == EvaluateRuleConditions(rule, request[c])
              IN /\ EvaluatedRules(c)[k].rule_id = rule.rule_id
                 /\ EvaluatedRules(c)[k].effect = rule.effect
                 /\ EvaluatedRules(c)[k].result = e.result
                 /\ EvidenceOf(c)[k].rule_id = rule.rule_id
                 /\ EvidenceOf(c)[k].effect = rule.effect
                 /\ EvidenceOf(c)[k].result = e.result
                 /\ EvidenceOf(c)[k].conditions = e.condition_results
                 /\ EvidenceOf(c)[k].rationale = ProjectRuleRationale(rule, e.result)
BY DEF EvaluatedRules, EvidenceOf, Evaluations, RuleEvidence

\* EvaluationTrace refuses the engine's own work for two reasons only.
LEMMA ConcludedIsConstructible ==
  ASSUME NEW c
  PROVE  TraceConstructible(TraceOf(c, AggregatePolicyOutcome(TRUE, EvaluatedRules(c)),
                                    "applicable", EvidenceOf(c)))
         <=> /\ traceId[c] # Blank
             /\ \A j, k \in DOMAIN candidates[c] :
                  candidates[c][j].rule.rule_id = candidates[c][k].rule.rule_id => j = k
<1> DEFINE a == AggregatePolicyOutcome(TRUE, EvaluatedRules(c))
           t == TraceOf(c, a, "applicable", EvidenceOf(c))
<1>1. /\ t.trace_id = traceId[c] /\ t.status = a.status /\ t.outcome = a.outcome
      /\ t.failure = a.failure /\ t.applicability = "applicable"
      /\ t.rule_evidence = EvidenceOf(c)
  BY DEF TraceOf
<1>2. /\ (a.status = "failed") <=> (a.outcome = "null")
      /\ (a.status = "failed") <=> (a.failure # "none")
      /\ a.status = "completed" => a.outcome # "not_applicable"
      /\ (\E k \in DOMAIN EvaluatedRules(c) : EvaluatedRules(c)[k].result = "error")
           => a.status = "failed"
  <2> DEFINE ev == EvaluatedRules(c)
  <2>1. a \in {Failed("condition_evaluation_error"), Completed("deny", "deny_rule_matched"),
               Completed("allow", "allow_rule_matched"), Completed("deny", "no_allow_rule_matched")}
    <3> HIDE DEF ev
    <3> QED BY AggregateForms
  <2>2. (\E k \in DOMAIN ev : ev[k].result = "error") => a = Failed("condition_evaluation_error")
    <3> HIDE DEF ev, t
    <3> SUFFICES ASSUME \E k \in DOMAIN ev : ev[k].result = "error"
                 PROVE  AggregatePolicyOutcome(TRUE, ev) = Failed("condition_evaluation_error")
      BY DEF ev
    <3> QED BY DEF AggregatePolicyOutcome
  <2> HIDE DEF a, ev
  <2> QED BY <2>1, <2>2 DEF Failed, Completed, ev
<1>3. (\E k \in DOMAIN EvidenceOf(c) : EvidenceOf(c)[k].result = "error") => a.status = "failed"
  <2> HIDE DEF a, t
  <2> SUFFICES ASSUME NEW k \in DOMAIN EvidenceOf(c), EvidenceOf(c)[k].result = "error"
               PROVE  a.status = "failed"
    OBVIOUS
  <2>1. k \in DOMAIN EvaluatedRules(c) /\ EvaluatedRules(c)[k].result = "error"
    BY EvaluatedPositions
  <2> QED BY <1>2, <2>1
<1>4. Distinct(EvidenceOf(c), LAMBDA e : e.rule_id) <=>
        \A j, k \in DOMAIN candidates[c] :
          candidates[c][j].rule.rule_id = candidates[c][k].rule.rule_id => j = k
  BY EvaluatedPositions DEF Distinct
<1> HIDE DEF a, t
<1> QED BY <1>1, <1>2, <1>3, <1>4 DEF TraceConstructible, t, a
-----------------------------------------------------------------------------
EngineStanding(d) ==
  /\ stage'[d] = stage[d] /\ request'[d] = request[d] /\ traceId'[d] = traceId[d]
  /\ candidates'[d] = candidates[d] /\ trace'[d] = trace[d]

LEMMA SameEvidence ==
  ASSUME NEW d, request'[d] = request[d], candidates'[d] = candidates[d]
  PROVE  EvaluatedRules(d)' = EvaluatedRules(d) /\ EvidenceOf(d)' = EvidenceOf(d)
BY DEF EvaluatedRules, EvidenceOf, Evaluations

LEMMA SameSelection ==
  ASSUME NEW d, request'[d] = request[d], candidates'[d] = candidates[d],
         document' = document, OwnerEdits \/ rules' = rules, Selected(d)
  PROVE  Selected(d)'
BY DEF Selected

\* A call that does not move keeps what it knows, whoever edits the list.
LEMMA StandingKeepsEngineInvOf ==
  ASSUME NEW d \in Calls, EngineInvOf(d), stage[d] = "raised" => HasCause(d),
         EngineStanding(d), document' = document, OwnerEdits \/ rules' = rules
  PROVE  EngineInvOf(d)' /\ (stage[d] = "raised" => HasCause(d))'
<1> USE DEF EngineStanding
<1>1. scope' = scope /\ (~OwnerEdits => (SemanticallyValid(rules)' <=> SemanticallyValid(rules)))
  BY DEF scope
<1>2. Selected(d) => Selected(d)'
  BY SameSelection
<1>3. Rejected(d) => Rejected(d)'
  BY <1>1 DEF Rejected, TraceOf
<1>4. OutOfScope(d) => OutOfScope(d)'
  BY <1>1 DEF OutOfScope, TraceOf
<1>5. Concluded(d) => Concluded(d)'
  BY <1>1, <1>2, SameEvidence DEF Concluded, TraceOf
<1>6. TraceConstructible(trace[d]) => TraceConstructible(trace[d])'
  OBVIOUS
<1>7. HasCause(d) => HasCause(d)'
  BY DEF HasCause
<1> QED BY <1>1, <1>2, <1>3, <1>4, <1>5, <1>6, <1>7 DEF EngineInvOf

LEMMA OneCallMoves ==
  ASSUME EngineInv, NEW c \in Calls, \A d \in Calls \ {c} : EngineStanding(d),
         document' = document, rules' = rules,
         EngineInvOf(c)', (stage[c] = "raised" => HasCause(c))'
  PROVE  EngineInv'
<1>1. BundleKept'
  BY DEF EngineInv, BundleKept
<1>2. ASSUME NEW d \in Calls
      PROVE  EngineInvOf(d)' /\ (stage[d] = "raised" => HasCause(d))'
  <2>1. CASE d = c
    BY <2>1
  <2>2. CASE d # c
    BY <2>2, StandingKeepsEngineInvOf DEF EngineInv, EngineRaisesForACause
  <2> QED BY <2>1, <2>2
<1> QED BY <1>1, <1>2 DEF EngineInv, EngineRaisesForACause

\* The two outcomes of assembling a trace.
LEMMA ProducesOrRaises ==
  ASSUME EngineTypeOK, NEW c \in Calls, NEW t, Produces(c, t)
  PROVE  /\ \/ TraceConstructible(t) /\ stage'[c] = "produced" /\ trace'[c] = t
            \/ ~TraceConstructible(t) /\ stage'[c] = "raised" /\ trace'[c] = trace[c]
         /\ \A d \in Calls \ {c} : stage'[d] = stage[d] /\ trace'[d] = trace[d]
         /\ stage' \in [Calls -> Stages] /\ DOMAIN trace' = Calls
BY DEF Produces, EngineTypeOK, Stages
-----------------------------------------------------------------------------
LEMMA EngineInvInit == EngineInit => EngineInv
<1> SUFFICES ASSUME EngineInit PROVE EngineInv
  OBVIOUS
<1>1. BundleKept
  BY DEF EngineInit, BundleKept
<1>2. \A c \in Calls : stage[c] = "idle" /\ candidates[c] = <<>>
  BY DEF EngineInit
<1> QED BY <1>1, <1>2 DEF EngineInv, EngineInvOf, EngineRaisesForACause

LEMMA EnterKeepsEngineInv ==
  ASSUME EngineTypeOK, EngineInv, NEW c \in Calls, NEW r \in Requests, NEW i, Enter(c, r, i)
  PROVE  EngineInv'
<1>1. /\ stage'[c] = "validating" /\ request'[c] = r /\ candidates'[c] = <<>>
      /\ \A d \in Calls \ {c} : EngineStanding(d)
  BY DEF Enter, EngineTypeOK, EngineInv, EngineInvOf, EngineStanding
<1>2. EngineInvOf(c)' /\ (stage[c] = "raised" => HasCause(c))'
  BY <1>1 DEF EngineInvOf
<1> QED BY <1>1, <1>2, OneCallMoves DEF Enter

LEMMA ValidateBundleKeepsEngineInv ==
  ASSUME EngineTypeOK, EngineInv, NEW c \in Calls, ValidateBundle(c)
  PROVE  EngineInv'
<1>1. /\ stage'[c] = "scoping" /\ candidates'[c] = <<>> /\ request'[c] \in Requests
      /\ rules' = rules /\ \A d \in Calls \ {c} : EngineStanding(d)
  BY DEF ValidateBundle, EngineTypeOK, EngineInv, EngineInvOf, EngineStanding
<1>2. EngineInvOf(c)' /\ (stage[c] = "raised" => HasCause(c))'
  BY <1>1 DEF EngineInvOf, ValidateBundle
<1> QED BY <1>1, <1>2, OneCallMoves DEF ValidateBundle

LEMMA RejectBundleKeepsEngineInv ==
  ASSUME EngineTypeOK, EngineInv, NEW c \in Calls, RejectBundle(c)
  PROVE  EngineInv'
<1> DEFINE t == TraceOf(c, Failed("policy_validation_failure"), "null", <<>>)
<1>1. /\ candidates'[c] = <<>> /\ request'[c] \in Requests /\ rules' = rules
      /\ request' = request /\ traceId' = traceId /\ candidates' = candidates
      /\ ~SemanticallyValid(rules) /\ Produces(c, t)
  BY DEF RejectBundle, EngineInv, EngineInvOf
<1>2. TraceConstructible(t) <=> traceId[c] # Blank
  BY DEF TraceConstructible, TraceOf, Failed, Distinct
<1>3. t' = t
  BY <1>1 DEF TraceOf
<1> HIDE DEF t
<1>4. /\ \/ TraceConstructible(t) /\ stage'[c] = "produced" /\ trace'[c] = t
         \/ ~TraceConstructible(t) /\ stage'[c] = "raised"
      /\ \A d \in Calls \ {c} : EngineStanding(d)
  BY <1>1, ProducesOrRaises DEF EngineStanding
<1>5. EngineInvOf(c)'
  BY <1>1, <1>3, <1>4 DEF EngineInvOf, Rejected, t
<1>6. (stage[c] = "raised" => HasCause(c))'
  BY <1>1, <1>2, <1>4 DEF HasCause
<1> QED BY <1>1, <1>4, <1>5, <1>6, OneCallMoves DEF RejectBundle

LEMMA BundleAppliesKeepsEngineInv ==
  ASSUME EngineTypeOK, EngineInv, NEW c \in Calls, BundleApplies(c)
  PROVE  EngineInv'
<1>1. /\ stage'[c] = "selecting" /\ candidates'[c] = <<>> /\ request'[c] \in Requests
      /\ request'[c] = request[c] /\ scope' = scope /\ Applicable(scope, request[c])
      /\ ~OwnerEdits => SemanticallyValid(rules)
      /\ rules' = rules /\ \A d \in Calls \ {c} : EngineStanding(d)
  BY DEF BundleApplies, EngineTypeOK, EngineInv, EngineInvOf, EngineStanding, scope
<1>2. EngineInvOf(c)' /\ (stage[c] = "raised" => HasCause(c))'
  BY <1>1 DEF EngineInvOf
<1> QED BY <1>1, <1>2, OneCallMoves DEF BundleApplies

LEMMA BundleDoesNotApplyKeepsEngineInv ==
  ASSUME EngineTypeOK, EngineInv, NEW c \in Calls, BundleDoesNotApply(c)
  PROVE  EngineInv'
<1> DEFINE t == TraceOf(c, AggregatePolicyOutcome(FALSE, <<>>), "not_applicable", <<>>)
<1>1. /\ candidates'[c] = <<>> /\ request'[c] \in Requests /\ rules' = rules
      /\ request' = request /\ traceId' = traceId /\ candidates' = candidates
      /\ scope' = scope /\ ~Applicable(scope, request[c]) /\ Produces(c, t)
      /\ ~OwnerEdits => SemanticallyValid(rules)
  BY DEF BundleDoesNotApply, EngineInv, EngineInvOf, scope
<1>2. TraceConstructible(t) <=> traceId[c] # Blank
  BY DEF TraceConstructible, TraceOf, AggregatePolicyOutcome, Completed, Distinct
<1>3. t' = t
  BY <1>1 DEF TraceOf
<1> HIDE DEF t
<1>4. /\ \/ TraceConstructible(t) /\ stage'[c] = "produced" /\ trace'[c] = t
         \/ ~TraceConstructible(t) /\ stage'[c] = "raised"
      /\ \A d \in Calls \ {c} : EngineStanding(d)
  BY <1>1, ProducesOrRaises DEF EngineStanding
<1>5. EngineInvOf(c)'
  BY <1>1, <1>3, <1>4 DEF EngineInvOf, OutOfScope, t
<1>6. (stage[c] = "raised" => HasCause(c))'
  BY <1>1, <1>2, <1>4 DEF HasCause
<1> QED BY <1>1, <1>4, <1>5, <1>6, OneCallMoves DEF BundleDoesNotApply

LEMMA SelectCandidatesKeepsEngineInv ==
  ASSUME EngineTypeOK, EngineInv, NEW c \in Calls, SelectCandidates(c)
  PROVE  EngineInv'
<1>1. /\ stage'[c] = "evaluating" /\ candidates'[c] = SelectCandidateRules(rules, request[c])
      /\ request'[c] \in Requests /\ request'[c] = request[c] /\ scope' = scope
      /\ Applicable(scope, request[c])
      /\ ~OwnerEdits => SemanticallyValid(rules)
      /\ rules \in RuleLists \cup {RulesOf(document)} /\ document' = document
      /\ rules' = rules /\ \A d \in Calls \ {c} : EngineStanding(d)
  BY DEF SelectCandidates, EngineTypeOK, EngineInv, EngineInvOf, EngineStanding, BundleKept, scope
<1>2. Selected(c)'
  BY <1>1 DEF Selected
<1>3. EngineInvOf(c)' /\ (stage[c] = "raised" => HasCause(c))'
  BY <1>1, <1>2 DEF EngineInvOf
<1> QED BY <1>1, <1>3, OneCallMoves

\* A list the bundle has had is a list of rule objects.
LEMMA SelectedFromAList ==
  ASSUME BundleKept, NEW list \in RuleLists \cup {RulesOf(document)}
  PROVE  IsRuleList(list)
BY RuleListsAssumption, DocumentsAssumption, LoadedRulesAreAList DEF BundleKept

\* What is known of the candidates of a call that selected some.
LEMMA CandidatesKnown ==
  ASSUME BundleKept, NEW c \in Calls, Selected(c)
  PROVE  /\ IsSequence(candidates[c])
         /\ \A k \in DOMAIN candidates[c] :
              /\ RuleConstructible(candidates[c][k].rule)
              /\ candidates[c][k].rule.rule_id \in Nat
              /\ IsSequence(candidates[c][k].rule.conditions)
         /\ \A k, l \in DOMAIN candidates[c] :
              k < l => candidates[c][k].rule.rule_id <= candidates[c][l].rule.rule_id
         /\ ~OwnerEdits => \A k, l \in DOMAIN candidates[c] :
              candidates[c][k].rule.rule_id = candidates[c][l].rule.rule_id => k = l
<1>1. PICK list \in RuleLists \cup {RulesOf(document)} :
        /\ candidates[c] = SelectCandidateRules(list, request[c])
        /\ ~OwnerEdits => SemanticallyValid(list)
  BY DEF Selected
<1>2. IsRuleList(list)
  BY SelectedFromAList
<1> DEFINE found == SelectCandidateRules(list, request[c])
<1>3. /\ DOMAIN found = DOMAIN list /\ IsSequence(found)
      /\ \A k \in DOMAIN list : \E i \in DOMAIN list : found[k].rule = list[i]
      /\ \A k, l \in DOMAIN list : k < l => found[k].rule.rule_id <= found[l].rule.rule_id
      /\ SemanticallyValid(list) =>
           \A k, l \in DOMAIN list : found[k].rule.rule_id = found[l].rule.rule_id => k = l
  BY <1>2, CandidatesAreTheList
<1>4. found = candidates[c]
  BY <1>1
<1> HIDE DEF found
<1>5. \A k \in DOMAIN list : /\ RuleConstructible(found[k].rule)
                             /\ found[k].rule.rule_id \in Nat
                             /\ IsSequence(found[k].rule.conditions)
  <2> SUFFICES ASSUME NEW k \in DOMAIN list
               PROVE  /\ RuleConstructible(found[k].rule)
                      /\ found[k].rule.rule_id \in Nat
                      /\ IsSequence(found[k].rule.conditions)
    OBVIOUS
  <2>1. PICK i \in DOMAIN list : found[k].rule = list[i]
    BY <1>3
  <2> QED BY <1>2, <2>1 DEF IsRuleList
<1> QED BY <1>1, <1>3, <1>4, <1>5

\* TraceRuleEvidence never refuses what the engine makes of a rule.
LEMMA EvidenceIsConstructible ==
  ASSUME BundleKept, NEW c \in Calls, Selected(c), NEW k \in DOMAIN candidates[c]
  PROVE  RuleEvidenceConstructible(EvidenceOf(c)[k])
<1> DEFINE rule == candidates[c][k].rule
           e == EvaluateRuleConditions(rule, request[c])
<1>1. RuleConstructible(rule) /\ IsSequence(rule.conditions)
  BY CandidatesKnown
<1>2. EvidenceOf(c)[k].result = e.result /\ EvidenceOf(c)[k].conditions = e.condition_results
  BY EvaluatedPositions
<1>3. \A i, j \in DOMAIN rule.conditions :
        rule.conditions[i].condition_id = rule.conditions[j].condition_id => i = j
  BY <1>1 DEF RuleConstructible, Distinct
<1>4. /\ DOMAIN e.condition_results \subseteq DOMAIN rule.conditions
      /\ \A i \in DOMAIN e.condition_results :
           /\ e.condition_results[i].condition_id = rule.conditions[i].condition_id
           /\ e.condition_results[i].result = "error" => e.result = "error"
  BY <1>1, RuleEvaluationMeans
<1> HIDE DEF rule, e
<1> QED BY <1>2, <1>3, <1>4 DEF RuleEvidenceConstructible, Distinct

LEMMA ConcludeKeepsEngineInv ==
  ASSUME EngineTypeOK, EngineInv, NEW c \in Calls, Conclude(c)
  PROVE  EngineInv'
<1> DEFINE t == TraceOf(c, AggregatePolicyOutcome(TRUE, EvaluatedRules(c)),
                        "applicable", EvidenceOf(c))
<1>1. /\ request'[c] \in Requests /\ rules' = rules /\ document' = document
      /\ request' = request /\ traceId' = traceId /\ candidates' = candidates
      /\ scope' = scope /\ Applicable(scope, request[c]) /\ Selected(c) /\ BundleKept
  BY DEF Conclude, EngineInv, EngineInvOf, scope
<1>2. Produces(c, t)
  BY <1>1, EvidenceIsConstructible DEF Conclude
<1>3. Selected(c)'
  BY <1>1, SameSelection
<1>4. t' = t
  BY <1>1, SameEvidence DEF TraceOf
<1>5. TraceConstructible(t) \/ HasCause(c)
  BY <1>1, ConcludedIsConstructible, CandidatesKnown DEF HasCause
<1>6. HasCause(c) => HasCause(c)'
  BY <1>1 DEF HasCause
<1>7. t' = TraceOf(c, AggregatePolicyOutcome(TRUE, EvaluatedRules(c)),
                   "applicable", EvidenceOf(c))'
  OBVIOUS
<1> HIDE DEF t
<1>8. /\ \/ TraceConstructible(t) /\ stage'[c] = "produced" /\ trace'[c] = t
         \/ ~TraceConstructible(t) /\ stage'[c] = "raised"
      /\ \A d \in Calls \ {c} : EngineStanding(d)
  BY <1>1, <1>2, ProducesOrRaises DEF EngineStanding
<1>9. EngineInvOf(c)'
  BY <1>1, <1>3, <1>4, <1>7, <1>8 DEF EngineInvOf, Concluded
<1>10. (stage[c] = "raised" => HasCause(c))'
  BY <1>5, <1>6, <1>8
<1> QED BY <1>1, <1>8, <1>9, <1>10, OneCallMoves

LEMMA EditRulesKeepsEngineInv ==
  ASSUME EngineInv, NEW list \in RuleLists, EditRules(list)
  PROVE  EngineInv'
<1>1. BundleKept'
  BY DEF EditRules, EngineInv, BundleKept
<1>2. ASSUME NEW d \in Calls
      PROVE  EngineInvOf(d)' /\ (stage[d] = "raised" => HasCause(d))'
  BY StandingKeepsEngineInvOf DEF EditRules, EngineStanding, EngineInv, EngineRaisesForACause
<1> QED BY <1>1, <1>2 DEF EngineInv, EngineRaisesForACause

LEMMA EngineStepKeepsEngineInv ==
  ASSUME EngineTypeOK, EngineInv, NEW c \in Calls, EngineStep(c)
  PROVE  EngineInv'
BY ValidateBundleKeepsEngineInv, RejectBundleKeepsEngineInv, BundleAppliesKeepsEngineInv,
   BundleDoesNotApplyKeepsEngineInv, SelectCandidatesKeepsEngineInv, ConcludeKeepsEngineInv
DEF EngineStep

LEMMA IdleEngineKeepsEngineInv ==
  ASSUME EngineInv, UNCHANGED engineVars
  PROVE  EngineInv'
<1>1. BundleKept'
  BY DEF engineVars, EngineInv, BundleKept
<1>2. ASSUME NEW d \in Calls
      PROVE  EngineInvOf(d)' /\ (stage[d] = "raised" => HasCause(d))'
  BY StandingKeepsEngineInvOf DEF engineVars, EngineStanding, EngineInv, EngineRaisesForACause
<1> QED BY <1>1, <1>2 DEF EngineInv, EngineRaisesForACause
-----------------------------------------------------------------------------
\* A trace that says the bundle applied was concluded from the candidates.
LEMMA ProducedTrace ==
  ASSUME NEW c, EngineInvOf(c), stage[c] = "produced"
  PROVE  /\ trace[c].status \in {"completed", "failed"}
         /\ trace[c].outcome \in {"allow", "deny", "not_applicable", "null"}
         /\ trace[c].applicability \in {"applicable", "not_applicable", "null"}
         /\ trace[c].trace_id = traceId[c] /\ trace[c].request_id = request[c].fields["request_id"]
         /\ trace[c].failure # "internal_evaluation_error"
         /\ trace[c].applicability = "applicable" => Concluded(c)
<1>1. TraceConstructible(trace[c]) /\ (Rejected(c) \/ OutOfScope(c) \/ Concluded(c))
  BY DEF EngineInvOf
<1>2. CASE Rejected(c)
  BY <1>2 DEF Rejected, TraceOf, Failed
<1>3. CASE OutOfScope(c)
  BY <1>3 DEF OutOfScope, TraceOf, AggregatePolicyOutcome, Completed
<1>4. CASE Concluded(c)
  <2> DEFINE a == AggregatePolicyOutcome(TRUE, EvaluatedRules(c))
  <2>1. a \in {Failed("condition_evaluation_error"), Completed("deny", "deny_rule_matched"),
               Completed("allow", "allow_rule_matched"), Completed("deny", "no_allow_rule_matched")}
    BY DEF AggregatePolicyOutcome
  <2> HIDE DEF a
  <2>2. /\ a.status \in {"completed", "failed"}
        /\ a.outcome \in {"allow", "deny", "not_applicable", "null"}
        /\ a.failure # "internal_evaluation_error"
    BY <2>1 DEF Failed, Completed
  <2>3. /\ trace[c].status = a.status /\ trace[c].outcome = a.outcome
        /\ trace[c].failure = a.failure /\ trace[c].applicability = "applicable"
        /\ trace[c].trace_id = traceId[c] /\ trace[c].request_id = request[c].fields["request_id"]
    BY <1>4 DEF Concluded, TraceOf, a
  <2> QED BY <1>4, <2>2, <2>3
<1> QED BY <1>1, <1>2, <1>3, <1>4

TracesTyped ==
  \A c \in Calls : stage[c] = "produced" =>
    /\ trace[c].status \in {"completed", "failed"}
    /\ trace[c].outcome \in {"allow", "deny", "not_applicable", "null"}
    /\ trace[c].applicability \in {"applicable", "not_applicable", "null"}

LEMMA ProducedTracesAreTyped == EngineInv => TracesTyped
BY ProducedTrace DEF EngineInv, TracesTyped

LEMMA EngineTypeOKInit == EngineInit => EngineTypeOK
BY DEF EngineInit, EngineTypeOK, Stages

LEMMA EngineTypeOKStep ==
  ASSUME EngineTypeOK, EngineInv, EngineInv', [EngineNext]_engineVars
  PROVE  EngineTypeOK'
<1>1. /\ document' \in Documents /\ rules' \in RuleLists \cup {RulesOf(document')}
      /\ \A c \in Calls : stage'[c] # "idle" => request'[c] \in Requests
  BY DEF EngineInv, BundleKept, EngineInvOf
<1>2. TracesTyped'
  BY ProducedTracesAreTyped, PTL
<1>3. /\ stage' \in [Calls -> Stages] /\ DOMAIN request' = Calls
      /\ traceId' \in [Calls -> Names \cup {Blank}]
      /\ DOMAIN candidates' = Calls /\ DOMAIN trace' = Calls
  <2>1. CASE \E c \in Calls, r \in Requests, i \in Names \cup {Blank} : Enter(c, r, i)
    BY <2>1 DEF Enter, EngineTypeOK, Stages
  <2>2. CASE \E c \in Calls : EngineStep(c)
    <3>1. PICK c \in Calls : EngineStep(c)
      BY <2>2
    <3>2. /\ DOMAIN request' = Calls /\ traceId' \in [Calls -> Names \cup {Blank}]
          /\ DOMAIN candidates' = Calls
      BY <3>1 DEF EngineTypeOK, EngineStep, ValidateBundle, RejectBundle, BundleApplies,
                  BundleDoesNotApply, SelectCandidates, Conclude
    <3>3. CASE ValidateBundle(c) \/ BundleApplies(c) \/ SelectCandidates(c)
      BY <3>2, <3>3 DEF EngineTypeOK, ValidateBundle, BundleApplies, SelectCandidates, Stages
    <3>4. CASE RejectBundle(c)
      <4>1. PICK t : Produces(c, t)
        BY <3>4 DEF RejectBundle
      <4> QED BY <3>2, <4>1, ProducesOrRaises
    <3>5. CASE BundleDoesNotApply(c)
      <4>1. PICK t : Produces(c, t)
        BY <3>5 DEF BundleDoesNotApply
      <4> QED BY <3>2, <4>1, ProducesOrRaises
    <3>6. CASE Conclude(c)
      <4>1. \/ \E t : Produces(c, t)
            \/ stage' = [stage EXCEPT ![c] = "raised"] /\ trace' = trace
        BY <3>6 DEF Conclude
      <4>2. CASE \E t : Produces(c, t)
        BY <3>2, <4>2, ProducesOrRaises
      <4>3. CASE stage' = [stage EXCEPT ![c] = "raised"] /\ trace' = trace
        BY <3>2, <4>3 DEF EngineTypeOK, Stages
      <4> QED BY <4>1, <4>2, <4>3
    <3> QED BY <3>1, <3>3, <3>4, <3>5, <3>6 DEF EngineStep
  <2>3. CASE \E list \in RuleLists : EditRules(list)
    BY <2>3 DEF EditRules, EngineTypeOK
  <2>4. CASE UNCHANGED engineVars
    BY <2>4 DEF engineVars, EngineTypeOK
  <2> QED BY <2>1, <2>2, <2>3, <2>4 DEF EngineNext
<1> QED BY <1>1, <1>2, <1>3 DEF EngineTypeOK, TracesTyped

LEMMA EngineInvStep ==
  ASSUME EngineTypeOK, EngineInv, [EngineNext]_engineVars
  PROVE  EngineInv'
<1>1. CASE \E c \in Calls, r \in Requests, i \in Names \cup {Blank} : Enter(c, r, i)
  BY <1>1, EnterKeepsEngineInv
<1>2. CASE \E c \in Calls : EngineStep(c)
  BY <1>2, EngineStepKeepsEngineInv
<1>3. CASE \E list \in RuleLists : EditRules(list)
  BY <1>3, EditRulesKeepsEngineInv
<1>4. CASE UNCHANGED engineVars
  BY <1>4, IdleEngineKeepsEngineInv
<1> QED BY <1>1, <1>2, <1>3, <1>4 DEF EngineNext

(***************************************************************************)
(* What every call knows at each of its stages, whatever the bundle's      *)
(* owner does to the list meanwhile (engine.py 311-508).                   *)
(***************************************************************************)
THEOREM EngineInvariant == EngineSpec => [](EngineTypeOK /\ EngineInv)
<1>1. EngineInit => EngineTypeOK /\ EngineInv
  BY EngineTypeOKInit, EngineInvInit
<1>2. EngineTypeOK /\ EngineInv /\ [EngineNext]_engineVars => (EngineTypeOK /\ EngineInv)'
  BY EngineTypeOKStep, EngineInvStep
<1> QED BY <1>1, <1>2, PTL DEF EngineSpec

(***************************************************************************)
(* The engine raises only for a blank trace_id or a list that was changed  *)
(* between its validation and its use (trace_assembly.py, engine.py        *)
(* 396-508).                                                               *)
(***************************************************************************)
THEOREM EngineRaisesOnlyForACause == EngineSpec => []EngineRaisesForACause
<1>1. EngineInv => EngineRaisesForACause
  BY DEF EngineInv
<1> QED BY <1>1, EngineInvariant, PTL
-----------------------------------------------------------------------------
LEMMA ApplicableIsConcluded ==
  ASSUME EngineInv, NEW c \in Calls, stage[c] = "produced", trace[c].applicability = "applicable"
  PROVE  /\ Selected(c) /\ Applicable(scope, request[c])
         /\ trace[c].rule_evidence = EvidenceOf(c)
         /\ \A j, k \in DOMAIN candidates[c] :
              candidates[c][j].rule.rule_id = candidates[c][k].rule.rule_id => j = k
<1>1. EngineInvOf(c) /\ TraceConstructible(trace[c])
  BY DEF EngineInv, EngineInvOf
<1>2. Concluded(c)
  BY <1>1, ProducedTrace
<1>3. trace[c].rule_evidence = EvidenceOf(c)
  BY <1>2 DEF Concluded, TraceOf
<1> QED BY <1>1, <1>2, <1>3, ConcludedIsConstructible DEF Concluded

\* What a selector finds, the request carries.
LEMMA SuppliedSpeaks ==
  ASSUME NEW r, NEW s, Supplied(r, s) # {}
  PROVE  Speaks(r, s)
BY DEF Supplied, Speaks

LEMMA AcceptedSpeaks ==
  ASSUME NEW selectors, NEW r, AllAccept(selectors, r), NEW s \in DOMAIN selectors
  PROVE  Speaks(r, s)
BY SuppliedSpeaks DEF AllAccept, Accepts

LEMMA SilentNeverMatches == EngineInv => SilenceNeverMatches
<1> SUFFICES ASSUME EngineInv, NEW c \in Calls,
                    stage[c] = "produced", trace[c].applicability = "applicable"
             PROVE  /\ \A d \in DOMAIN scope : Speaks(request[c], d)
                    /\ \A k \in DOMAIN candidates[c] :
                         (\E s \in DOMAIN candidates[c][k].rule.match : ~Speaks(request[c], s)) =>
                           /\ trace[c].rule_evidence[k].result = "not_matched"
                           /\ trace[c].rule_evidence[k].conditions = <<>>
  BY DEF SilenceNeverMatches
<1>1. /\ Selected(c) /\ Applicable(scope, request[c]) /\ BundleKept
      /\ trace[c].rule_evidence = EvidenceOf(c)
  BY ApplicableIsConcluded DEF EngineInv
<1>2. \A d \in DOMAIN scope : Speaks(request[c], d)
  BY <1>1, AcceptedSpeaks DEF Applicable
<1>3. ASSUME NEW k \in DOMAIN candidates[c],
             \E s \in DOMAIN candidates[c][k].rule.match : ~Speaks(request[c], s)
      PROVE  /\ trace[c].rule_evidence[k].result = "not_matched"
             /\ trace[c].rule_evidence[k].conditions = <<>>
  <2> DEFINE rule == candidates[c][k].rule
             e == EvaluateRuleConditions(rule, request[c])
  <2>1. ~AllAccept(rule.match, request[c])
    BY <1>3, AcceptedSpeaks
  <2>2. ~Holds(rule, request[c]) /\ ~Fails(rule, request[c])
    BY <2>1 DEF Holds, Fails
  <2>3. e.result = "not_matched" /\ e.condition_results = <<>>
    <3>1. IsSequence(rule.conditions)
      BY <1>1, CandidatesKnown
    <3> HIDE DEF rule
    <3> QED BY <2>1, <2>2, <3>1, RuleEvaluationMeans
  <2>4. EvidenceOf(c)[k].result = e.result /\ EvidenceOf(c)[k].conditions = e.condition_results
    BY EvaluatedPositions
  <2> QED BY <1>1, <2>3, <2>4
<1> QED BY <1>2, <1>3

(***************************************************************************)
(* Silence never matches, at any stage of any number of calls              *)
(* (applicability.py 205-228, selector.py 388-444).                        *)
(***************************************************************************)
THEOREM SilenceIsNoMatch == EngineSpec => []SilenceNeverMatches
BY SilentNeverMatches, EngineInvariant, PTL
-----------------------------------------------------------------------------
LEMMA ProjectedRationale ==
  ASSUME NEW rule, NEW result
  PROVE  ProjectRuleRationale(rule, result) = IF result = "matched" THEN rule.rationale ELSE "none"
BY DEF ProjectRuleRationale

LEMMA HonestEvidence == EngineInv => EvidenceIsHonest
<1> SUFFICES ASSUME EngineInv, NEW c \in Calls,
                    stage[c] = "produced", trace[c].applicability = "applicable"
             PROVE  LET evidence == trace[c].rule_evidence
                    IN /\ \A k \in DOMAIN evidence :
                            LET e == evidence[k]
                                rule == CHOOSE r \in Rules(c) : r.rule_id = e.rule_id
                            IN /\ (e.result = "matched") <=> Holds(rule, request[c])
                               /\ (e.result = "error") <=> Fails(rule, request[c])
                               /\ Len(e.conditions) =
                                    IF AllAccept(rule.match, request[c]) THEN Len(rule.conditions) ELSE 0
                               /\ e.rationale = IF Holds(rule, request[c]) THEN rule.rationale ELSE "none"
                       /\ {evidence[k].rule_id : k \in DOMAIN evidence} = {r.rule_id : r \in Rules(c)}
                       /\ \A k \in DOMAIN evidence : k > 1 => evidence[k - 1].rule_id < evidence[k].rule_id
  BY DEF EvidenceIsHonest
<1> DEFINE ev == trace[c].rule_evidence
           rule(k) == candidates[c][k].rule
<1>1. /\ Selected(c) /\ BundleKept /\ ev = EvidenceOf(c)
      /\ \A j, k \in DOMAIN candidates[c] : rule(j).rule_id = rule(k).rule_id => j = k
  BY ApplicableIsConcluded DEF EngineInv
<1>2. DOMAIN ev = DOMAIN candidates[c] /\ \A k \in DOMAIN ev : ev[k].rule_id = rule(k).rule_id
  BY <1>1, EvaluatedPositions
<1>3. /\ IsSequence(candidates[c])
      /\ \A k \in DOMAIN ev : rule(k).rule_id \in Nat /\ IsSequence(rule(k).conditions)
      /\ \A k, l \in DOMAIN ev : k < l => rule(k).rule_id <= rule(l).rule_id
  BY <1>1, <1>2, CandidatesKnown
<1>4. Rules(c) = {rule(k) : k \in DOMAIN ev}
  BY <1>2 DEF Rules
<1>5. ASSUME NEW k \in DOMAIN ev
      PROVE  LET e == ev[k]
                 r == CHOOSE r \in Rules(c) : r.rule_id = e.rule_id
             IN /\ (e.result = "matched") <=> Holds(r, request[c])
                /\ (e.result = "error") <=> Fails(r, request[c])
                /\ Len(e.conditions) =
                     IF AllAccept(r.match, request[c]) THEN Len(r.conditions) ELSE 0
                /\ e.rationale = IF Holds(r, request[c]) THEN r.rationale ELSE "none"
  <2> DEFINE own == rule(k)
             e == EvaluateRuleConditions(own, request[c])
  <2>1. /\ ev[k].result = e.result /\ ev[k].conditions = e.condition_results
        /\ ev[k].rationale = ProjectRuleRationale(own, e.result)
    BY <1>1, <1>2, EvaluatedPositions
  <2>2. IsSequence(own.conditions)
    BY <1>3
  <2>3. (CHOOSE r \in Rules(c) : r.rule_id = ev[k].rule_id) = own
    <3>1. own \in Rules(c) /\ own.rule_id = ev[k].rule_id
      BY <1>2, <1>4
    <3>2. \A r \in Rules(c) : r.rule_id = ev[k].rule_id => r = own
      <4> SUFFICES ASSUME NEW l \in DOMAIN ev, rule(l).rule_id = ev[k].rule_id
                   PROVE  rule(l) = own
        BY <1>4
      <4>1. l = k
        BY <1>1, <1>2
      <4> QED BY <4>1
    <3> HIDE DEF own, ev
    <3> QED BY <3>1, <3>2
  <2> HIDE DEF own, ev
  <2>4. /\ (e.result = "matched") <=> Holds(own, request[c])
        /\ (e.result = "error") <=> Fails(own, request[c])
        /\ Len(e.condition_results) =
             IF AllAccept(own.match, request[c]) THEN Len(own.conditions) ELSE 0
    BY <2>2, RuleEvaluationMeans
  <2> HIDE DEF e
  <2> QED BY <2>1, <2>3, <2>4, ProjectedRationale
<1>6. {ev[k].rule_id : k \in DOMAIN ev} = {r.rule_id : r \in Rules(c)}
  BY <1>2, <1>4
<1>7. ASSUME NEW k \in DOMAIN ev, k > 1
      PROVE  ev[k - 1].rule_id < ev[k].rule_id
  <2>1. k - 1 \in DOMAIN ev /\ k \in Int /\ k - 1 < k /\ k - 1 # k
    BY <1>2, <1>3, <1>7, SequenceDomain
  <2>2. rule(k - 1).rule_id <= rule(k).rule_id /\ rule(k - 1).rule_id # rule(k).rule_id
    BY <1>1, <1>2, <1>3, <2>1
  <2>3. rule(k - 1).rule_id \in Nat /\ rule(k).rule_id \in Nat
    BY <1>3, <2>1
  <2> QED BY <1>2, <2>1, <2>2, <2>3
<1> QED BY <1>5, <1>6, <1>7

(***************************************************************************)
(* Evidence is honest, whatever the list and whoever edits it meanwhile    *)
(* (trace_assembly.py 194-366).                                            *)
(***************************************************************************)
THEOREM EvidenceTellsTheTruth == EngineSpec => []EvidenceIsHonest
BY HonestEvidence, EngineInvariant, PTL
-----------------------------------------------------------------------------
\* Loading an accepted document keeps what each of its rules says.
LEMMA LoadedRuleMeans ==
  ASSUME NEW d, IsDocument(d), BundleAccepted(d), NEW i \in DOMAIN d.rules, NEW r
  PROVE  LET w == d.rules[i]
         IN /\ RuleOf(w).rule_id = w.rule_id /\ RuleOf(w).effect = w.effect
            /\ Holds(RuleOf(w), r) <=> WrittenHolds(w, r)
            /\ Fails(RuleOf(w), r) <=> WrittenFails(w, r)
<1> DEFINE w == d.rules[i]
           rule == RuleOf(w)
<1>1. /\ IsSelectors(w.match) /\ IsOptional(w.conditions)
      /\ w.conditions # Null => IsSequence(w.conditions[1])
      /\ w.match # Null => SelectorsAccepted(w.match[1], MatchCategories)
      /\ RuleConstructible(rule)
  BY DEF IsDocument, BundleAccepted, RuleAccepted
<1>2. /\ rule.rule_id = w.rule_id /\ rule.effect = w.effect /\ rule.match = Selectors(w.match)
      /\ rule.conditions = IF w.conditions = Null THEN <<>> ELSE w.conditions[1]
  BY DEF RuleOf
<1> HIDE DEF w, rule
<1>3. AllAccept(rule.match, r) <=> WrittenMatch(w.match, r)
  BY <1>1, <1>2, SelectorsKeepMeaning
<1>4. ConditionAnswers(w, r) =
        {EvaluateCondition(rule.conditions[k], r) : k \in DOMAIN rule.conditions}
  BY <1>2 DEF ConditionAnswers
<1>5. w.match = Null => ConditionAnswers(w, r) # {}
  <2> SUFFICES ASSUME w.match = Null PROVE ConditionAnswers(w, r) # {}
    OBVIOUS
  <2>1. DOMAIN rule.match = {}
    BY <1>2 DEF Selectors
  <2>2. rule.conditions # <<>>
    BY <1>1, <2>1 DEF RuleConstructible
  <2>3. IsSequence(rule.conditions)
    BY <1>1, <1>2, <2>2
  <2>4. DOMAIN rule.conditions # {}
    BY <2>2, <2>3 DEF IsSequence
  <2> QED BY <1>4, <2>4
<1>6. Holds(rule, r) <=> WrittenHolds(w, r)
  BY <1>3, <1>4, <1>5 DEF Holds, WrittenHolds
<1>7. Fails(rule, r) <=> WrittenFails(w, r)
  BY <1>3, <1>4 DEF Fails, WrittenFails
<1> QED BY <1>2, <1>6, <1>7 DEF w, rule

\* The bundle is semantically valid if its document names no rule twice.
LEMMA ValidIfIdsDiffer ==
  ASSUME NEW d, IsDocument(d), BundleAccepted(d)
  PROVE  SemanticallyValid(RulesOf(d)) <=> Distinct(d.rules, LAMBDA w : w.rule_id)
<1> DEFINE list == RulesOf(d)
<1>1. /\ IsRuleList(list) /\ DOMAIN list = DOMAIN d.rules
      /\ \A i \in DOMAIN d.rules : list[i] = RuleOf(d.rules[i])
  BY LoadedRulesAreAList
<1>2. \A i \in DOMAIN d.rules : list[i].rule_id = d.rules[i].rule_id
  <2>1. \A w : RuleOf(w).rule_id = w.rule_id
    BY DEF RuleOf
  <2> HIDE DEF list
  <2> QED BY <1>1, <2>1
<1>3. \A i \in DOMAIN list : Distinct(list[i].conditions, LAMBDA c : c.condition_id)
  BY <1>1 DEF IsRuleList, RuleConstructible
<1> HIDE DEF list
<1>4. Distinct(list, LAMBDA x : x.rule_id) <=> Distinct(d.rules, LAMBDA w : w.rule_id)
  BY <1>1, <1>2 DEF Distinct
<1> QED BY <1>3, <1>4 DEF SemanticallyValid, list

\* What the aggregate says, in terms of the rules that were asked.
LEMMA ConcludedMeans ==
  ASSUME EngineInv, NEW c \in Calls, Concluded(c)
  PROVE  LET t == trace[c]
             r == request[c]
             held(e) == \E x \in Rules(c) : x.effect = e /\ Holds(x, r)
             failed == \E x \in Rules(c) : Fails(x, r)
         IN /\ failed => /\ t.status = "failed" /\ t.outcome = "null"
                         /\ t.failure = "condition_evaluation_error" /\ t.reason = "none"
            /\ ~failed => t.status = "completed" /\ t.failure = "none"
            /\ ~failed /\ held("deny") => t.outcome = "deny" /\ t.reason = "deny_rule_matched"
            /\ ~failed /\ ~held("deny") /\ held("allow") =>
                 t.outcome = "allow" /\ t.reason = "allow_rule_matched"
            /\ ~failed /\ ~held("deny") /\ ~held("allow") =>
                 t.outcome = "deny" /\ t.reason = "no_allow_rule_matched"
<1> DEFINE t == trace[c]
           r == request[c]
           held(e) == \E x \in Rules(c) : x.effect = e /\ Holds(x, r)
           failed == \E x \in Rules(c) : Fails(x, r)
           ev == EvaluatedRules(c)
           a == AggregatePolicyOutcome(TRUE, ev)
           rule(k) == candidates[c][k].rule
<1>1. t.status = a.status /\ t.outcome = a.outcome /\ t.failure = a.failure /\ t.reason = a.reason
  BY DEF Concluded, TraceOf
<1>2. DOMAIN ev = DOMAIN candidates[c] /\ Rules(c) = {rule(k) : k \in DOMAIN ev}
  BY EvaluatedPositions DEF Rules
<1>3. ASSUME NEW k \in DOMAIN ev
      PROVE  /\ (ev[k].result = "matched") <=> Holds(rule(k), r)
             /\ (ev[k].result = "error") <=> Fails(rule(k), r)
             /\ ev[k].effect = rule(k).effect
  <2> DEFINE own == rule(k)
             e == EvaluateRuleConditions(own, r)
  <2>1. ev[k].result = e.result /\ ev[k].effect = own.effect
    BY <1>2, EvaluatedPositions
  <2>2. IsSequence(own.conditions)
    BY <1>2, CandidatesKnown DEF Concluded, EngineInv
  <2> HIDE DEF own, ev, r
  <2>3. /\ (e.result = "matched") <=> Holds(own, r)
        /\ (e.result = "error") <=> Fails(own, r)
    BY <2>2, RuleEvaluationMeans
  <2> HIDE DEF e
  <2> QED BY <2>1, <2>3 DEF own
<1> HIDE DEF ev, rule, r
<1>4. failed <=> \E k \in DOMAIN ev : ev[k].result = "error"
  BY <1>2, <1>3
<1>5. ASSUME NEW e PROVE held(e) <=> MatchedEffect(ev, e)
  BY <1>2, <1>3 DEF MatchedEffect
<1>6. /\ failed => a = Failed("condition_evaluation_error")
      /\ ~failed /\ held("deny") => a = Completed("deny", "deny_rule_matched")
      /\ ~failed /\ ~held("deny") /\ held("allow") => a = Completed("allow", "allow_rule_matched")
      /\ ~failed /\ ~held("deny") /\ ~held("allow") =>
           a = Completed("deny", "no_allow_rule_matched")
  <2>1. held("deny") <=> MatchedEffect(ev, "deny")
    BY <1>5
  <2>2. held("allow") <=> MatchedEffect(ev, "allow")
    BY <1>5
  <2> HIDE DEF held, failed
  <2> QED BY <1>4, <2>1, <2>2, AggregateForms
<1> HIDE DEF a, held, failed, t
<1>7. /\ failed => /\ t.status = "failed" /\ t.outcome = "null"
                   /\ t.failure = "condition_evaluation_error" /\ t.reason = "none"
      /\ ~failed => t.status = "completed" /\ t.failure = "none"
      /\ ~failed /\ held("deny") => t.outcome = "deny" /\ t.reason = "deny_rule_matched"
      /\ ~failed /\ ~held("deny") /\ held("allow") =>
           t.outcome = "allow" /\ t.reason = "allow_rule_matched"
      /\ ~failed /\ ~held("deny") /\ ~held("allow") =>
           t.outcome = "deny" /\ t.reason = "no_allow_rule_matched"
  BY <1>1, <1>6 DEF Failed, Completed
<1> QED BY <1>7 DEF held, failed, t, r

\* The rules that were asked are those of the list that was read.
LEMMA RulesAreTheList ==
  ASSUME EngineInv, NEW c \in Calls, Selected(c), ~OwnerEdits
  PROVE  Rules(c) = {rules[i] : i \in DOMAIN rules}
<1>1. candidates[c] = SelectCandidateRules(rules, request[c]) /\ IsRuleList(rules)
  BY SelectedFromAList DEF Selected, EngineInv, BundleKept
<1> DEFINE found == SelectCandidateRules(rules, request[c])
<1>2. /\ DOMAIN found = DOMAIN rules
      /\ \A k \in DOMAIN rules : \E i \in DOMAIN rules : found[k].rule = rules[i]
      /\ \A i \in DOMAIN rules : \E k \in DOMAIN rules : found[k].rule = rules[i]
  BY <1>1, CandidatesAreTheList
<1>3. candidates[c] = found
  BY <1>1
<1> HIDE DEF found
<1>4. Rules(c) = {found[k].rule : k \in DOMAIN found}
  BY <1>3 DEF Rules
<1>5. ASSUME NEW x \in Rules(c) PROVE x \in {rules[i] : i \in DOMAIN rules}
  <2>1. PICK k \in DOMAIN rules : x = found[k].rule
    BY <1>2, <1>4
  <2>2. PICK i \in DOMAIN rules : found[k].rule = rules[i]
    BY <1>2
  <2> QED BY <2>1, <2>2
<1>6. ASSUME NEW i \in DOMAIN rules PROVE rules[i] \in Rules(c)
  BY <1>2, <1>4
<1> QED BY <1>5, <1>6
-----------------------------------------------------------------------------
LEMMA MeantOutcome == EngineInv => OutcomeIsMeant
<1> SUFFICES ASSUME EngineInv, NEW c \in Calls, stage[c] = "produced", ~OwnerEdits
             PROVE  LET t == trace[c]
                        authored == {document.rules[i] : i \in DOMAIN document.rules}
                        Held(e) == \E w \in authored : w.effect = e /\ WrittenHolds(w, request[c])
                        failed == \E w \in authored : WrittenFails(w, request[c])
                    IN CASE ~Distinct(document.rules, LAMBDA w : w.rule_id) ->
                              t.failure = "policy_validation_failure" /\ t.applicability = "null"
                         [] Distinct(document.rules, LAMBDA w : w.rule_id)
                            /\ ~WrittenMatch(document.scope, request[c]) -> t.outcome = "not_applicable"
                         [] OTHER ->
                              /\ (t.status = "failed") <=> failed
                              /\ ~failed => t.outcome = IF Held("allow") /\ ~Held("deny") THEN "allow" ELSE "deny"
  BY DEF OutcomeIsMeant
<1> DEFINE t == trace[c]
           r == request[c]
           authored == {document.rules[i] : i \in DOMAIN document.rules}
           Held(e) == \E w \in authored : w.effect = e /\ WrittenHolds(w, r)
           failed == \E w \in authored : WrittenFails(w, r)
           unique == Distinct(document.rules, LAMBDA w : w.rule_id)
           inScope == WrittenMatch(document.scope, r)
<1>1. /\ rules = RulesOf(document) /\ IsDocument(document) /\ BundleAccepted(document)
      /\ Rejected(c) \/ OutOfScope(c) \/ Concluded(c)
  BY DocumentsAssumption DEF EngineInv, BundleKept, EngineInvOf
<1>2. SemanticallyValid(rules) <=> unique
  BY <1>1, ValidIfIdsDiffer
<1>3. Applicable(scope, r) <=> inScope
  <2>1. IsSelectors(document.scope) /\ (document.scope # Null => SelectorsAccepted(document.scope[1], ScopeDimensions))
    BY <1>1 DEF IsDocument, BundleAccepted
  <2> QED BY <2>1, SelectorsKeepMeaning DEF Applicable, scope
<1>4. CASE Rejected(c)
  <2>1. ~unique
    BY <1>2, <1>4 DEF Rejected
  <2>2. t.failure = "policy_validation_failure" /\ t.applicability = "null"
    BY <1>4 DEF Rejected, TraceOf, Failed
  <2> QED BY <2>1, <2>2
<1>5. CASE OutOfScope(c)
  <2>1. unique /\ ~inScope
    BY <1>2, <1>3, <1>5 DEF OutOfScope
  <2>2. t.outcome = "not_applicable"
    BY <1>5 DEF OutOfScope, TraceOf, AggregatePolicyOutcome, Completed
  <2> HIDE DEF t, unique, inScope
  <2> QED BY <2>1, <2>2 DEF t, unique, inScope
<1>6. CASE Concluded(c)
  <2> DEFINE held(e) == \E x \in Rules(c) : x.effect = e /\ Holds(x, r)
             failing == \E x \in Rules(c) : Fails(x, r)
  <2>1. Selected(c) /\ inScope /\ unique
    BY <1>2, <1>3, <1>6 DEF Concluded, Selected
  <2>2. /\ failing => t.status = "failed"
        /\ ~failing => t.status = "completed"
        /\ ~failing /\ held("deny") => t.outcome = "deny"
        /\ ~failing /\ ~held("deny") /\ held("allow") => t.outcome = "allow"
        /\ ~failing /\ ~held("deny") /\ ~held("allow") => t.outcome = "deny"
    BY <1>6, ConcludedMeans
  <2>3. /\ Rules(c) = {rules[i] : i \in DOMAIN rules} /\ DOMAIN rules = DOMAIN document.rules
        /\ \A i \in DOMAIN rules : rules[i] = RuleOf(document.rules[i])
    BY <1>1, <2>1, RulesAreTheList, LoadedRulesAreAList
  <2>4. \A i \in DOMAIN document.rules :
           /\ rules[i].effect = document.rules[i].effect
           /\ Holds(rules[i], r) <=> WrittenHolds(document.rules[i], r)
           /\ Fails(rules[i], r) <=> WrittenFails(document.rules[i], r)
    <3> SUFFICES ASSUME NEW i \in DOMAIN document.rules
                 PROVE  /\ rules[i].effect = document.rules[i].effect
                        /\ Holds(rules[i], r) <=> WrittenHolds(document.rules[i], r)
                        /\ Fails(rules[i], r) <=> WrittenFails(document.rules[i], r)
      OBVIOUS
    <3>1. rules[i] = RuleOf(document.rules[i])
      BY <2>3
    <3> QED BY <1>1, <3>1, LoadedRuleMeans
  <2> HIDE DEF r
  <2>5. failing <=> failed
    BY <2>3, <2>4
  <2>6. ASSUME NEW e PROVE held(e) <=> Held(e)
    BY <2>3, <2>4
  <2>7. (held("deny") <=> Held("deny")) /\ (held("allow") <=> Held("allow"))
    BY <2>6
  <2> HIDE DEF t, unique, inScope, held, failing, failed, Held
  <2>8. /\ (t.status = "failed") <=> failed
        /\ ~failed => t.outcome = IF Held("allow") /\ ~Held("deny") THEN "allow" ELSE "deny"
    BY <2>2, <2>5, <2>7
  <2> QED BY <2>1, <2>8 DEF t, unique, inScope, Held, failed, r
<1> QED BY <1>1, <1>4, <1>5, <1>6

(***************************************************************************)
(* The outcome is the one the author wrote, for every document that loads  *)
(* and every request, while nobody edits the bundle's list (rule.py        *)
(* 469-683, bundle.py 325-556, aggregation.py 547-647).                    *)
(***************************************************************************)
THEOREM OutcomeIsTheAuthors == EngineSpec => []OutcomeIsMeant
BY MeantOutcome, EngineInvariant, PTL
-----------------------------------------------------------------------------
AbstractionOf(c) == IF WereAsked(c) THEN {Answer(x, request[c]) : x \in Rules(c)} ELSE {}

Conclusion(c) ==
  CASE ~WereAsked(c) -> "unasked"
    [] WereAsked(c) /\ stage[c] # "produced" -> "pending"
    [] OTHER -> IF trace[c].status = "failed" THEN "error"
                ELSE IF trace[c].reason = "no_allow_rule_matched" THEN "not_applicable"
                ELSE trace[c].outcome

LEMMA AbstractView ==
  /\ AbstractAnswers = [c \in Calls |-> AbstractionOf(c)]
  /\ AbstractOutcome = [c \in Calls |-> Conclusion(c)]
BY DEF AbstractAnswers, AbstractOutcome, AbstractionOf, Conclusion

LEMMA EngineInitRefines == EngineInit => Abstract!Init
<1> SUFFICES ASSUME EngineInit PROVE Abstract!Init
  OBVIOUS
<1>1. \A c \in Calls : AbstractionOf(c) = {} /\ Conclusion(c) = "unasked"
  BY DEF EngineInit, AbstractionOf, Conclusion, WereAsked
<1> QED BY <1>1, AbstractView DEF Abstract!Init

\* A call that stands still looks the same from above.
LEMMA StandingLooksTheSame ==
  ASSUME NEW c \in Calls, candidates'[c] = candidates[c],
         WereAsked(c) => stage'[c] = stage[c] /\ request'[c] = request[c] /\ trace'[c] = trace[c]
  PROVE  AbstractionOf(c)' = AbstractionOf(c) /\ Conclusion(c)' = Conclusion(c)
BY DEF AbstractionOf, Conclusion, WereAsked, Rules

LEMMA LooksTheSame ==
  ASSUME \A c \in Calls : AbstractionOf(c)' = AbstractionOf(c) /\ Conclusion(c)' = Conclusion(c)
  PROVE  UNCHANGED Abstract!abstractVars
<1>1. /\ AbstractAnswers' = [c \in Calls |-> AbstractionOf(c)']
      /\ AbstractOutcome' = [c \in Calls |-> Conclusion(c)']
  BY DEF AbstractAnswers, AbstractOutcome, AbstractionOf, Conclusion
<1> QED BY <1>1, AbstractView DEF Abstract!abstractVars

LEMMA OneCallLooksDifferent ==
  ASSUME NEW c \in Calls,
         \A d \in Calls \ {c} : AbstractionOf(d)' = AbstractionOf(d) /\ Conclusion(d)' = Conclusion(d)
  PROVE  /\ AbstractAnswers' = [AbstractAnswers EXCEPT ![c] = AbstractionOf(c)']
         /\ AbstractOutcome' = [AbstractOutcome EXCEPT ![c] = Conclusion(c)']
         /\ AbstractAnswers[c] = AbstractionOf(c) /\ AbstractOutcome[c] = Conclusion(c)
<1>1. /\ AbstractAnswers' = [d \in Calls |-> AbstractionOf(d)']
      /\ AbstractOutcome' = [d \in Calls |-> Conclusion(d)']
  BY DEF AbstractAnswers, AbstractOutcome, AbstractionOf, Conclusion
<1> QED BY <1>1, AbstractView

RulesHaveEffects ==
  \A c \in Calls : Selected(c) => \A x \in Rules(c) : x.effect \in Effects

LEMMA SelectedRulesHaveEffects == EngineInv => RulesHaveEffects
BY CandidatesKnown DEF RulesHaveEffects, Rules, EngineInv, RuleConstructible

\* Putting the rules to a call is asking.
LEMMA SelectCandidatesRefines ==
  ASSUME EngineTypeOK, EngineInv, EngineInv', NEW c \in Calls, SelectCandidates(c)
  PROVE  Abstract!Ask(c) \/ UNCHANGED Abstract!abstractVars
<1>1. /\ stage[c] = "selecting" /\ stage'[c] = "evaluating" /\ candidates[c] = <<>>
      /\ \A d \in Calls \ {c} : EngineStanding(d)
  BY DEF SelectCandidates, EngineTypeOK, EngineInv, EngineInvOf, EngineStanding
<1>2. \A d \in Calls \ {c} : AbstractionOf(d)' = AbstractionOf(d) /\ Conclusion(d)' = Conclusion(d)
  BY <1>1, StandingLooksTheSame DEF EngineStanding
<1>3. Conclusion(c) = "unasked" /\ AbstractionOf(c) = {}
  BY <1>1 DEF Conclusion, AbstractionOf, WereAsked
<1>4. CASE ~WereAsked(c)'
  <2>1. Conclusion(c)' = "unasked" /\ AbstractionOf(c)' = {}
    BY <1>4 DEF Conclusion, AbstractionOf
  <2> QED BY <1>2, <1>3, <2>1, LooksTheSame
<1>5. CASE WereAsked(c)'
  <2>1. Conclusion(c)' = "pending"
    BY <1>1, <1>5 DEF Conclusion
  <2>2. AbstractionOf(c)' = {Answer(x, request[c]) : x \in Rules(c)}'
    BY <1>5 DEF AbstractionOf
  <2>3. Selected(c)'
    BY <1>1 DEF EngineInv, EngineInvOf
  <2>4. AbstractionOf(c)' \in SUBSET Abstract!RuleAnswers
    <3>1. \A x \in Rules(c)' : x.effect \in Effects
      <4>1. RulesHaveEffects'
        BY SelectedRulesHaveEffects, PTL
      <4> QED BY <2>3, <4>1 DEF RulesHaveEffects
    <3> QED BY <2>2, <3>1 DEF Answer, Effects, Abstract!RuleAnswers
  <2> QED BY <1>2, <1>3, <2>1, <2>4, OneCallLooksDifferent DEF Abstract!Ask
<1> QED BY <1>4, <1>5

ConclusionsPermitted ==
  \A c \in Calls : (WereAsked(c) /\ stage[c] = "produced") =>
    Conclusion(c) \in Abstract!Permitted(AbstractionOf(c))

LEMMA ProducedConclusionsArePermitted == EngineInv => ConclusionsPermitted
<1> SUFFICES ASSUME EngineInv, NEW c \in Calls, WereAsked(c), stage[c] = "produced"
             PROVE  Conclusion(c) \in Abstract!Permitted(AbstractionOf(c))
  BY DEF ConclusionsPermitted
<1> DEFINE t == trace[c]
           r == request[c]
           held(e) == \E x \in Rules(c) : x.effect = e /\ Holds(x, r)
           failed == \E x \in Rules(c) : Fails(x, r)
           A == AbstractionOf(c)
           o == Conclusion(c)
<1>1. Concluded(c)
  BY DEF EngineInv, EngineInvOf, WereAsked, Rejected, OutOfScope
<1>2. /\ failed => t.status = "failed"
      /\ ~failed => t.status = "completed"
      /\ ~failed /\ held("deny") => t.outcome = "deny" /\ t.reason = "deny_rule_matched"
      /\ ~failed /\ ~held("deny") /\ held("allow") =>
           t.outcome = "allow" /\ t.reason = "allow_rule_matched"
      /\ ~failed /\ ~held("deny") /\ ~held("allow") => t.reason = "no_allow_rule_matched"
  BY <1>1, ConcludedMeans
<1>3. A = {Answer(x, r) : x \in Rules(c)}
  BY DEF AbstractionOf
<1>4. o = IF t.status = "failed" THEN "error"
          ELSE IF t.reason = "no_allow_rule_matched" THEN "not_applicable" ELSE t.outcome
  BY DEF Conclusion
<1>5. \A x \in Rules(c) : x.effect \in {"allow", "deny"}
  BY <1>1, SelectedRulesHaveEffects DEF RulesHaveEffects, Concluded, Effects
<1> HIDE DEF A, o, t, r
<1>6. failed => "raises" \in A
  BY <1>3 DEF Answer
<1>7. ~failed => A \subseteq {"allow", "deny", "not_applicable"}
  BY <1>3, <1>5 DEF Answer
<1>8. ASSUME ~failed, NEW e \in {"allow", "deny"} PROVE held(e) <=> e \in A
  BY <1>3, <1>8 DEF Answer
<1>9. ~failed => (held("deny") <=> "deny" \in A) /\ (held("allow") <=> "allow" \in A)
  BY <1>8
<1> HIDE DEF held, failed
<1>10. \/ o = "allow" /\ "allow" \in A /\ A \subseteq {"allow", "not_applicable"}
       \/ o = "not_applicable" /\ A \subseteq {"not_applicable"}
       \/ o = "deny" /\ "deny" \in A
       \/ o = "error" /\ "raises" \in A
  <2>1. CASE failed
    BY <2>1, <1>2, <1>4, <1>6
  <2>2. CASE ~failed /\ held("deny")
    BY <2>2, <1>2, <1>4, <1>9
  <2>3. CASE ~failed /\ ~held("deny") /\ held("allow")
    BY <2>3, <1>2, <1>4, <1>7, <1>9
  <2>4. CASE ~failed /\ ~held("deny") /\ ~held("allow")
    BY <2>4, <1>2, <1>4, <1>7, <1>9
  <2> QED BY <2>1, <2>2, <2>3, <2>4
<1> QED BY <1>10 DEF Abstract!Permitted, Abstract!Conclusions, A, o

\* Concluding from the rules is concluding from the set of their answers.
LEMMA ConcludeRefines ==
  ASSUME EngineTypeOK, EngineInv, NEW c \in Calls, Conclude(c), EngineInv'
  PROVE  Abstract!Conclude(c) \/ UNCHANGED Abstract!abstractVars
<1>1. /\ stage[c] = "evaluating" /\ Selected(c) /\ BundleKept
      /\ request' = request /\ candidates' = candidates /\ traceId' = traceId
  BY DEF Conclude, EngineInv, EngineInvOf
<1>2. /\ stage'[c] = "produced" \/ stage'[c] = "raised"
      /\ \A d \in Calls \ {c} : EngineStanding(d)
  <2>1. PICK t : Produces(c, t)
    BY <1>1, EvidenceIsConstructible DEF Conclude
  <2> QED BY <1>1, <2>1, ProducesOrRaises DEF EngineStanding
<1>3. \A d \in Calls \ {c} : AbstractionOf(d)' = AbstractionOf(d) /\ Conclusion(d)' = Conclusion(d)
  BY <1>2, StandingLooksTheSame DEF EngineStanding
<1>4. AbstractionOf(c)' = AbstractionOf(c) /\ (WereAsked(c)' <=> WereAsked(c))
  BY <1>1 DEF AbstractionOf, WereAsked, Rules
<1>5. CASE ~WereAsked(c) \/ stage'[c] = "raised"
  <2>1. Conclusion(c)' = Conclusion(c)
    BY <1>1, <1>4, <1>5 DEF Conclusion
  <2> QED BY <1>3, <1>4, <2>1, LooksTheSame
<1>6. CASE WereAsked(c) /\ stage'[c] = "produced"
  <2>1. Conclusion(c) = "pending"
    BY <1>1, <1>6 DEF Conclusion
  <2>2. ConclusionsPermitted'
    BY ProducedConclusionsArePermitted, PTL
  <2>3. Conclusion(c)' \in Abstract!Permitted(AbstractionOf(c))
    BY <1>4, <1>6, <2>2 DEF ConclusionsPermitted, Abstract!Permitted
  <2>4. AbstractAnswers' = AbstractAnswers
    BY <1>3, <1>4, OneCallLooksDifferent, AbstractView
  <2> QED BY <1>3, <2>1, <2>3, <2>4, OneCallLooksDifferent DEF Abstract!Conclude
<1> QED BY <1>2, <1>5, <1>6

LEMMA EngineStepRefines ==
  ASSUME EngineTypeOK, EngineInv, EngineInv', [EngineNext]_engineVars
  PROVE  [Abstract!Next]_(Abstract!abstractVars)
<1>1. CASE \E c \in Calls, r \in Requests, i \in Names \cup {Blank} : Enter(c, r, i)
  <2>1. PICK c \in Calls : stage[c] = "idle" /\ (\A d \in Calls \ {c} : EngineStanding(d))
                           /\ candidates' = candidates
    BY <1>1 DEF Enter, EngineTypeOK, EngineStanding
  <2>2. ~WereAsked(c)
    BY <2>1 DEF EngineInv, EngineInvOf, WereAsked
  <2> QED BY <2>1, <2>2, StandingLooksTheSame, LooksTheSame DEF EngineStanding
<1>2. CASE \E c \in Calls : EngineStep(c)
  <2>1. PICK c \in Calls : EngineStep(c)
    BY <1>2
  <2>2. CASE ValidateBundle(c) \/ RejectBundle(c) \/ BundleApplies(c) \/ BundleDoesNotApply(c)
    <3>1. /\ stage[c] \in {"validating", "scoping"} /\ candidates' = candidates
          /\ request' = request /\ traceId' = traceId
          /\ \/ stage' = [stage EXCEPT ![c] = "scoping"] /\ trace' = trace
             \/ stage' = [stage EXCEPT ![c] = "selecting"] /\ trace' = trace
             \/ \E t : Produces(c, t)
      BY <2>2 DEF ValidateBundle, RejectBundle, BundleApplies, BundleDoesNotApply
    <3>2. \A d \in Calls \ {c} : EngineStanding(d)
      <4>1. CASE \E t : Produces(c, t)
        BY <3>1, <4>1, ProducesOrRaises DEF EngineStanding
      <4>2. CASE trace' = trace /\ \E x : stage' = [stage EXCEPT ![c] = x]
        BY <3>1, <4>2 DEF EngineStanding, EngineTypeOK
      <4> QED BY <3>1, <4>1, <4>2
    <3>3. ~WereAsked(c)
      BY <3>1 DEF EngineInv, EngineInvOf, WereAsked
    <3> QED BY <3>1, <3>2, <3>3, StandingLooksTheSame, LooksTheSame DEF EngineStanding
  <2>3. CASE SelectCandidates(c)
    BY <2>3, SelectCandidatesRefines DEF Abstract!Next
  <2>4. CASE Conclude(c)
    BY <2>4, ConcludeRefines DEF Abstract!Next
  <2> QED BY <2>1, <2>2, <2>3, <2>4 DEF EngineStep
<1>3. CASE \E list \in RuleLists : EditRules(list)
  BY <1>3, StandingLooksTheSame, LooksTheSame DEF EditRules
<1>4. CASE UNCHANGED engineVars
  BY <1>4, StandingLooksTheSame, LooksTheSame DEF engineVars
<1> QED BY <1>1, <1>2, <1>3, <1>4 DEF EngineNext

(***************************************************************************)
(* The engine keeps the promise of the v0.1 engine: each call is concluded *)
(* as the set of the answers of the rules it selected permits, whatever    *)
(* other calls and the owner of the list do (engine.py 311-508,            *)
(* aggregation.py 547-647).                                                *)
(***************************************************************************)
THEOREM EngineRefinesDenyOverrides == EngineSpec => ImplementsDenyOverrides
<1>1. EngineInit => Abstract!Init
  BY EngineInitRefines
<1>2. EngineTypeOK /\ EngineInv /\ (EngineTypeOK /\ EngineInv)' /\ [EngineNext]_engineVars
        => [Abstract!Next]_(Abstract!abstractVars)
  BY EngineStepRefines
<1> QED BY <1>1, <1>2, EngineInvariant, PTL
        DEF EngineSpec, ImplementsDenyOverrides, Abstract!Spec
-----------------------------------------------------------------------------
\* Two calls that found the same rules have them at the same positions.
LEMMA SameRulesSamePlaces ==
  ASSUME EngineInv, NEW c \in Calls, NEW d \in Calls,
         stage[c] = "produced", stage[d] = "produced", WereAsked(c), WereAsked(d),
         Rules(c) = Rules(d), NEW k \in DOMAIN candidates[c]
  PROVE  k \in DOMAIN candidates[d] /\ candidates[c][k].rule = candidates[d][k].rule
<1> DEFINE own(x) == [j \in DOMAIN candidates[x] |-> candidates[x][j].rule]
           n(x) == Len(candidates[x])
<1>1. ASSUME NEW x \in Calls, stage[x] = "produced", WereAsked(x)
      PROVE  /\ n(x) \in Nat /\ DOMAIN candidates[x] = 1 .. n(x)
             /\ Rules(x) = {own(x)[j] : j \in 1 .. n(x)}
             /\ \A j \in 1 .. n(x) : own(x)[j] = candidates[x][j].rule
             /\ \A j \in 1 .. n(x) : own(x)[j].rule_id \in Nat
             /\ \A i, j \in 1 .. n(x) : i < j => own(x)[i].rule_id < own(x)[j].rule_id
  <2>1. Concluded(x) /\ TraceConstructible(trace[x]) /\ BundleKept
    BY <1>1 DEF EngineInv, EngineInvOf, WereAsked, Rejected, OutOfScope
  <2>2. n(x) \in Nat /\ DOMAIN candidates[x] = 1 .. n(x)
    BY <2>1, CandidatesKnown, SequenceDomain DEF Concluded
  <2>3. \A j \in 1 .. n(x) : candidates[x][j].rule.rule_id \in Nat
    BY <2>1, <2>2, CandidatesKnown DEF Concluded
  <2>4. /\ \A i, j \in 1 .. n(x) : i < j =>
             candidates[x][i].rule.rule_id <= candidates[x][j].rule.rule_id
        /\ \A i, j \in 1 .. n(x) :
             candidates[x][i].rule.rule_id = candidates[x][j].rule.rule_id => i = j
    BY <2>1, <2>2, CandidatesKnown, ConcludedIsConstructible DEF Concluded
  <2>5. \A i, j \in 1 .. n(x) : i < j =>
          candidates[x][i].rule.rule_id < candidates[x][j].rule.rule_id
    <3> SUFFICES ASSUME NEW i \in 1 .. n(x), NEW j \in 1 .. n(x), i < j
                 PROVE  candidates[x][i].rule.rule_id < candidates[x][j].rule.rule_id
      OBVIOUS
    <3>1. i # j
      BY <2>2
    <3> QED BY <2>3, <2>4, <3>1
  <2>6. Rules(x) = {own(x)[j] : j \in 1 .. n(x)}
    BY <2>2 DEF Rules
  <2> QED BY <2>2, <2>3, <2>5, <2>6
<1> DEFINE oc == own(c)
           od == own(d)
           nc == n(c)
           nd == n(d)
           below(i) == {y \in Rules(c) : y.rule_id < i}
<1>2. /\ nc \in Nat /\ DOMAIN candidates[c] = 1 .. nc /\ Rules(c) = {oc[j] : j \in 1 .. nc}
      /\ \A j \in 1 .. nc : oc[j] = candidates[c][j].rule
      /\ \A j \in 1 .. nc : oc[j].rule_id \in Nat
      /\ \A i, j \in 1 .. nc : i < j => oc[i].rule_id < oc[j].rule_id
  BY <1>1
<1>3. /\ nd \in Nat /\ DOMAIN candidates[d] = 1 .. nd /\ Rules(c) = {od[j] : j \in 1 .. nd}
      /\ \A j \in 1 .. nd : od[j] = candidates[d][j].rule
      /\ \A j \in 1 .. nd : od[j].rule_id \in Nat
      /\ \A i, j \in 1 .. nd : i < j => od[i].rule_id < od[j].rule_id
  BY <1>1
<1> HIDE DEF oc, od, nc, nd
<1>4. k \in 1 .. nc /\ Cardinality(below(oc[k].rule_id)) = k - 1
  BY <1>2, PositionIsRank
<1>5. PICK l \in 1 .. nd : od[l] = oc[k]
  BY <1>2, <1>3
<1>6. Cardinality(below(od[l].rule_id)) = l - 1
  BY <1>3, PositionIsRank
<1>7. k = l
  <2>1. k - 1 = l - 1
    BY <1>4, <1>5, <1>6
  <2> QED BY <1>2, <1>3, <1>4, <2>1
<1> QED BY <1>2, <1>3, <1>4, <1>5, <1>7

LEMMA IrrelevantOrder == EngineInv => AuthoringOrderIrrelevant
<1> SUFFICES ASSUME EngineInv, NEW c \in Calls, NEW d \in Calls,
                    stage[c] = "produced", stage[d] = "produced",
                    WereAsked(c), WereAsked(d), request[c] = request[d], Rules(c) = Rules(d)
             PROVE  trace[c] = [trace[d] EXCEPT !.trace_id = traceId[c]]
  BY DEF AuthoringOrderIrrelevant
<1>1. /\ DOMAIN candidates[c] = DOMAIN candidates[d]
      /\ \A k \in DOMAIN candidates[c] : candidates[c][k].rule = candidates[d][k].rule
  BY SameRulesSamePlaces
<1>2. Concluded(c) /\ Concluded(d)
  BY DEF EngineInv, EngineInvOf, WereAsked, Rejected, OutOfScope
<1>3. Evaluations(c) = Evaluations(d)
  BY <1>1 DEF Evaluations
<1>4. EvaluatedRules(c) = EvaluatedRules(d)
  BY <1>1, <1>3 DEF EvaluatedRules
<1>5. EvidenceOf(c) = EvidenceOf(d)
  BY <1>1, <1>3 DEF EvidenceOf
<1> HIDE DEF EvaluatedRules, EvidenceOf
<1>6. PICK a, e : /\ trace[c] = TraceOf(c, a, "applicable", e)
                  /\ trace[d] = TraceOf(d, a, "applicable", e)
  BY <1>2, <1>4, <1>5 DEF Concluded
<1> QED BY <1>6 DEF TraceOf

(***************************************************************************)
(* The order in which rules are authored is irrelevant: two calls that     *)
(* found the same rules, in lists of any length and order, produce the     *)
(* same trace but for its id (selector.py 772-841).                        *)
(***************************************************************************)
THEOREM OrderIsIrrelevant == EngineSpec => []AuthoringOrderIrrelevant
BY IrrelevantOrder, EngineInvariant, PTL
=============================================================================
