------------------------- MODULE OperationAwarePolicy ------------------------
(***************************************************************************)
(* The pure half of the operation-aware pipeline, in                       *)
(* src/src/basis_core/policy/operation_aware: bundle scope                 *)
(* (applicability.py), rule selectors and candidate order (selector.py),   *)
(* conditions of a rule (condition_eval.py), semantic validation           *)
(* (validation.py) and aggregation (aggregation.py).                       *)
(*                                                                         *)
(* A match or a scope is a function on the selectors it populates; the     *)
(* empty function is None, for an empty object and an empty array are      *)
(* refused when the policy is built.  A rule's conditions are a sequence,  *)
(* empty for None.  The order of rule ids is that of their numbers.        *)
(***************************************************************************)
EXTENDS ConditionOperators, FiniteSets

\* Where each selector finds the request's value; subject_roles is apart.
CategoryPath ==
  [subject_ids |-> <<"subject_id">>, identity_sources |-> <<"identity_source">>,
   authority_modes |-> <<"authority_mode">>, actions |-> <<"action">>,
   resources |-> <<"resource">>, resource_types |-> <<"resource_type">>,
   operation_intents |-> <<"operation_intent">>,
   site_ids |-> <<"location", "site_id">>, building_ids |-> <<"location", "building_id">>,
   zone_ids |-> <<"location", "zone_id">>, area_ids |-> <<"location", "area_id">>,
   device_ids |-> <<"device", "device_id">>, device_classes |-> <<"device", "device_class">>,
   protocols |-> <<"protocol_context", "protocol">>,
   protocol_operations |-> <<"protocol_context", "operation">>,
   safety_modes |-> <<"safety_context", "mode">>,
   safety_classifications |-> <<"safety_context", "classification">>,
   environment_modes |-> <<"environment_context", "mode">>,
   risk_classifications |-> <<"risk_context", "classification">>]

MatchCategories == DOMAIN CategoryPath \cup {"subject_roles"}

\* The ten dimensions a bundle's scope may restrict.
ScopeDimensions ==
  {"actions", "resource_types", "site_ids", "building_ids", "zone_ids", "area_ids",
   "device_classes", "environment_modes", "authority_modes", "protocols"}

\* The request's values for a selector: none, one, or the subject's roles.
Supplied(request, category) ==
  IF category = "subject_roles" THEN request.roles
  ELSE LET path == CategoryPath[category]
           holder == IF Len(path) = 1 THEN {request.fields}
                     ELSE {request.contexts[x] : x \in {path[1]} \cap DOMAIN request.contexts}
       IN {h[path[Len(path)]] : h \in {g \in holder : path[Len(path)] \in DOMAIN g}}

\* A plausible bug: what the request does not say does not restrict.
Accepts_Unstated(accepted, supplied) == supplied = {} \/ supplied \cap accepted # {}

\* _scalar_matches, _roles_match, _selector_matches on a populated selector:
\* any one of the accepted alternatives, and never by absence.
Accepts(accepted, supplied) == supplied \cap accepted # {}

\* _all_selectors_match and determine_applicability: all populated selectors.
AllAccept(selectors, request) ==
  \A s \in DOMAIN selectors : Accepts(selectors[s], Supplied(request, s))

Applicable(scope, request) == AllAccept(scope, request)

\* evaluate_rule_selectors: matched only when no condition is left to ask.
EvaluateRuleSelectors(rule, request) ==
  LET structural == AllAccept(rule.match, request)
  IN [result |-> IF structural /\ rule.conditions = <<>> THEN "matched" ELSE "not_matched",
      pending |-> structural /\ rule.conditions # <<>>]

AggregateConditions(results) ==
  IF \E i \in DOMAIN results : results[i].result = "error" THEN "error"
  ELSE IF \A i \in DOMAIN results : results[i].result = "match" THEN "matched"
  ELSE "not_matched"

\* evaluate_rule_conditions: every condition is evaluated, in authored order,
\* and only for a rule whose selectors are satisfied.
EvaluateRuleConditions(rule, request) ==
  LET selector == EvaluateRuleSelectors(rule, request)
      results == [i \in DOMAIN rule.conditions |->
                    [condition_id |-> rule.conditions[i].condition_id,
                     result |-> EvaluateCondition(rule.conditions[i], request)]]
  IN IF selector.pending
       THEN [rule_id |-> rule.rule_id, result |-> AggregateConditions(results),
             condition_results |-> results]
       ELSE [rule_id |-> rule.rule_id, result |-> selector.result, condition_results |-> <<>>]
-----------------------------------------------------------------------------
Distinct(seq, Id(_)) == \A i, j \in DOMAIN seq : Id(seq[i]) = Id(seq[j]) => i = j

\* validate_policy_bundle on a bundle object: no rule_id twice, no
\* condition_id twice in one rule.
SemanticallyValid(rules) ==
  /\ Distinct(rules, LAMBDA r : r.rule_id)
  /\ \A i \in DOMAIN rules : Distinct(rules[i].conditions, LAMBDA c : c.condition_id)

\* The k-th element of a finite set, in a strict total order on it.
Nth(S, before, k) ==
  CHOOSE i \in S : Cardinality({j \in S : <<j, i>> \in before}) = k - 1

\* The order in which sorted puts the positions of a list, by rule_id and stable.
Precedence(rules) ==
  {p \in (DOMAIN rules) \X (DOMAIN rules) :
     \/ rules[p[1]].rule_id < rules[p[2]].rule_id
     \/ rules[p[1]].rule_id = rules[p[2]].rule_id /\ p[1] < p[2]}

\* A plausible bug: the candidates keep the order in which they were authored.
SortedById_Authored(rules) == rules

SortedById(rules) ==
  [k \in DOMAIN rules |-> rules[Nth(DOMAIN rules, Precedence(rules), k)]]

\* select_candidate_rules: every rule, matched or not, with its selector result.
SelectCandidateRules(rules, request) ==
  LET sorted == SortedById(rules)
  IN [k \in DOMAIN sorted |->
        [rule |-> sorted[k], selector |-> EvaluateRuleSelectors(sorted[k], request)]]
-----------------------------------------------------------------------------
Effects == {"allow", "deny"}

Completed(outcome, reason) ==
  [status |-> "completed", outcome |-> outcome, failure |-> "none", reason |-> reason]

\* A plausible bug: a failed evaluation also says deny, to be on the safe side.
Failed_Denies(failure) ==
  [status |-> "failed", outcome |-> "deny", failure |-> failure, reason |-> "none"]

Failed(failure) ==
  [status |-> "failed", outcome |-> "null", failure |-> failure, reason |-> "none"]

MatchedEffect(evaluated, effect) ==
  \E i \in DOMAIN evaluated :
    evaluated[i].result = "matched" /\ evaluated[i].effect = effect

\* A plausible bug: a matched deny is looked for before errors are.
AggregatePolicyOutcome_DenyFirst(applicable, evaluated) ==
  IF ~applicable THEN Completed("not_applicable", "no_applicable_bundle")
  ELSE IF MatchedEffect(evaluated, "deny") THEN Completed("deny", "deny_rule_matched")
  ELSE IF \E i \in DOMAIN evaluated : evaluated[i].result = "error"
    THEN Failed("condition_evaluation_error")
  ELSE IF MatchedEffect(evaluated, "allow") THEN Completed("allow", "allow_rule_matched")
  ELSE Completed("deny", "no_allow_rule_matched")

\* A plausible bug: an allow is looked for before a deny.
AggregatePolicyOutcome_AllowFirst(applicable, evaluated) ==
  IF ~applicable THEN Completed("not_applicable", "no_applicable_bundle")
  ELSE IF \E i \in DOMAIN evaluated : evaluated[i].result = "error"
    THEN Failed("condition_evaluation_error")
  ELSE IF MatchedEffect(evaluated, "allow") THEN Completed("allow", "allow_rule_matched")
  ELSE Completed("deny", "deny_rule_matched")

\* aggregate_policy_outcome: error over deny over allow over default deny.  (It
\* refuses evaluated rules of a bundle that is not applicable; its one caller
\* passes none.)
AggregatePolicyOutcome(applicable, evaluated) ==
  IF ~applicable THEN Completed("not_applicable", "no_applicable_bundle")
  ELSE IF \E i \in DOMAIN evaluated : evaluated[i].result = "error"
    THEN Failed("condition_evaluation_error")
  ELSE IF MatchedEffect(evaluated, "deny") THEN Completed("deny", "deny_rule_matched")
  ELSE IF MatchedEffect(evaluated, "allow") THEN Completed("allow", "allow_rule_matched")
  ELSE Completed("deny", "no_allow_rule_matched")
=============================================================================
