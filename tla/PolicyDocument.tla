---------------------------- MODULE PolicyDocument ----------------------------
(***************************************************************************)
(* How an authored policy document becomes a bundle: what the models of    *)
(* src/src/basis_core/policy/operation_aware/bundle.py and rule.py refuse  *)
(* (PolicyBundle.model_validate), and what they make of the rest.          *)
(*                                                                         *)
(* An optional part of a document is a sequence of at most one value: a    *)
(* null selector is written down, and is not an omitted one.  A document   *)
(* is well formed or not in its ids, versions, timestamps and provenance;  *)
(* Malformed stands for a selector item that is blank or off its pattern.  *)
(***************************************************************************)
EXTENDS OperationAwarePolicy

Null == <<>>
Given(value) == <<value>>
Malformed == Scalar("string", 0)

\* A plausible bug: a null selector is taken for an omitted one.
SelectorsAccepted_NullOmitted(written, fields) ==
  /\ DOMAIN written \subseteq fields
  /\ \A s \in DOMAIN written : written[s] # Null =>
       written[s][1] # {} /\ Malformed \notin written[s][1]

\* The validators of OperationAwarePolicyMatch and PolicyBundleScope: declared
\* selectors only and at least one, none of them null, empty or malformed.
SelectorsAccepted(written, fields) ==
  /\ DOMAIN written \subseteq fields
  /\ DOMAIN written # {}
  /\ \A s \in DOMAIN written :
       written[s] # Null /\ written[s][1] # {} /\ Malformed \notin written[s][1]

\* The selectors of the object that is built; what is None restricts nothing.
Selectors(optional) ==
  IF optional = Null THEN <<>>
  ELSE [s \in {x \in DOMAIN optional[1] : optional[1][x] # Null} |-> optional[1][s][1]]

RuleOf(written) ==
  [rule_id |-> written.rule_id, effect |-> written.effect, match |-> Selectors(written.match),
   conditions |-> IF written.conditions = Null THEN <<>> ELSE written.conditions[1],
   rationale |-> written.rationale]

\* What a rule object is once built: some match or condition, condition ids
\* unique within the rule.
RuleConstructible(rule) ==
  /\ rule.effect \in Effects
  /\ DOMAIN rule.match # {} \/ rule.conditions # <<>>
  /\ DOMAIN rule.match \subseteq MatchCategories
  /\ Distinct(rule.conditions, LAMBDA c : c.condition_id)
  /\ \A s \in DOMAIN rule.match : rule.match[s] # {}
  /\ \A i \in DOMAIN rule.conditions : ExpectedValueValid(rule.conditions[i].expected)

\* The list of rules a bundle holds; ids are numbered in their order as texts.
IsSequence(s) == s \in Seq({s[i] : i \in DOMAIN s})

IsRuleList(rules) ==
  /\ IsSequence(rules)
  /\ \A i \in DOMAIN rules : /\ RuleConstructible(rules[i])
                             /\ rules[i].rule_id \in Nat /\ IsSequence(rules[i].conditions)

\* The shape of a document, accepted or not.
IsOptional(optional) == optional = Null \/ optional = Given(optional[1])

IsSelectors(optional) ==
  IsOptional(optional) /\ (optional # Null => \A s \in DOMAIN optional[1] : IsOptional(optional[1][s]))

IsDocument(document) ==
  /\ IsSelectors(document.scope)
  /\ IsSequence(document.rules)
  /\ \A i \in DOMAIN document.rules :
       LET w == document.rules[i]
       IN /\ w.rule_id \in Nat /\ IsSelectors(w.match) /\ IsOptional(w.conditions)
          /\ w.conditions # Null => IsSequence(w.conditions[1])

RuleAccepted(written) ==
  /\ written.match # Null => SelectorsAccepted(written.match[1], MatchCategories)
  /\ written.conditions # Null => written.conditions[1] # <<>>
  /\ RuleConstructible(RuleOf(written))

\* PolicyBundle.model_validate accepts: at least one rule, and a scope that is
\* null or restricts something.  Rule ids may repeat: that is semantic.
BundleAccepted(document) ==
  /\ document.well_formed
  /\ document.scope # Null => SelectorsAccepted(document.scope[1], ScopeDimensions)
  /\ document.rules # <<>>
  /\ \A i \in DOMAIN document.rules : RuleAccepted(document.rules[i])

RulesOf(document) == [i \in DOMAIN document.rules |-> RuleOf(document.rules[i])]
-----------------------------------------------------------------------------
\* What a document says, read without loading it: every selector written down
\* restricts, and one that lists nothing accepts nothing.
WrittenMatch(optional, request) ==
  optional = Null \/
    \A s \in DOMAIN optional[1] :
      \E i \in DOMAIN optional[1][s] : Supplied(request, s) \cap optional[1][s][i] # {}

ConditionAnswers(written, request) ==
  IF written.conditions = Null THEN {}
  ELSE {EvaluateCondition(written.conditions[1][i], request) : i \in DOMAIN written.conditions[1]}

\* An authored rule holds, and says something of which requests it is about.
WrittenHolds(written, request) ==
  /\ written.match # Null \/ ConditionAnswers(written, request) # {}
  /\ WrittenMatch(written.match, request)
  /\ ConditionAnswers(written, request) \subseteq {"match"}

\* An authored rule is about the request, and one of its conditions has no answer.
WrittenFails(written, request) ==
  WrittenMatch(written.match, request) /\ "error" \in ConditionAnswers(written, request)
=============================================================================
