--------------------- MODULE MCOperationAwareEnforcement ---------------------
(***************************************************************************)
(* TLC instances of OperationAwareEnforcement: a small vocabulary of       *)
(* requests and a pool of rules with every way to match, not match and     *)
(* fail.                                                                   *)
(***************************************************************************)
EXTENDS OperationAwareEnforcement, TLC

Text(n) == Scalar("string", n)
Roles == [family |-> "array", value |-> 0]
OneText(n) == [form |-> "scalar", items |-> <<Text(n)>>]
OneNumber(n) == [form |-> "scalar", items |-> <<Scalar("number", n)>>]

\* A request from a site, with a risk score, and one without any context.
RequestAt(site, score) ==
  [fields |-> [request_id |-> Text(9), subject_id |-> Text(3), action |-> Text(1),
               subject_roles |-> Roles],
   contexts |-> [location |-> [site_id |-> Text(site)],
                 risk_context |-> [score |-> Scalar("number", score)]],
   attrs |-> <<>>, roles |-> {Text(5)}]

BareRequest ==
  [fields |-> [request_id |-> Text(8), subject_id |-> Text(3), action |-> Text(1),
               subject_roles |-> Roles],
   contexts |-> <<>>, attrs |-> <<>>, roles |-> {}]

RiskyRequest == RequestAt(1, 7)
ElsewhereRequest == RequestAt(2, 2)
SafeRequest == RequestAt(1, 2)

MCRequests == {RiskyRequest, ElsewhereRequest, BareRequest}
OneRequest == {SafeRequest}

Condition(n, path, operator, expected) ==
  [condition_id |-> n, path |-> path, operator |-> operator, expected |-> expected]

Risky(n) == Condition(n, <<"risk_context", "score">>, "greater_than", OneNumber(5))
Mistyped(n) == Condition(n, <<"risk_context", "score">>, "equals", OneText(5))
Undeclared(n) == Condition(n, <<"risk_context", "level">>, "not_exists", OneText(0))

Rule(n, effect, match, conditions) ==
  [rule_id |-> n, effect |-> effect, match |-> match, conditions |-> conditions,
   rationale |-> "authored"]

AtSite1 == [site_ids |-> {Text(1)}]
ForRole5 == [subject_roles |-> {Text(5), Text(6)}]
ForAction == [actions |-> {Text(1)}]

\* The text of a rule, as its author writes it.
Written(rule) ==
  [rule_id |-> rule.rule_id, effect |-> rule.effect, rationale |-> rule.rationale,
   match |-> IF rule.match = <<>> THEN Null
             ELSE Given([s \in DOMAIN rule.match |-> Given(rule.match[s])]),
   conditions |-> IF rule.conditions = <<>> THEN Null ELSE Given(rule.conditions)]

WrittenList(list) == [i \in DOMAIN list |-> Written(list[i])]

Document(selectors, list) == [well_formed |-> TRUE, scope |-> selectors, rules |-> list]

\* Rules that match by selectors, by conditions, by both, or that cannot be
\* evaluated; the third and the sixth are conditions-only rules.
AllowAction(n) == Rule(n, "allow", ForAction, <<>>)
AllowRole(n) == Rule(n, "allow", ForRole5 @@ AtSite1, <<>>)
DenyRisky(n) == Rule(n, "deny", <<>>, <<Risky(1)>>)
DenySite(n) == Rule(n, "deny", AtSite1, <<>>)
AllowMistyped(n) == Rule(n, "allow", AtSite1, <<Risky(1), Mistyped(2)>>)
DenyUndeclared(n) == Rule(n, "deny", <<>>, <<Undeclared(1)>>)

WrittenAtSite1 == [site_ids |-> Given({Text(1)})]

MCWrittenScopes ==
  {Null, Given(WrittenAtSite1),
   Given(WrittenAtSite1 @@ [actions |-> Given({Text(1), Text(2)})])}

\* Lists of up to three rules, their reversals, and one with an id twice.
MCRuleLists ==
  {<<AllowAction(1)>>,
   <<AllowAction(2), DenyRisky(1)>>,
   <<DenyRisky(1), AllowAction(2)>>,
   <<AllowRole(1), AllowMistyped(2)>>,
   <<DenySite(1), AllowMistyped(2)>>,
   <<AllowMistyped(3), DenyRisky(2), AllowAction(1)>>,
   <<AllowRole(3), DenyUndeclared(2)>>,
   <<AllowAction(2), AllowRole(1), DenyRisky(3)>>,
   <<AllowAction(1), DenySite(1)>>}

\* Texts that say less than they seem to: a selector that is null, that lists
\* nothing or something malformed, no selector at all, no restriction at all.
Careless(match, conditions) ==
  <<[rule_id |-> 1, effect |-> "allow", rationale |-> "authored",
     match |-> match, conditions |-> conditions]>>

CarelessLists ==
  {Careless(Given([actions |-> Null]), Null),
   Careless(Given([actions |-> Given({Text(1)}), site_ids |-> Null]), Null),
   Careless(Given([actions |-> Given({Text(1)}), subject_roles |-> Given({})]), Null),
   Careless(Given([actions |-> Given({Text(1), Malformed})]), Null),
   Careless(Given([site_ids |-> Given({Text(1)}), floor_ids |-> Given({Text(1)})]), Null),
   Careless(Given(<<>>), Given(<<Risky(1)>>)),
   Careless(Given([actions |-> Null]), Given(<<Risky(1)>>)),
   Careless(Null, Given(<<>>)),
   Careless(Null, Null),
   Careless(Null, Given(<<Risky(1), Risky(1)>>))}

MCDocuments ==
  {Document(s, WrittenList(l)) : s \in MCWrittenScopes, l \in MCRuleLists}
    \cup {Document(Null, l) : l \in CarelessLists}
    \cup {Document(s, WrittenList(<<AllowAction(1)>>)) :
            s \in {Given(<<>>), Given([site_ids |-> Null]), Given([site_ids |-> Given({})])}}
    \cup {[Document(Null, WrittenList(<<AllowAction(1)>>)) EXCEPT !.well_formed = FALSE],
          Document(Null, <<>>)}

\* The lists an owner may put in place while calls run: of OneRequest they say
\* no rule, allow in both orders, deny, not evaluable and invalid.
EditedRuleLists ==
  {<<>>, <<AllowAction(2), DenyRisky(1)>>, <<DenyRisky(1), AllowAction(2)>>,
   <<AllowAction(2), DenySite(1)>>, <<AllowMistyped(1)>>, <<AllowAction(1), DenySite(1)>>}

\* What the bundle is before its owner edits it.
EditedDocuments == {Document(Null, WrittenList(<<AllowAction(2), DenyRisky(1)>>))}

\* Which of two calls is which makes no difference to a safety property.
CallSymmetry == Permutations(Calls)

\* All calls have ended.
Terminated == (\A c \in Calls : phase[c] \in {"returned", "raised"}) /\ UNCHANGED vars

MCSpec == Init /\ [][Next \/ Terminated]_vars
MCFairSpec == MCSpec /\ \A c \in Calls : WF_vars(CallStep(c))
=============================================================================
