---------------------------- MODULE BuiltinRules -----------------------------
(***************************************************************************)
(* The three rules that ship with the package                              *)
(* (src/src/basis_core/policy/rules.py), registered in the engine of       *)
(* PolicyEngine in some order.  Where PolicyEngine leaves open what rules  *)
(* answer, here they answer from their tables and the call's arguments.    *)
(*                                                                         *)
(* Tables are copied when a rule is built and never change.  They are      *)
(* functions on the actions they cover.                                    *)
(***************************************************************************)
EXTENDS PolicyEngine, RequestParts, FiniteSets

CONSTANTS
  Actions,      \* the actions that are asked for
  Roles,        \* the roles subjects may hold
  Types,        \* the resource types
  NoResource,   \* resource_id is None
  Payloads,     \* the token payloads of the subjects that ask
  Resources,    \* the resource identifiers they ask about
  Policies      \* the policies that may be configured

Kinds == {"role", "type", "action"}

\* A policy: the rules in order, and the table of each kind of rule.
Policy == [chain : [Rules -> Kinds],
           roleTable : UNION {[A -> SUBSET Roles] : A \in SUBSET Actions},
           permitted : SUBSET Types,
           outcomes : UNION {[A -> Outcomes] : A \in SUBSET Actions}]

\* What the engine is asked: by the bearer of a token, about a resource or none.
Question == [payload : Payloads, action : Actions, resource : Resources \cup {NoResource}]

\* A built-in rule gives one of the three outcomes, and a reason of its own.
BuiltinVerdicts == [answer : Outcomes, text : {"ok"}]

ASSUME BuiltinVerdictsAssumption == BuiltinVerdicts \subseteq Verdicts
ASSUME PoliciesAssumption == Policies \subseteq Policy
ASSUME PayloadsAssumption == Payloads \subseteq PayloadsOver(Roles)
ASSUME ResourcesAssumption == \A id \in Resources : id # <<>>

VARIABLES
  policy,       \* the configured policy
  question      \* question[c]: what call c asks

vars == <<engineVars, policy, question>>

NoQuestion == [resource |-> NoResource]

Init ==
  /\ EngineInit
  /\ policy \in Policies
  /\ question = [c \in Calls |-> NoQuestion]
-----------------------------------------------------------------------------
\* RolePolicyRule: a listed action needs one of the listed roles.
RoleAnswer(table, q) ==
  IF q.action \notin DOMAIN table THEN "not_applicable"
  ELSE IF HasRole(SubjectFromJwt(q.payload), table[q.action]) THEN "allow" ELSE "deny"

\* A plausible bug: a type that is not permitted is left to the other rules.
TypeAnswer_Lenient(permitted, q) ==
  IF q.resource # NoResource /\ TypePrefix(q.resource) \in permitted
  THEN "allow" ELSE "not_applicable"

\* ResourceTypePolicyRule: the prefix of resource_id, if there is one.
TypeAnswer(permitted, q) ==
  IF q.resource = NoResource THEN "not_applicable"
  ELSE IF TypePrefix(q.resource) \in permitted THEN "allow" ELSE "deny"

\* ActionPolicyRule.
ActionAnswer(outcomes, q) ==
  IF q.action \in DOMAIN outcomes THEN outcomes[q.action] ELSE "not_applicable"

\* What rule r of the policy answers to q.
AnswerOf(p, r, q) ==
  CASE p.chain[r] = "role" -> RoleAnswer(p.roleTable, q)
    [] p.chain[r] = "type" -> TypeAnswer(p.permitted, q)
    [] p.chain[r] = "action" -> ActionAnswer(p.outcomes, q)

\* The engine is called with q.  A token that gives no subject is not asked for:
\* "treat a missing sub as an authentication failure" (subject.py 114-122).
AskPolicy(c, q) ==
  /\ SubjectFromJwt(q.payload) # NoSubject
  /\ question' = [question EXCEPT ![c] = q]
  /\ Evaluate(c, [r \in Rules |-> [answer |-> AnswerOf(policy, r, q), text |-> "ok"]])
  /\ UNCHANGED policy

Step(c) == EngineStep(c) /\ UNCHANGED <<policy, question>>

Next ==
  \E c \in Calls :
    \/ engine[c] = "idle" /\ \E q \in Question : AskPolicy(c, q)
    \/ Step(c)

Spec == Init /\ [][Next]_vars
-----------------------------------------------------------------------------
Has(kind) == kind \in {policy.chain[r] : r \in Rules}

\* The roles that a token lists, whatever spaces it puts around them.
Listed(payload) ==
  {role \in Roles : payload.shape = "list" /\
     \E i \in DOMAIN payload.roles : payload.roles[i] \in {Item("name", role), Item("padded", role)}}

(***************************************************************************)
(* A grant respects every table that speaks: a listed action is granted    *)
(* only to the bearer of a token that lists one of its roles, a resource   *)
(* only if its identifier begins with a permitted type, and a denylisted   *)
(* action never, wherever in the chain each rule was put (rules.py 88-119, *)
(* 152-185, 222-246 and subject.py 124-151, under deny-overrides).         *)
(***************************************************************************)
GrantsObeyEveryTable ==
  \A c \in Calls : Grants(c) =>
    LET q == question[c]
    IN /\ (Has("role") /\ q.action \in DOMAIN policy.roleTable) =>
            Listed(q.payload) \cap policy.roleTable[q.action] # {}
       /\ (Has("type") /\ q.resource # NoResource) => q.resource[1] \in policy.permitted
       /\ (Has("action") /\ q.action \in DOMAIN policy.outcomes) =>
            policy.outcomes[q.action] # "deny"

(***************************************************************************)
(* Roles only help, and their spelling does not matter: of two subjects    *)
(* asking the same question, the one whose token lists all the roles of    *)
(* the other's - in another order, twice, padded, among blanks and things  *)
(* that are no strings - is granted whatever the other is, as is the same  *)
(* question about another resource of the same type.                       *)
(***************************************************************************)
RolesOnlyHelp ==
  \A c, d \in Calls :
    ( /\ Concluded(c) /\ Concluded(d) /\ Grants(c)
      /\ question[c].action = question[d].action
      /\ \/ question[c].resource = question[d].resource
         \/ /\ NoResource \notin {question[c].resource, question[d].resource}
            /\ question[c].resource[1] = question[d].resource[1]
      /\ Listed(question[c].payload) \subseteq Listed(question[d].payload) )
    => Grants(d)

(***************************************************************************)
(* The invariant behind these two: the policy is a configured one, and the *)
(* rules of a call under way answer what their tables say of its question, *)
(* which the bearer of a usable token asked (rules.py 88-246).             *)
(***************************************************************************)
TablesSpeak ==
  /\ policy \in Policies /\ DOMAIN question = Calls
  /\ \A c \in Calls : engine[c] # "idle" =>
       /\ question[c] \in Question
       /\ SubjectFromJwt(question[c].payload) # NoSubject
       /\ \A r \in Rules : verdict[c][r].answer = AnswerOf(policy, r, question[c])

(***************************************************************************)
(* "Omitting an action from all rule tables is not a way to allow it; it   *)
(* is a way to deny it." (docs/policy-model.md line 53): refuted, a        *)
(* ResourceTypePolicyRule allows any action on a permitted type.           *)
(***************************************************************************)
OmittedActionsAreDenied ==
  \A c \in Calls :
    (Grants(c) /\ Has("role")) =>
      question[c].action \in DOMAIN policy.roleTable \cup DOMAIN policy.outcomes
=============================================================================
