-------------------------- MODULE BuiltinRulesProofs --------------------------
(***************************************************************************)
(* Proofs about BuiltinRules, for every policy, every set of tokens and    *)
(* resources, and any number of rules and of calls at once.                *)
(*                                                                         *)
(* The engine is asked by the rules' tables, so a behaviour of BuiltinRules *)
(* is one of PolicyEngine and what PolicyEngineProofs shows holds of it.   *)
(* With what the tables say (TablesSpeak), deny-overrides then gives the   *)
(* two properties.                                                         *)
(***************************************************************************)
EXTENDS BuiltinRules, PolicyEngineProofs

\* The items of a list are of the list's type.
LEMMA ItemsOfList ==
  ASSUME NEW S, NEW s \in Seq(S), NEW i \in DOMAIN s
  PROVE  s[i] \in S
OBVIOUS

\* The fields of a policy, as the rules read them.
LEMMA PolicyFields ==
  ASSUME NEW p \in Policies
  PROVE  /\ \A r \in Rules : p.chain[r] \in Kinds
         /\ \A a \in DOMAIN p.roleTable : p.roleTable[a] \subseteq Roles
         /\ \A a \in DOMAIN p.outcomes : p.outcomes[a] \in Outcomes
<1>1. p \in Policy
  BY PoliciesAssumption
<1>2. p.chain \in [Rules -> Kinds]
  BY <1>1 DEF Policy
<1>3. PICK A \in SUBSET Actions : p.roleTable \in [A -> SUBSET Roles]
  BY <1>1 DEF Policy
<1>4. PICK B \in SUBSET Actions : p.outcomes \in [B -> Outcomes]
  BY <1>1 DEF Policy
<1> QED BY <1>2, <1>3, <1>4

\* Whatever its tables, a rule of the package gives one of the three outcomes.
LEMMA RulesAnswer ==
  ASSUME policy \in Policies, NEW q, NEW r \in Rules
  PROVE  AnswerOf(policy, r, q) \in Outcomes
<1>1. /\ RoleAnswer(policy.roleTable, q) \in Outcomes
      /\ TypeAnswer(policy.permitted, q) \in Outcomes
  BY DEF RoleAnswer, TypeAnswer, Outcomes
<1>2. ActionAnswer(policy.outcomes, q) \in Outcomes
  BY PolicyFields DEF ActionAnswer, Outcomes
<1>3. policy.chain[r] \in {"role", "type", "action"}
  BY PolicyFields DEF Kinds
<1> QED BY <1>1, <1>2, <1>3 DEF AnswerOf

\* The roles of a subject are those its token lists, whatever else is there.
LEMMA RolesAreListed ==
  ASSUME NEW p \in Payloads, SubjectFromJwt(p) # NoSubject
  PROVE  SubjectFromJwt(p).roles = Listed(p)
<1>1. /\ p.roles \in Seq([kind : {"name", "padded", "blank", "other"}, role : Roles])
      /\ p.shape \in Shapes
  BY PayloadsAssumption DEF PayloadsOver
<1>2. SubjectFromJwt(p).roles = NormalizeRoles(RawRoles(p))
  BY DEF SubjectFromJwt
<1>3. \A i \in DOMAIN p.roles : /\ p.roles[i].role \in Roles
                                /\ p.roles[i] = Item(p.roles[i].kind, p.roles[i].role)
  <2> SUFFICES ASSUME NEW i \in DOMAIN p.roles
               PROVE  /\ p.roles[i].role \in Roles
                      /\ p.roles[i] = Item(p.roles[i].kind, p.roles[i].role)
    OBVIOUS
  <2>1. p.roles[i] \in [kind : {"name", "padded", "blank", "other"}, role : Roles]
    BY <1>1, ItemsOfList
  <2> QED BY <2>1 DEF Item
<1>4. CASE p.shape # "list"
  BY <1>2, <1>4 DEF NormalizeRoles, RawRoles, Listed
<1>5. CASE p.shape = "list"
  <2>1. Range(p.roles) = {p.roles[i] : i \in DOMAIN p.roles}
    BY DEF Range
  <2>2. ASSUME NEW role \in NormalizeRoles(RawRoles(p))
        PROVE  role \in Listed(p)
    <3>1. PICK item \in Range(p.roles) : item.kind \in {"name", "padded"} /\ item.role = role
      BY <2>2, <1>5 DEF NormalizeRoles, RawRoles
    <3>2. PICK i \in DOMAIN p.roles : p.roles[i] = item
      BY <3>1, <2>1
    <3> QED BY <3>1, <3>2, <1>3, <1>5 DEF Listed
  <2>3. ASSUME NEW role \in Listed(p)
        PROVE  role \in NormalizeRoles(RawRoles(p))
    <3>1. PICK i \in DOMAIN p.roles : p.roles[i] \in {Item("name", role), Item("padded", role)}
      BY <2>3 DEF Listed
    <3>2. p.roles[i] \in Range(p.roles) /\ p.roles[i].role = role
          /\ p.roles[i].kind \in {"name", "padded"}
      BY <3>1, <2>1 DEF Item
    <3>3. p.roles[i] \in RawRoles(p)
      BY <3>2, <1>5 DEF RawRoles
    <3> QED BY <3>2, <3>3 DEF NormalizeRoles
  <2> QED BY <1>2, <2>2, <2>3
<1> QED BY <1>4, <1>5
-----------------------------------------------------------------------------
(***************************************************************************)
(* The engine is used as PolicyEngine says: a behaviour of the rules'      *)
(* system is a behaviour of the engine (engine.py 243-368).                *)
(***************************************************************************)
LEMMA AskingIsEvaluating ==
  ASSUME policy \in Policies, NEW c \in Calls, NEW q \in Question, AskPolicy(c, q)
  PROVE  \E v \in [Rules -> Verdicts] : Evaluate(c, v)
<1> DEFINE v == [r \in Rules |-> [answer |-> AnswerOf(policy, r, q), text |-> "ok"]]
<1>1. v \in [Rules -> BuiltinVerdicts]
  BY RulesAnswer DEF BuiltinVerdicts
<1>2. v \in [Rules -> Verdicts]
  BY <1>1, BuiltinVerdictsAssumption
<1> QED BY <1>2 DEF AskPolicy

LEMMA PolicyIsKept == Spec => [](policy \in Policies)
<1>1. Init => policy \in Policies
  BY DEF Init
<1>2. policy \in Policies /\ [Next]_vars => (policy \in Policies)'
  BY DEF Next, vars, AskPolicy, Step
<1> QED BY <1>1, <1>2, PTL DEF Spec

THEOREM RulesRunTheEngine == Spec => EngineSpec
<1>1. Init => EngineInit
  BY DEF Init
<1>2. policy \in Policies /\ [Next]_vars => [EngineNext]_engineVars
  <2> SUFFICES ASSUME policy \in Policies, [Next]_vars
               PROVE  [EngineNext]_engineVars
    OBVIOUS
  <2>1. CASE UNCHANGED vars
    BY <2>1 DEF vars
  <2>2. ASSUME NEW c \in Calls, NEW q \in Question, AskPolicy(c, q)
        PROVE  EngineNext
    BY <2>2, AskingIsEvaluating DEF EngineNext
  <2>3. ASSUME NEW c \in Calls, Step(c)
        PROVE  EngineNext
    BY <2>3 DEF Step, EngineNext
  <2> QED BY <2>1, <2>2, <2>3 DEF Next
<1> QED BY <1>1, <1>2, PolicyIsKept, PTL DEF Spec, EngineSpec
-----------------------------------------------------------------------------
\* A step of one call leaves the others, and its own rules' answers, as they are.
LEMMA StepKeepsTheTables ==
  ASSUME EngineTypeOK, TablesSpeak, NEW c \in Calls, Step(c)
  PROVE  TablesSpeak'
<1>1. verdict' = verdict /\ policy' = policy /\ question' = question /\ engine[c] = "running"
  BY DEF Step, EngineStep, RuleRaises, RuleMalformed, RuleDenies, RuleAllows,
         RuleNotApplicable, ReturnAllow, ReturnNotApplicable, Returns, Reaches
<1>2. \A d \in Calls \ {c} : engine'[d] = engine[d]
  BY OthersUntouched DEF Step, Untouched
<1>3. \A d \in Calls : engine'[d] # "idle" => engine[d] # "idle"
  BY <1>1, <1>2
<1> QED BY <1>1, <1>3 DEF TablesSpeak

\* A call is asked with what the rules' tables say of its question.
LEMMA AskingSpeaksTheTables ==
  ASSUME EngineTypeOK, TablesSpeak, NEW c \in Calls, NEW q \in Question, AskPolicy(c, q)
  PROVE  TablesSpeak'
<1>1. /\ policy' = policy
      /\ question' = [question EXCEPT ![c] = q]
      /\ engine' = [engine EXCEPT ![c] = "running"]
      /\ verdict' = [verdict EXCEPT ![c] =
           [r \in Rules |-> [answer |-> AnswerOf(policy, r, q), text |-> "ok"]]]
      /\ SubjectFromJwt(q.payload) # NoSubject
  BY DEF AskPolicy, Evaluate
<1>2. DOMAIN question = Calls /\ DOMAIN verdict = Calls /\ DOMAIN engine = Calls
  BY DEF TablesSpeak, EngineTypeOK
<1>3. \A r \in Rules : verdict'[c][r].answer = AnswerOf(policy, r, q)
  BY <1>1, <1>2
<1>4. question'[c] = q /\ DOMAIN question' = Calls
  BY <1>1, <1>2
<1>5. \A d \in Calls \ {c} : /\ question'[d] = question[d] /\ engine'[d] = engine[d]
                             /\ verdict'[d] = verdict[d]
  BY <1>1, <1>2
<1>7. ASSUME NEW d \in Calls, engine'[d] # "idle"
      PROVE  /\ question'[d] \in Question
             /\ SubjectFromJwt(question'[d].payload) # NoSubject
             /\ \A r \in Rules :
                  verdict'[d][r].answer = AnswerOf(policy, r, question'[d])
  <2>1. CASE d = c
    BY <2>1, <1>1, <1>3, <1>4
  <2>2. CASE d # c
    BY <2>2, <1>5, <1>7 DEF TablesSpeak
  <2> QED BY <2>1, <2>2
<1> QED BY <1>1, <1>4, <1>7 DEF TablesSpeak

(***************************************************************************)
(* In every reachable state the rules of the calls under way say what      *)
(* their tables hold for the question (rules.py 88-246).                   *)
(***************************************************************************)
THEOREM TablesAlwaysSpeak == Spec => []TablesSpeak
<1>1. Init => TablesSpeak
  BY DEF Init, EngineInit, TablesSpeak
<1>2. EngineTypeOK /\ TablesSpeak /\ [Next]_vars => TablesSpeak'
  <2> SUFFICES ASSUME EngineTypeOK, TablesSpeak, [Next]_vars
               PROVE  TablesSpeak'
    OBVIOUS
  <2>1. CASE UNCHANGED vars
    BY <2>1 DEF vars, engineVars, TablesSpeak
  <2>2. CASE Next
    BY <2>2, StepKeepsTheTables, AskingSpeaksTheTables DEF Next
  <2> QED BY <2>1, <2>2
<1> QED BY <1>1, <1>2, RulesRunTheEngine, EngineTypeCorrect, PTL DEF Spec
-----------------------------------------------------------------------------
\* Under a grant every rule of the chain answers "allow" or has no opinion.
LEMMA GrantedAnswers ==
  ASSUME EngineTypeOK, LoopInv, TablesSpeak, NEW c \in Calls, Grants(c)
  PROVE  /\ question[c] \in Question /\ SubjectFromJwt(question[c].payload) # NoSubject
         /\ \A r \in Rules : AnswerOf(policy, r, question[c]) \in {"allow", "not_applicable"}
         /\ \E r \in Rules : AnswerOf(policy, r, question[c]) = "allow"
<1>1. /\ Answers(c) \subseteq {"allow", "not_applicable"}
      /\ "allow" \in Answers(c)
  BY GrantsUnanimously DEF GrantIsUnanimous
<1>2. engine[c] # "idle"
  BY DEF Grants
<1> QED BY <1>1, <1>2 DEF Answers, TablesSpeak

\* What a role rule requires, in terms of what the token lists.
LEMMA RoleAnswerIsListed ==
  ASSUME policy \in Policies, NEW q \in Question, SubjectFromJwt(q.payload) # NoSubject,
         q.action \in DOMAIN policy.roleTable
  PROVE  RoleAnswer(policy.roleTable, q) = IF Listed(q.payload) \cap policy.roleTable[q.action] # {}
                         THEN "allow" ELSE "deny"
<1>1. q.payload \in Payloads
  BY DEF Question
<1> QED BY <1>1, RolesAreListed DEF RoleAnswer, HasRole

\* The first of the two properties.
LEMMA TablesAreObeyed ==
  ASSUME EngineTypeOK, LoopInv, TablesSpeak
  PROVE  GrantsObeyEveryTable
<1> SUFFICES ASSUME NEW c \in Calls, Grants(c)
             PROVE  LET q == question[c]
                    IN /\ (Has("role") /\ q.action \in DOMAIN policy.roleTable) =>
                            Listed(q.payload) \cap policy.roleTable[q.action] # {}
                       /\ (Has("type") /\ q.resource # NoResource) => q.resource[1] \in policy.permitted
                       /\ (Has("action") /\ q.action \in DOMAIN policy.outcomes) =>
                            policy.outcomes[q.action] # "deny"
  BY DEF GrantsObeyEveryTable
<1> DEFINE q == question[c]
<1>1. /\ q \in Question /\ SubjectFromJwt(q.payload) # NoSubject
      /\ \A r \in Rules : AnswerOf(policy, r, q) # "deny"
      /\ policy \in Policies
  BY GrantedAnswers DEF TablesSpeak
<1> HIDE DEF q
<1>2. (Has("role") /\ q.action \in DOMAIN policy.roleTable) =>
        Listed(q.payload) \cap policy.roleTable[q.action] # {}
  <2> SUFFICES ASSUME Has("role"), q.action \in DOMAIN policy.roleTable
               PROVE  Listed(q.payload) \cap policy.roleTable[q.action] # {}
    OBVIOUS
  <2>1. RoleAnswer(policy.roleTable, q) # "deny"
    BY <1>1 DEF Has, AnswerOf
  <2> QED BY <2>1, <1>1, RoleAnswerIsListed
<1>3. (Has("type") /\ q.resource # NoResource) => q.resource[1] \in policy.permitted
  BY <1>1 DEF Has, AnswerOf, TypeAnswer, TypePrefix
<1>4. (Has("action") /\ q.action \in DOMAIN policy.outcomes) => policy.outcomes[q.action] # "deny"
  BY <1>1 DEF Has, AnswerOf, ActionAnswer
<1> QED BY <1>2, <1>3, <1>4 DEF q

\* A rule that does not stand in the way of q does not stand in the way of a
\* question alike whose bearer lists as many roles, and says the same.
LEMMA AnswersCarryOver ==
  ASSUME policy \in Policies, NEW q \in Question, NEW p \in Question,
         SubjectFromJwt(q.payload) # NoSubject, SubjectFromJwt(p.payload) # NoSubject,
         q.action = p.action, (q.resource = NoResource) <=> (p.resource = NoResource),
         q.resource # NoResource => q.resource[1] = p.resource[1],
         Listed(q.payload) \subseteq Listed(p.payload),
         NEW r \in Rules, AnswerOf(policy, r, q) \in {"allow", "not_applicable"}
  PROVE  AnswerOf(policy, r, p) = AnswerOf(policy, r, q)
<1>1. TypeAnswer(policy.permitted, p) = TypeAnswer(policy.permitted, q)
  BY DEF TypeAnswer, TypePrefix
<1>2. ActionAnswer(policy.outcomes, p) = ActionAnswer(policy.outcomes, q)
  BY DEF ActionAnswer
<1>3. CASE policy.chain[r] = "role"
  <2>1. CASE q.action \notin DOMAIN policy.roleTable
    BY <2>1, <1>3 DEF AnswerOf, RoleAnswer
  <2>2. CASE q.action \in DOMAIN policy.roleTable
    <3>1. RoleAnswer(policy.roleTable, q) = IF Listed(q.payload) \cap policy.roleTable[q.action] # {}
                         THEN "allow" ELSE "deny"
      BY <2>2, RoleAnswerIsListed
    <3>2. RoleAnswer(policy.roleTable, p) = IF Listed(p.payload) \cap policy.roleTable[p.action] # {}
                         THEN "allow" ELSE "deny"
      BY <2>2, RoleAnswerIsListed
    <3>3. AnswerOf(policy, r, q) = RoleAnswer(policy.roleTable, q) /\ AnswerOf(policy, r, p) = RoleAnswer(policy.roleTable, p)
      BY <1>3 DEF AnswerOf
    <3> QED BY <3>1, <3>2, <3>3
  <2> QED BY <2>1, <2>2
<1>4. CASE policy.chain[r] # "role"
  BY <1>1, <1>2, <1>4, PolicyFields DEF AnswerOf, Kinds
<1> QED BY <1>3, <1>4

\* The second.
LEMMA MoreRolesAreNoWorse ==
  ASSUME EngineTypeOK, LoopInv, TablesSpeak
  PROVE  RolesOnlyHelp
<1> SUFFICES ASSUME NEW c \in Calls, NEW d \in Calls,
                    Concluded(c), Concluded(d), Grants(c),
                    question[c].action = question[d].action,
                    \/ question[c].resource = question[d].resource
                    \/ /\ NoResource \notin {question[c].resource, question[d].resource}
                       /\ question[c].resource[1] = question[d].resource[1],
                    Listed(question[c].payload) \subseteq Listed(question[d].payload)
             PROVE  Grants(d)
  BY DEF RolesOnlyHelp
<1> DEFINE q == question[c]
           p == question[d]
<1>1. /\ q \in Question /\ SubjectFromJwt(q.payload) # NoSubject /\ policy \in Policies
      /\ \A r \in Rules : AnswerOf(policy, r, q) \in {"allow", "not_applicable"}
      /\ \E r \in Rules : AnswerOf(policy, r, q) = "allow"
  BY GrantedAnswers DEF TablesSpeak
<1>2. /\ p \in Question /\ SubjectFromJwt(p.payload) # NoSubject
      /\ \A r \in Rules : verdict[d][r].answer = AnswerOf(policy, r, p)
  BY DEF TablesSpeak, Concluded
<1>3. /\ q.action = p.action /\ ((q.resource = NoResource) <=> (p.resource = NoResource))
      /\ q.resource # NoResource => q.resource[1] = p.resource[1]
      /\ Listed(q.payload) \subseteq Listed(p.payload)
  OBVIOUS
<1> HIDE DEF q, p
<1>4. \A r \in Rules : AnswerOf(policy, r, p) = AnswerOf(policy, r, q)
  BY <1>1, <1>2, <1>3, AnswersCarryOver
<1>5. Answers(d) \subseteq {"allow", "not_applicable"} /\ "allow" \in Answers(d)
  BY <1>1, <1>2, <1>4 DEF Answers
<1> QED BY <1>5, UnanimityGrants

(***************************************************************************)
(* In every reachable state, whatever the policy: a grant obeys every      *)
(* table that speaks of the question.                                      *)
(***************************************************************************)
THEOREM EveryTableIsObeyed == Spec => []GrantsObeyEveryTable
BY RulesRunTheEngine, EngineTypeCorrect, EngineLoopInvariant, TablesAlwaysSpeak,
   TablesAreObeyed, PTL

(***************************************************************************)
(* In every reachable state, of two calls alike the one whose bearer lists *)
(* more roles is not refused what the other was granted.                   *)
(***************************************************************************)
THEOREM MoreRolesNeverHurt == Spec => []RolesOnlyHelp
BY RulesRunTheEngine, EngineTypeCorrect, EngineLoopInvariant, TablesAlwaysSpeak,
   MoreRolesAreNoWorse, PTL
=============================================================================
