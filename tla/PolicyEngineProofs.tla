------------------------- MODULE PolicyEngineProofs --------------------------
(***************************************************************************)
(* Proofs about PolicyEngine, for any number of calls, rules and any set   *)
(* of verdicts.  The argument is the loop invariant LoopInv: what the loop *)
(* has passed, what it remembers in first_allow, and what a decision says  *)
(* about the place where the loop was left.                                *)
(***************************************************************************)
EXTENDS PolicyEngine, TLAPS

(***************************************************************************)
(* Type correctness, bottom up: the record appended to the walk is one.    *)
(***************************************************************************)
LEMMA RecordType ==
  ASSUME NEW c \in Calls, EngineTypeOK, position[c] \in Rules,
         NEW o \in Outcomes, NEW t \in EngineTexts
  PROVE  Recorded(c, o, t) \in Seq(Entry)
<1>1. Record(c, o, t) \in Entry
  BY DEF Record, Entry
<1>2. evaluations[c] \in Seq(Entry)
  BY DEF EngineTypeOK
<1> QED BY <1>1, <1>2 DEF Recorded

\* A step that returns a well-typed decision keeps the types.
LEMMA ReturnsType ==
  ASSUME NEW c \in Calls, EngineTypeOK, NEW d \in Decision, Returns(c, d)
  PROVE  EngineTypeOK'
<1>1. d.evaluations \in Seq(Entry)
  BY DEF Decision
<1> QED BY <1>1 DEF EngineTypeOK, Returns

\* What a rule answers has the declared shape.
LEMMA VerdictType ==
  ASSUME NEW c \in Calls, EngineTypeOK, NEW r \in Rules
  PROVE  verdict[c][r] \in AllVerdicts /\ verdict[c][r].text \in Texts
                                       /\ verdict[c][r].text \in EngineTexts
BY DEF EngineTypeOK, AllVerdicts, EngineTexts

\* Every step of the loop keeps the types.
LEMMA EngineStepType ==
  ASSUME NEW c \in Calls, EngineTypeOK, EngineStep(c)
  PROVE  EngineTypeOK'
<1> USE NumRulesAssumption
<1>0. ASSUME position[c] \in Rules
      PROVE  /\ Text(c) \in Texts
             /\ Text(c) \in EngineTexts
             /\ position[c] + 1 \in 1 .. NumRules + 1
             /\ position[c] \in Rules \cup {0}
  BY <1>0, VerdictType DEF Text, Rules
<1>1. CASE RuleRaises(c)
  <2>1. position[c] \in Rules /\ "exception" \in EngineTexts /\ "deny" \in Outcomes
    BY <1>1 DEF RuleRaises, Reaches, EngineTexts, Outcomes
  <2>2. Recorded(c, "deny", "exception") \in Seq(Entry)
    BY <2>1, RecordType
  <2> QED BY <1>1, <2>1, <2>2, <1>0, ReturnsType DEF RuleRaises, Decision
<1>2. CASE RuleMalformed(c)
  BY <1>2 DEF RuleMalformed, EngineTypeOK
<1>3. CASE RuleDenies(c)
  <2>1. position[c] \in Rules /\ "deny" \in Outcomes
    BY <1>3 DEF RuleDenies, Reaches, Outcomes
  <2>2. Recorded(c, "deny", Text(c)) \in Seq(Entry)
    BY <2>1, <1>0, RecordType
  <2> QED BY <1>3, <2>1, <2>2, <1>0, ReturnsType DEF RuleDenies, Decision
<1>4. CASE RuleAllows(c)
  <2>1. position[c] \in Rules /\ "allow" \in Outcomes
    BY <1>4 DEF RuleAllows, Reaches, Outcomes
  <2>2. Recorded(c, "allow", Text(c)) \in Seq(Entry)
    BY <2>1, <1>0, RecordType
  <2> QED BY <1>4, <2>1, <2>2, <1>0 DEF RuleAllows, EngineTypeOK
<1>5. CASE RuleNotApplicable(c)
  <2>1. position[c] \in Rules /\ "not_applicable" \in Outcomes
    BY <1>5 DEF RuleNotApplicable, Reaches, Outcomes
  <2>2. Recorded(c, "not_applicable", Text(c)) \in Seq(Entry)
    BY <2>1, <1>0, RecordType
  <2> QED BY <1>5, <2>1, <2>2, <1>0 DEF RuleNotApplicable, EngineTypeOK
<1>6. CASE ReturnAllow(c)
  <2>1. firstAllow[c] \in Rules /\ evaluations[c] \in Seq(Entry) /\ "allow" \in Outcomes
    BY <1>6 DEF ReturnAllow, EngineTypeOK, Outcomes
  <2>2. verdict[c][firstAllow[c]].text \in EngineTexts
    BY <2>1, VerdictType
  <2> QED BY <1>6, <2>1, <2>2, ReturnsType DEF ReturnAllow, Decision
<1>7. CASE ReturnNotApplicable(c)
  <2>1. evaluations[c] \in Seq(Entry) /\ "not_applicable" \in Outcomes /\ "ok" \in EngineTexts
    BY <1>7 DEF EngineTypeOK, Outcomes, EngineTexts, Texts
  <2> QED BY <1>7, <2>1, ReturnsType DEF ReturnNotApplicable, Decision
<1> QED BY <1>1, <1>2, <1>3, <1>4, <1>5, <1>6, <1>7 DEF EngineStep

\* Entering evaluate keeps the types.
LEMMA EvaluateType ==
  ASSUME NEW c \in Calls, EngineTypeOK, NEW v \in [Rules -> Verdicts], Evaluate(c, v)
  PROVE  EngineTypeOK'
<1>1. v \in [Rules -> AllVerdicts]
  BY VerdictsAssumption
<1> QED BY <1>1 DEF Evaluate, EngineTypeOK

\* The types hold initially.
LEMMA EngineInitType == EngineInit => EngineTypeOK
<1> USE NumRulesAssumption
<1>1. NoVerdict \in [Rules -> AllVerdicts]
  BY DEF NoVerdict, AllVerdicts, Outcomes, Texts
<1>2. NoDecision \in Decision
  BY DEF NoDecision, Decision, Outcomes, EngineTexts, Texts
<1> QED BY <1>1, <1>2 DEF EngineInit, EngineTypeOK

(***************************************************************************)
(* Type correctness of the engine.                                         *)
(***************************************************************************)
THEOREM EngineTypeCorrect == EngineSpec => []EngineTypeOK
<1>1. EngineInit => EngineTypeOK
  BY EngineInitType
<1>2. EngineTypeOK /\ [EngineNext]_engineVars => EngineTypeOK'
  <2> SUFFICES ASSUME EngineTypeOK, [EngineNext]_engineVars
               PROVE  EngineTypeOK'
    OBVIOUS
  <2>1. CASE EngineNext
    BY <2>1, EngineStepType, EvaluateType DEF EngineNext
  <2>2. CASE UNCHANGED engineVars
    BY <2>2 DEF engineVars, EngineTypeOK
  <2> QED BY <2>1, <2>2
<1> QED BY <1>1, <1>2, PTL DEF EngineSpec
-----------------------------------------------------------------------------
(***************************************************************************)
(* The loop invariant.  A step of one call leaves the variables of every   *)
(* other call alone (Untouched), so it is enough to look at the call that  *)
(* moves.                                                                  *)
(***************************************************************************)
Untouched(d) ==
  /\ engine'[d] = engine[d]
  /\ verdict'[d] = verdict[d]
  /\ position'[d] = position[d]
  /\ evaluations'[d] = evaluations[d]
  /\ firstAllow'[d] = firstAllow[d]
  /\ decision'[d] = decision[d]

\* A call that a step does not touch keeps its loop invariant.
LEMMA UntouchedKeepsLoopInv ==
  ASSUME NEW d \in Calls, LoopInvOf(d), Untouched(d)
  PROVE  LoopInvOf(d)'
BY DEF Untouched, LoopInvOf, NothingStopped, FirstAllowRemembered, WalkRecorded,
       ExitExplained, Passed, Stopped, Said, Worded, Reports

\* A step of one call touches no other call.
LEMMA OthersUntouched ==
  ASSUME NEW c \in Calls, NEW d \in Calls, c # d, EngineTypeOK,
         EngineStep(c) \/ \E v \in [Rules -> Verdicts] : Evaluate(c, v)
  PROVE  Untouched(d)
BY DEF EngineTypeOK, EngineStep, Evaluate, RuleRaises, RuleMalformed, RuleDenies, RuleAllows,
       RuleNotApplicable, ReturnAllow, ReturnNotApplicable, Returns, Untouched

\* What one append to the walk does to it.
LEMMA WalkGrows ==
  ASSUME NEW c \in Calls, EngineTypeOK, WalkRecorded(c), position[c] \in Rules,
         engine[c] = "running", NEW o \in Outcomes, NEW t \in EngineTexts,
         o = Said(c, position[c]), t = Worded(c, position[c])
  PROVE  /\ Len(Recorded(c, o, t)) = position[c]
         /\ \A i \in 1 .. position[c] :
              Reports(c, i, Recorded(c, o, t)[i])
<1> USE NumRulesAssumption
<1>1. /\ evaluations[c] \in Seq(Entry)
      /\ Len(evaluations[c]) = position[c] - 1
      /\ position[c] \in Nat
  BY DEF EngineTypeOK, WalkRecorded, Stopped, Rules
<1>2. Len(Recorded(c, o, t)) = position[c]
  BY <1>1 DEF Recorded
<1>3. ASSUME NEW i \in 1 .. position[c]
      PROVE  Reports(c, i, Recorded(c, o, t)[i])
  <2>1. CASE i = position[c]
    <3>1. Recorded(c, o, t)[i] = Record(c, o, t)
      BY <1>1, <2>1 DEF Recorded
    <3> QED BY <3>1, <2>1 DEF Record, Reports
  <2>2. CASE i # position[c]
    <3>1. i \in 1 .. Len(evaluations[c]) /\ Recorded(c, o, t)[i] = evaluations[c][i]
      BY <1>1, <2>2 DEF Recorded
    <3> QED BY <3>1 DEF WalkRecorded
  <2> QED BY <2>1, <2>2
<1> QED BY <1>2, <1>3

\* A step of a call keeps its own loop invariant.
LEMMA LoopInvStep ==
  ASSUME NEW c \in Calls, EngineTypeOK, LoopInvOf(c), EngineStep(c)
  PROVE  LoopInvOf(c)'
<1> USE NumRulesAssumption
<1>0. /\ engine \in [Calls -> {"idle", "running", "returned", "escaped"}]
      /\ position \in [Calls -> 1 .. NumRules + 1]
      /\ firstAllow \in [Calls -> Rules \cup {0}]
      /\ evaluations \in [Calls -> Seq(Entry)]
      /\ decision \in [Calls -> Decision]
      /\ position[c] \in Nat
  BY DEF EngineTypeOK
<1>1. ASSUME position[c] \in Rules
      PROVE  Text(c) \in EngineTexts
  BY <1>1, VerdictType DEF Text
<1>2. {"deny", "allow", "not_applicable"} \subseteq Outcomes /\ "exception" \in EngineTexts
  BY DEF Outcomes, EngineTexts
<1>3. CASE RuleRaises(c)
  <2> DEFINE walk == Recorded(c, "deny", "exception")
  <2>1. /\ position[c] \in Rules /\ engine[c] = "running"
        /\ verdict[c][position[c]].answer = "raises"
        /\ Said(c, position[c]) = "deny" /\ Worded(c, position[c]) = "exception"
    BY <1>3 DEF RuleRaises, Reaches, Said, Worded
  <2>2. /\ Len(walk) = position[c]
        /\ \A i \in 1 .. position[c] : Reports(c, i, walk[i])
    BY <2>1, <1>2, WalkGrows DEF LoopInvOf
  <2> HIDE DEF walk
  <2>3. /\ engine'[c] = "returned" /\ verdict' = verdict /\ position' = position
        /\ firstAllow' = firstAllow /\ evaluations'[c] = walk
        /\ decision'[c].outcome = "deny" /\ decision'[c].rule = position[c]
        /\ decision'[c].evaluations = walk /\ decision'[c].isError = TRUE
    BY <1>3, <1>0 DEF RuleRaises, Returns, walk
  <2>4. NothingStopped(c)' /\ FirstAllowRemembered(c)'
    BY <2>3 DEF LoopInvOf, NothingStopped, FirstAllowRemembered, Passed
  <2>5. WalkRecorded(c)'
    BY <2>2, <2>3 DEF WalkRecorded, Stopped, Said, Worded, Reports
  <2>6. ExitExplained(c)'
    BY <2>1, <2>3 DEF ExitExplained
  <2> QED BY <2>4, <2>5, <2>6 DEF LoopInvOf
<1>4. CASE RuleMalformed(c)
  <2>1. /\ engine'[c] = "escaped" /\ engine[c] = "running"
        /\ position[c] \in Rules /\ verdict[c][position[c]].answer = "malformed"
        /\ verdict' = verdict /\ position' = position /\ firstAllow' = firstAllow
        /\ evaluations' = evaluations /\ decision' = decision
    BY <1>4, <1>0 DEF RuleMalformed, Reaches
  <2> QED BY <2>1 DEF LoopInvOf, NothingStopped, FirstAllowRemembered, WalkRecorded,
                      ExitExplained, Passed, Stopped, Said, Worded, Reports
<1>5. CASE RuleDenies(c)
  <2> DEFINE walk == Recorded(c, "deny", Text(c))
  <2>1. /\ position[c] \in Rules /\ engine[c] = "running"
        /\ verdict[c][position[c]].answer = "deny"
        /\ Said(c, position[c]) = "deny" /\ Worded(c, position[c]) = Text(c)
    BY <1>5 DEF RuleDenies, Reaches, Said, Worded, Text
  <2>2. /\ Len(walk) = position[c]
        /\ \A i \in 1 .. position[c] : Reports(c, i, walk[i])
    BY <2>1, <1>1, <1>2, WalkGrows DEF LoopInvOf
  <2> HIDE DEF walk
  <2>3. /\ engine'[c] = "returned" /\ verdict' = verdict /\ position' = position
        /\ firstAllow' = firstAllow /\ evaluations'[c] = walk
        /\ decision'[c].outcome = "deny" /\ decision'[c].rule = position[c]
        /\ decision'[c].evaluations = walk /\ decision'[c].isError = FALSE
    BY <1>5, <1>0 DEF RuleDenies, Returns, walk
  <2>4. NothingStopped(c)' /\ FirstAllowRemembered(c)'
    BY <2>3 DEF LoopInvOf, NothingStopped, FirstAllowRemembered, Passed
  <2>5. WalkRecorded(c)'
    BY <2>2, <2>3 DEF WalkRecorded, Stopped, Said, Worded, Reports
  <2>6. ExitExplained(c)'
    BY <2>1, <2>3 DEF ExitExplained
  <2> QED BY <2>4, <2>5, <2>6 DEF LoopInvOf
<1>6. CASE RuleAllows(c)
  <2> DEFINE walk == Recorded(c, "allow", Text(c))
  <2>1. /\ position[c] \in Rules /\ engine[c] = "running"
        /\ verdict[c][position[c]].answer = "allow"
        /\ Said(c, position[c]) = "allow" /\ Worded(c, position[c]) = Text(c)
    BY <1>6 DEF RuleAllows, Reaches, Said, Worded, Text
  <2>2. /\ Len(walk) = position[c]
        /\ \A i \in 1 .. position[c] : Reports(c, i, walk[i])
    BY <2>1, <1>1, <1>2, WalkGrows DEF LoopInvOf
  <2> HIDE DEF walk
  <2>3. /\ engine' = engine /\ verdict' = verdict /\ position'[c] = position[c] + 1
        /\ firstAllow'[c] = (IF firstAllow[c] = 0 THEN position[c] ELSE firstAllow[c])
        /\ evaluations'[c] = walk /\ decision' = decision
    BY <1>6, <1>0 DEF RuleAllows, walk
  <2>4. NothingStopped(c)'
    BY <2>1, <2>3, <1>0 DEF LoopInvOf, NothingStopped, Passed
  <2>5. FirstAllowRemembered(c)'
    <3>1. CASE firstAllow[c] = 0
      <4>1. firstAllow'[c] = position[c] /\ position[c] \in Passed(c)' /\ position[c] # 0
        BY <3>1, <2>1, <2>3, <1>0 DEF Passed, Rules
      <4>2. \A r \in 1 .. position[c] - 1 : verdict[c][r].answer = "not_applicable"
        BY <3>1 DEF LoopInvOf, FirstAllowRemembered, Passed
      <4> QED BY <4>1, <4>2, <2>1, <2>3 DEF FirstAllowRemembered
    <3>2. CASE firstAllow[c] # 0
      BY <3>2, <2>1, <2>3, <1>0 DEF LoopInvOf, FirstAllowRemembered, Passed, Rules
    <3> QED BY <3>1, <3>2
  <2>6. WalkRecorded(c)'
    BY <2>1, <2>2, <2>3, <1>0 DEF WalkRecorded, Stopped, Said, Worded, Reports
  <2>7. ExitExplained(c)'
    BY <2>1, <2>3 DEF ExitExplained
  <2> QED BY <2>4, <2>5, <2>6, <2>7 DEF LoopInvOf
<1>7. CASE RuleNotApplicable(c)
  <2> DEFINE walk == Recorded(c, "not_applicable", Text(c))
  <2>1. /\ position[c] \in Rules /\ engine[c] = "running"
        /\ verdict[c][position[c]].answer = "not_applicable"
        /\ Said(c, position[c]) = "not_applicable" /\ Worded(c, position[c]) = Text(c)
    BY <1>7 DEF RuleNotApplicable, Reaches, Said, Worded, Text
  <2>2. /\ Len(walk) = position[c]
        /\ \A i \in 1 .. position[c] : Reports(c, i, walk[i])
    BY <2>1, <1>1, <1>2, WalkGrows DEF LoopInvOf
  <2> HIDE DEF walk
  <2>3. /\ engine' = engine /\ verdict' = verdict /\ position'[c] = position[c] + 1
        /\ firstAllow' = firstAllow
        /\ evaluations'[c] = walk /\ decision' = decision
    BY <1>7, <1>0 DEF RuleNotApplicable, walk
  <2>4. NothingStopped(c)'
    BY <2>1, <2>3, <1>0 DEF LoopInvOf, NothingStopped, Passed
  <2>5. FirstAllowRemembered(c)'
    BY <2>1, <2>3, <1>0 DEF LoopInvOf, FirstAllowRemembered, Passed, Rules
  <2>6. WalkRecorded(c)'
    BY <2>1, <2>2, <2>3, <1>0 DEF WalkRecorded, Stopped, Said, Worded, Reports
  <2>7. ExitExplained(c)'
    BY <2>1, <2>3 DEF ExitExplained
  <2> QED BY <2>4, <2>5, <2>6, <2>7 DEF LoopInvOf
<1>8. CASE ReturnAllow(c)
  <2>1. /\ engine[c] = "running" /\ position[c] = NumRules + 1 /\ firstAllow[c] # 0
        /\ engine'[c] = "returned" /\ verdict' = verdict /\ position' = position
        /\ firstAllow' = firstAllow /\ evaluations'[c] = evaluations[c]
        /\ decision'[c].outcome = "allow" /\ decision'[c].rule = firstAllow[c]
        /\ decision'[c].evaluations = evaluations[c] /\ decision'[c].isError = FALSE
    BY <1>8, <1>0 DEF ReturnAllow, Returns
  <2> QED BY <2>1 DEF LoopInvOf, NothingStopped, FirstAllowRemembered, WalkRecorded,
                      ExitExplained, Passed, Stopped, Said, Worded, Reports
<1>9. CASE ReturnNotApplicable(c)
  <2>1. /\ engine[c] = "running" /\ position[c] = NumRules + 1 /\ firstAllow[c] = 0
        /\ engine'[c] = "returned" /\ verdict' = verdict /\ position' = position
        /\ firstAllow' = firstAllow /\ evaluations'[c] = evaluations[c]
        /\ decision'[c].outcome = "not_applicable" /\ decision'[c].rule = 0
        /\ decision'[c].evaluations = evaluations[c] /\ decision'[c].isError = FALSE
    BY <1>9, <1>0 DEF ReturnNotApplicable, Returns
  <2> QED BY <2>1 DEF LoopInvOf, NothingStopped, FirstAllowRemembered, WalkRecorded,
                      ExitExplained, Passed, Stopped, Said, Worded, Reports
<1> QED BY <1>3, <1>4, <1>5, <1>6, <1>7, <1>8, <1>9 DEF EngineStep

\* Entering evaluate establishes the loop invariant: nothing is passed yet.
LEMMA LoopInvEvaluate ==
  ASSUME NEW c \in Calls, EngineTypeOK, LoopInvOf(c),
         NEW v \in [Rules -> Verdicts], Evaluate(c, v)
  PROVE  LoopInvOf(c)'
<1>1. /\ engine[c] = "idle" /\ position[c] = 1 /\ firstAllow[c] = 0 /\ Len(evaluations[c]) = 0
  <2>1. engine[c] = "idle" /\ position[c] = 1
    BY DEF Evaluate, LoopInvOf, ExitExplained
  <2>2. Passed(c) = {}
    BY <2>1 DEF Passed
  <2> QED BY <2>1, <2>2 DEF LoopInvOf, FirstAllowRemembered, WalkRecorded, Stopped
<1>2. /\ engine'[c] = "running" /\ position' = position /\ firstAllow' = firstAllow
      /\ evaluations' = evaluations /\ decision' = decision
  BY DEF Evaluate, EngineTypeOK
<1> QED BY <1>1, <1>2 DEF LoopInvOf, NothingStopped, FirstAllowRemembered, WalkRecorded,
                          ExitExplained, Passed, Stopped

\* The loop invariant holds initially.
LEMMA LoopInvInit == EngineInit => LoopInv
<1> SUFFICES ASSUME EngineInit, NEW c \in Calls
             PROVE  LoopInvOf(c)
  BY DEF LoopInv
<1>1. /\ engine[c] = "idle" /\ position[c] = 1 /\ firstAllow[c] = 0
      /\ evaluations[c] = <<>> /\ Len(evaluations[c]) = 0
  BY DEF EngineInit
<1>2. Passed(c) = {}
  BY <1>1 DEF Passed
<1> QED BY <1>1, <1>2 DEF LoopInvOf, NothingStopped, FirstAllowRemembered, WalkRecorded,
                          ExitExplained, Stopped

\* Every step of the engine keeps the loop invariant of every call.
LEMMA LoopInvPreserved ==
  ASSUME EngineTypeOK, LoopInv, [EngineNext]_engineVars
  PROVE  LoopInv'
<1> SUFFICES ASSUME NEW d \in Calls
             PROVE  LoopInvOf(d)'
  BY DEF LoopInv
<1>0. LoopInvOf(d)
  BY DEF LoopInv
<1>1. CASE UNCHANGED engineVars
  BY <1>1, <1>0, UntouchedKeepsLoopInv DEF engineVars, Untouched
<1>2. ASSUME NEW c \in Calls,
             EngineStep(c) \/ \E v \in [Rules -> Verdicts] : Evaluate(c, v)
      PROVE  LoopInvOf(d)'
  <2>1. CASE d = c
    BY <2>1, <1>0, <1>2, LoopInvStep, LoopInvEvaluate
  <2>2. CASE d # c
    BY <2>2, <1>0, <1>2, OthersUntouched, UntouchedKeepsLoopInv
  <2> QED BY <2>1, <2>2
<1> QED BY <1>1, <1>2 DEF EngineNext

(***************************************************************************)
(* The loop invariant holds of every reachable state of the engine.        *)
(***************************************************************************)
THEOREM EngineLoopInvariant == EngineSpec => []LoopInv
<1>1. EngineTypeOK /\ LoopInv /\ [EngineNext]_engineVars => LoopInv'
  BY LoopInvPreserved
<1> QED BY <1>1, LoopInvInit, EngineTypeCorrect, PTL DEF EngineSpec
-----------------------------------------------------------------------------
(***************************************************************************)
(* What the loop invariant says of a decision, one lemma per property.     *)
(***************************************************************************)
LEMMA GrantsUnanimously ==
  ASSUME EngineTypeOK, LoopInv
  PROVE  GrantIsUnanimous
<1> SUFFICES ASSUME NEW c \in Calls, Grants(c)
             PROVE  /\ Answers(c) \subseteq {"allow", "not_applicable"}
                    /\ "allow" \in Answers(c)
  BY DEF GrantIsUnanimous
<1>1. /\ position[c] = NumRules + 1 /\ firstAllow[c] # 0
      /\ NothingStopped(c) /\ FirstAllowRemembered(c)
  BY DEF LoopInv, LoopInvOf, ExitExplained, Grants
<1>2. Passed(c) = Rules
  BY <1>1, NumRulesAssumption DEF Passed, Rules
<1> QED BY <1>1, <1>2 DEF NothingStopped, FirstAllowRemembered, Answers

\* The converse: a call that ended, was not stopped and has a rule that allows
\* was granted.
LEMMA UnanimityGrants ==
  ASSUME EngineTypeOK, LoopInv, NEW c \in Calls, Concluded(c),
         Answers(c) \subseteq {"allow", "not_applicable"}, "allow" \in Answers(c)
  PROVE  Grants(c)
<1>1. \A r \in Rules : verdict[c][r].answer \in {"allow", "not_applicable"}
  BY DEF Answers
<1>2. /\ engine[c] = "returned" /\ decision[c].outcome # "deny"
      /\ position[c] = NumRules + 1
      /\ (firstAllow[c] # 0) <=> (decision[c].outcome = "allow")
      /\ FirstAllowRemembered(c)
  BY <1>1 DEF LoopInv, LoopInvOf, ExitExplained, Concluded
<1>3. Passed(c) = Rules
  BY <1>2, NumRulesAssumption DEF Passed, Rules
<1>4. firstAllow[c] # 0
  BY <1>2, <1>3 DEF FirstAllowRemembered, Answers
<1> QED BY <1>2, <1>4 DEF Grants

\* Equal sets of answers are granted or refused alike.
LEMMA OrderIsIrrelevant ==
  ASSUME EngineTypeOK, LoopInv
  PROVE  OrderCannotGrant
BY GrantsUnanimously, UnanimityGrants DEF GrantIsUnanimous, OrderCannotGrant

\* The trace of a returned decision is the walk of the loop.
LEMMA WalkIsTheTrace ==
  ASSUME EngineTypeOK, LoopInv
  PROVE  TraceIsTheWalk
<1> SUFFICES ASSUME NEW c \in Calls, engine[c] = "returned"
             PROVE  LET walk == decision[c].evaluations
                    IN /\ \A i \in 1 .. Len(walk) : Reports(c, i, walk[i])
                       /\ IF decision[c].outcome = "deny"
                            THEN Len(walk) > 0 /\ decision[c].rule = Len(walk)
                            ELSE Len(walk) = NumRules
  BY DEF TraceIsTheWalk
<1>1. WalkRecorded(c) /\ ExitExplained(c)
  BY DEF LoopInv, LoopInvOf
<1> QED BY <1>1, NumRulesAssumption DEF WalkRecorded, ExitExplained, Stopped, Rules

\* A decision is credited to the first rule that justifies it.
LEMMA CreditIsTheFirst ==
  ASSUME EngineTypeOK, LoopInv
  PROVE  CreditIsFirst
<1> SUFFICES ASSUME NEW c \in Calls, engine[c] = "returned"
             PROVE  LET by == decision[c].rule
                        First(A) == by \in Rules /\ verdict[c][by].answer \in A
                                      /\ \A r \in 1 .. by - 1 : verdict[c][r].answer \notin A
                    IN CASE decision[c].outcome = "allow" -> First({"allow"}) /\ ~decision[c].isError
                         [] decision[c].outcome = "deny" ->
                              /\ First({"deny", "raises"})
                              /\ decision[c].isError <=> (verdict[c][by].answer = "raises")
                         [] OTHER -> by = 0 /\ ~decision[c].isError
  BY DEF CreditIsFirst
<1>1. NothingStopped(c) /\ FirstAllowRemembered(c) /\ ExitExplained(c)
  BY DEF LoopInv, LoopInvOf
<1>2. CASE decision[c].outcome = "allow"
  <2>1. /\ decision[c].rule = firstAllow[c] /\ firstAllow[c] # 0 /\ ~decision[c].isError
        /\ position[c] = NumRules + 1
    BY <1>1, <1>2 DEF ExitExplained
  <2>2. firstAllow[c] \in Rules
    BY <2>1, <1>1, NumRulesAssumption DEF FirstAllowRemembered, Passed, Rules
  <2> QED BY <1>1, <1>2, <2>1, <2>2 DEF FirstAllowRemembered
<1>3. CASE decision[c].outcome = "deny"
  <2>1. /\ decision[c].rule = position[c] /\ position[c] \in Rules
        /\ verdict[c][position[c]].answer = IF decision[c].isError THEN "raises" ELSE "deny"
    BY <1>1, <1>3 DEF ExitExplained
  <2>2. \A r \in 1 .. position[c] - 1 : verdict[c][r].answer \notin {"deny", "raises"}
    BY <1>1 DEF NothingStopped, Passed
  <2> QED BY <1>3, <2>1, <2>2
<1>4. CASE decision[c].outcome \notin {"allow", "deny"}
  BY <1>1, <1>4 DEF ExitExplained
<1> QED BY <1>2, <1>3, <1>4

(***************************************************************************)
(* Deny overrides: in every reachable state a granted call was asked of    *)
(* all the rules, none of which denied or misbehaved, and one allowed.     *)
(***************************************************************************)
THEOREM EngineDenyOverrides == EngineSpec => []GrantIsUnanimous
BY EngineTypeCorrect, EngineLoopInvariant, GrantsUnanimously, PTL

\* Order independence: in every reachable state, two calls with the same set of
\* answers are both granted or both refused.
THEOREM EngineOrderCannotGrant == EngineSpec => []OrderCannotGrant
BY EngineTypeCorrect, EngineLoopInvariant, OrderIsIrrelevant, PTL

\* In every reachable state a returned decision carries the exact walk.
THEOREM EngineTraceIsTheWalk == EngineSpec => []TraceIsTheWalk
BY EngineTypeCorrect, EngineLoopInvariant, WalkIsTheTrace, PTL

\* In every reachable state a decision is credited to the first rule that
\* allowed, denied or raised, and is_error tells the last two apart.
THEOREM EngineCreditIsFirst == EngineSpec => []CreditIsFirst
BY EngineTypeCorrect, EngineLoopInvariant, CreditIsTheFirst, PTL
-----------------------------------------------------------------------------
(***************************************************************************)
(* Refinement: every step of the engine is a step of DenyOverrides or      *)
(* leaves the abstract state alone.                                        *)
(***************************************************************************)
\* The refinement mapping yields answers that the abstract engine knows.
LEMMA AnswersAreRuleAnswers ==
  ASSUME EngineTypeOK, NEW c \in Calls
  PROVE  Answers(c) \in SUBSET Abstract!RuleAnswers
BY DEF EngineTypeOK, AllVerdicts, Outcomes, Answers, Abstract!RuleAnswers

\* Initial states map to initial states.
LEMMA InitRefines == EngineInit => Abstract!Init
BY DEF EngineInit, Abstract!Init, AbstractAnswers, AbstractOutcome

\* Entering evaluate is the abstract Ask.
LEMMA EvaluateRefines ==
  ASSUME EngineTypeOK, EngineTypeOK', NEW c \in Calls,
         NEW v \in [Rules -> Verdicts], Evaluate(c, v)
  PROVE  Abstract!Ask(c)
<1>1. /\ engine[c] = "idle" /\ engine' = [engine EXCEPT ![c] = "running"]
      /\ verdict' = [verdict EXCEPT ![c] = v] /\ decision' = decision
      /\ engine \in [Calls -> {"idle", "running", "returned", "escaped"}]
      /\ verdict \in [Calls -> [Rules -> AllVerdicts]]
  BY DEF Evaluate, EngineTypeOK
<1>2. Answers(c)' \in SUBSET Abstract!RuleAnswers
  BY DEF EngineTypeOK, AllVerdicts, Outcomes, Answers, Abstract!RuleAnswers
<1>3. AbstractOutcome[c] = "unasked"
  BY <1>1 DEF AbstractOutcome
<1>4. AbstractOutcome' = [AbstractOutcome EXCEPT ![c] = "pending"]
  BY <1>1 DEF AbstractOutcome
<1>5. AbstractAnswers' = [AbstractAnswers EXCEPT ![c] = Answers(c)']
  BY <1>1 DEF AbstractAnswers, Answers
<1> QED BY <1>2, <1>3, <1>4, <1>5 DEF Abstract!Ask

\* A step that leaves the loop concludes; the others are invisible.
LEMMA StepRefines ==
  ASSUME EngineTypeOK, EngineTypeOK', LoopInv, LoopInv', NEW c \in Calls, EngineStep(c)
  PROVE  Abstract!Conclude(c) \/ UNCHANGED Abstract!abstractVars
<1>1. /\ engine \in [Calls -> {"idle", "running", "returned", "escaped"}]
      /\ decision \in [Calls -> Decision]
      /\ engine' \in [Calls -> {"idle", "running", "returned", "escaped"}]
      /\ decision' \in [Calls -> Decision]
      /\ engine[c] = "running" /\ verdict' = verdict
  BY DEF EngineTypeOK, EngineStep, RuleRaises, RuleMalformed, RuleDenies, RuleAllows,
         RuleNotApplicable, ReturnAllow, ReturnNotApplicable, Returns, Reaches
<1>2. \A d \in Calls \ {c} : engine'[d] = engine[d] /\ decision'[d] = decision[d]
  BY OthersUntouched DEF Untouched
<1>3. AbstractAnswers' = AbstractAnswers
  <2>1. engine'[c] # "idle"
    BY <1>1 DEF EngineStep, RuleRaises, RuleMalformed, RuleDenies, RuleAllows,
                RuleNotApplicable, ReturnAllow, ReturnNotApplicable, Returns
  <2> QED BY <1>1, <1>2, <2>1 DEF AbstractAnswers, Answers
<1>4. CASE engine'[c] = "running"
  <2>1. engine' = engine /\ decision' = decision
    BY <1>1, <1>4 DEF EngineStep, RuleRaises, RuleMalformed, RuleDenies, RuleAllows,
                      RuleNotApplicable, ReturnAllow, ReturnNotApplicable, Returns
  <2>2. AbstractOutcome' = AbstractOutcome
    BY <2>1 DEF AbstractOutcome
  <2> QED BY <1>3, <2>2 DEF Abstract!abstractVars
<1>5. CASE engine'[c] # "running"
  <2> DEFINE o == AbstractOutcome'[c]
  <2>1. AbstractOutcome[c] = "pending" /\ AbstractAnswers[c] = Answers(c)
    BY <1>1 DEF AbstractOutcome, AbstractAnswers
  <2>2. AbstractOutcome' = [AbstractOutcome EXCEPT ![c] = o]
    BY <1>1, <1>2 DEF AbstractOutcome
  <2>3. engine'[c] \in {"returned", "escaped"} /\ Answers(c)' = Answers(c)
    BY <1>1, <1>5 DEF EngineStep, RuleRaises, RuleMalformed, RuleDenies, RuleAllows,
                      RuleNotApplicable, ReturnAllow, ReturnNotApplicable, Returns, Answers
  <2>4. o \in Abstract!Permitted(Answers(c))
    <3>1. ExitExplained(c)' /\ NothingStopped(c)' /\ FirstAllowRemembered(c)'
      BY DEF LoopInv, LoopInvOf
    <3>2. CASE engine'[c] = "escaped"
      BY <3>1, <3>2, <1>1 DEF ExitExplained, AbstractOutcome, Abstract!Permitted,
                         Abstract!Conclusions, Answers
    <3>3. CASE engine'[c] = "returned" /\ decision'[c].outcome = "deny"
      <4>1. /\ position'[c] \in Rules
            /\ verdict[c][position'[c]].answer = IF decision'[c].isError THEN "raises" ELSE "deny"
            /\ o = IF decision'[c].isError THEN "error" ELSE "deny"
        BY <3>1, <3>3, <1>1 DEF ExitExplained, AbstractOutcome
      <4> QED BY <4>1 DEF Abstract!Permitted, Abstract!Conclusions, Answers
    <3>4. CASE engine'[c] = "returned" /\ decision'[c].outcome # "deny"
      <4>1. /\ position'[c] = NumRules + 1
            /\ (firstAllow'[c] # 0) <=> (decision'[c].outcome = "allow")
            /\ o = decision'[c].outcome /\ o \in {"allow", "not_applicable"}
        BY <3>1, <3>4, <1>1 DEF ExitExplained, AbstractOutcome, Decision, Outcomes
      <4>2. Passed(c)' = Rules
        BY <4>1, NumRulesAssumption DEF Passed, Rules
      <4>3. Answers(c) \subseteq {"allow", "not_applicable"}
        BY <3>1, <4>2, <1>1 DEF NothingStopped, Answers
      <4>4. CASE o = "allow"
        <5>1. "allow" \in Answers(c)
          BY <3>1, <4>1, <4>2, <4>4, <1>1 DEF FirstAllowRemembered, Answers
        <5> QED BY <4>3, <4>4, <5>1 DEF Abstract!Permitted, Abstract!Conclusions
      <4>5. CASE o = "not_applicable"
        <5>1. Answers(c) \subseteq {"not_applicable"}
          BY <3>1, <4>1, <4>2, <4>5, <1>1 DEF FirstAllowRemembered, Answers
        <5> QED BY <4>5, <5>1 DEF Abstract!Permitted, Abstract!Conclusions
      <4> QED BY <4>1, <4>4, <4>5
    <3> QED BY <2>3, <3>2, <3>3, <3>4
  <2> QED BY <1>3, <2>1, <2>2, <2>4 DEF Abstract!Conclude
<1> QED BY <1>4, <1>5

(***************************************************************************)
(* The engine implements DenyOverrides.                                    *)
(***************************************************************************)
THEOREM EngineRefinesDenyOverrides == EngineSpec => ImplementsDenyOverrides
<1>1. /\ EngineTypeOK /\ EngineTypeOK' /\ LoopInv /\ LoopInv' /\ [EngineNext]_engineVars
      => [Abstract!Next]_(Abstract!abstractVars)
  <2> SUFFICES ASSUME EngineTypeOK, EngineTypeOK', LoopInv, LoopInv', [EngineNext]_engineVars
               PROVE  [Abstract!Next]_(Abstract!abstractVars)
    OBVIOUS
  <2>1. CASE UNCHANGED engineVars
    BY <2>1 DEF engineVars, Abstract!abstractVars, AbstractAnswers, AbstractOutcome, Answers
  <2>2. CASE EngineNext
    BY <2>2, EvaluateRefines, StepRefines DEF EngineNext, Abstract!Next
  <2> QED BY <2>1, <2>2
<1> QED BY <1>1, InitRefines, EngineTypeCorrect, EngineLoopInvariant, PTL
        DEF EngineSpec, ImplementsDenyOverrides, Abstract!Spec
=============================================================================
