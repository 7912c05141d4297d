-------------------- MODULE OperationAwareEnforcementProofs --------------------
(***************************************************************************)
(* Proofs about OperationAwareEnforcement, for any number of calls and an  *)
(* owner who may edit the bundle's list while they run.  The boundary only *)
(* adds to what its engine does, so the engine's theorems are the          *)
(* boundary's; AnswerInv says on top of them how each call was answered.   *)
(***************************************************************************)
EXTENDS OperationAwareEnforcement, OperationAwareEngineProofs

LEMMA BoundaryStepIsAnEngineStep ==
  ASSUME [Next]_vars
  PROVE  [EngineNext]_engineVars
<1>1. CASE OwnerStep
  BY <1>1 DEF OwnerStep, EngineNext
<1>2. CASE \E c \in Calls : CallStep(c)
  <2>1. PICK c \in Calls : CallStep(c)
    BY <1>2
  <2>2. CASE RunEngine(c)
    BY <2>2 DEF RunEngine, EngineNext
  <2>3. CASE ~RunEngine(c)
    BY <2>1, <2>3 DEF CallStep, EngineRaised, AssembleResponse, AssembleEvidence,
                      InternalErrorResult
  <2> QED BY <2>2, <2>3
<1>3. CASE \E c \in Calls : CallerStep(c)
  BY <1>3 DEF CallerStep, Call, EngineNext
<1>4. CASE UNCHANGED vars
  BY <1>4 DEF vars
<1> QED BY <1>1, <1>2, <1>3, <1>4 DEF Next

(***************************************************************************)
(* The boundary runs the engine and never touches its state, so what holds *)
(* of the engine holds of every call through the boundary                  *)
(* (enforcement/operation_aware.py 262-321).                               *)
(***************************************************************************)
THEOREM BoundaryRunsTheEngine == Spec => EngineSpec
<1>1. Init => EngineInit
  BY DEF Init
<1>2. [Next]_vars => [EngineNext]_engineVars
  BY BoundaryStepIsAnEngineStep
<1> QED BY <1>1, <1>2, PTL DEF Spec, EngineSpec
-----------------------------------------------------------------------------
\* The matched rule ids are those of the positions, each once.
LEMMA RuleIdsAtPositions ==
  ASSUME NEW t, NEW n \in Nat, NEW positions \in SUBSET (1 .. n)
  PROVE  LET ids == RuleIdsAt(t, positions)
             id(p) == t.rule_evidence[p].rule_id
         IN /\ \A k \in DOMAIN ids : \E p \in positions : ids[k] = id(p)
            /\ \A p \in positions : \E k \in DOMAIN ids : ids[k] = id(p)
            /\ (\A p, q \in positions : id(p) = id(q) => p = q) => Distinct(ids, LAMBDA x : x)
<1> DEFINE before == {p \in positions \X positions : p[1] < p[2]}
           ids == RuleIdsAt(t, positions)
           id(p) == t.rule_evidence[p].rule_id
           pos(k) == Nth(positions, before, k)
           m == Cardinality(positions)
<1>1. IsFiniteSet(positions) /\ \A p \in positions : p \in Int
  <2>1. IsFiniteSet(1 .. n)
    BY FS_Interval
  <2>2. IsFiniteSet(positions)
    BY <2>1, FS_Subset
  <2> QED BY <2>2
<1>2. IsStrictTotalOrder(before, positions)
  BY <1>1 DEF IsStrictTotalOrder
<1>3. DOMAIN ids = 1 .. m /\ \A k \in 1 .. m : ids[k] = id(pos(k))
  BY DEF RuleIdsAt
<1> HIDE DEF before
<1>4. /\ \A k \in 1 .. m : pos(k) \in positions
      /\ \A p \in positions : \E k \in 1 .. m : pos(k) = p
      /\ \A k, l \in 1 .. m : pos(k) = pos(l) => k = l
  <2>1. /\ \A k \in 1 .. m : Nth(positions, before, k) \in positions
        /\ \A p \in positions : \E k \in 1 .. m : Nth(positions, before, k) = p
        /\ \A k, l \in 1 .. m : Nth(positions, before, k) = Nth(positions, before, l) => k = l
    BY <1>1, <1>2, NthLists
  <2> QED BY <2>1
<1> HIDE DEF ids, id, pos, m
<1>5. \A k \in DOMAIN ids : \E p \in positions : ids[k] = id(p)
  BY <1>3, <1>4
<1>6. ASSUME NEW p \in positions PROVE \E k \in DOMAIN ids : ids[k] = id(p)
  <2>1. PICK k \in 1 .. m : pos(k) = p
    BY <1>4
  <2> QED BY <1>3, <2>1
<1>7. (\A p, q \in positions : id(p) = id(q) => p = q) => Distinct(ids, LAMBDA x : x)
  BY <1>3, <1>4 DEF Distinct
<1> QED BY <1>5, <1>6, <1>7 DEF ids, id

\* The rule evidence of a trace is a sequence without a rule_id twice.
LEMMA ProducedRuleEvidence ==
  ASSUME EngineInv, NEW c \in Calls, stage[c] = "produced"
  PROVE  /\ \E n \in Nat : DOMAIN trace[c].rule_evidence = 1 .. n
         /\ \A p, q \in DOMAIN trace[c].rule_evidence :
              trace[c].rule_evidence[p].rule_id = trace[c].rule_evidence[q].rule_id => p = q
<1>1. TraceConstructible(trace[c]) /\ (Rejected(c) \/ OutOfScope(c) \/ Concluded(c))
  BY DEF EngineInv, EngineInvOf
<1>2. CASE Rejected(c) \/ OutOfScope(c)
  <2>1. trace[c].rule_evidence = <<>>
    BY <1>2 DEF Rejected, OutOfScope, TraceOf
  <2>2. DOMAIN trace[c].rule_evidence = 1 .. 0
    BY <2>1
  <2> QED BY <2>2
<1>3. CASE Concluded(c)
  <2>1. DOMAIN trace[c].rule_evidence = DOMAIN candidates[c] /\ Selected(c) /\ BundleKept
    BY <1>3, EvaluatedPositions DEF Concluded, TraceOf, EngineInv
  <2>2. Len(candidates[c]) \in Nat /\ DOMAIN candidates[c] = 1 .. Len(candidates[c])
    BY <2>1, CandidatesKnown, SequenceDomain
  <2> QED BY <1>1, <2>1, <2>2 DEF TraceConstructible, Distinct
<1> QED BY <1>1, <1>2, <1>3

\* AuditEvidence refuses a trace's evidence for what the caller passed only.
LEMMA WhatEvidenceNeeds ==
  ASSUME EngineInv, NEW c \in Calls, stage[c] = "produced", NEW id, NEW aware \in BOOLEAN
  PROVE  EvidenceConstructible(EvidenceFrom(trace[c], id), aware) <=> id # Blank /\ aware
<1> DEFINE t == trace[c]
           matched == {i \in DOMAIN t.rule_evidence : t.rule_evidence[i].result = "matched"}
<1>1. TraceConstructible(t)
  BY DEF EngineInv, EngineInvOf
<1>2. Distinct(MatchedRuleIds(t), LAMBDA x : x)
  <2>1. PICK n \in Nat : DOMAIN t.rule_evidence = 1 .. n
    BY ProducedRuleEvidence
  <2>2. matched \in SUBSET (1 .. n)
    BY <2>1
  <2>3. \A p, q \in matched : t.rule_evidence[p].rule_id = t.rule_evidence[q].rule_id => p = q
    BY ProducedRuleEvidence
  <2> HIDE DEF matched
  <2>4. Distinct(RuleIdsAt(t, matched), LAMBDA x : x)
    BY <2>2, <2>3, RuleIdsAtPositions
  <2> QED BY <2>4 DEF MatchedRuleIds, matched
<1> DEFINE e == EvidenceFrom(t, id)
<1>3. /\ e.evidence_id = id /\ e.trace_id = t.trace_id /\ e.status = t.status
      /\ e.outcome = t.outcome /\ e.failure = t.failure /\ e.matched_rule_ids = MatchedRuleIds(t)
  BY DEF EvidenceFrom
<1> HIDE DEF e, t
<1> QED BY <1>1, <1>2, <1>3 DEF EvidenceConstructible, TraceConstructible, e, t

LEMMA ResponsesAreConstructible ==
  ASSUME NEW t, TraceConstructible(t), NEW embed
  PROVE  ResponseConstructible(ResponseOf(t, embed))
BY DEF ResponseConstructible, ResponseOf, TraceConstructible
-----------------------------------------------------------------------------
\* What a call's own story is about.
Untouched(d) ==
  /\ EngineStanding(d) /\ phase'[d] = phase[d] /\ given'[d] = given[d]
  /\ response'[d] = response[d] /\ evidence'[d] = evidence[d] /\ disposition'[d] = disposition[d]

LEMMA UntouchedKeepsCallInvOf ==
  ASSUME NEW d, CallInvOf(d), Untouched(d)
  PROVE  CallInvOf(d)'
<1> USE DEF Untouched, EngineStanding
<1>1. (CannotRecord(d)' <=> CannotRecord(d)) /\ (Assembled(d)' <=> Assembled(d))
  BY DEF CannotRecord, Assembled
<1>2. InternalError(d)' = InternalError(d)
  BY DEF InternalError
<1>3. (Recorded(d)' <=> Recorded(d)) /\ (GaveUp(d)' <=> GaveUp(d))
  BY <1>1, <1>2 DEF Recorded, GaveUp
<1> QED BY <1>1, <1>3 DEF CallInvOf

Answered == OnlyBlankTraceIdRaises /\ \A c \in Calls : CallInvOf(c)

LEMMA OneCallIsAnswered ==
  ASSUME Answered, NEW c \in Calls, \A d \in Calls \ {c} : Untouched(d),
         CallInvOf(c)', phase'[c] = "raised" => traceId'[c] = Blank
  PROVE  Answered'
<1>1. ASSUME NEW d \in Calls
      PROVE  CallInvOf(d)' /\ (phase'[d] = "raised" => traceId'[d] = Blank)
  <2>1. CASE d = c
    BY <2>1
  <2>2. CASE d # c
    BY <2>2, UntouchedKeepsCallInvOf DEF Answered, OnlyBlankTraceIdRaises, Untouched, EngineStanding
  <2> QED BY <2>1, <2>2
<1> QED BY <1>1 DEF Answered, OnlyBlankTraceIdRaises

BoundaryTyped ==
  /\ phase \in [Calls -> {"idle", "returned", "raised"} \cup InFlight]
  /\ given \in [Calls -> Arguments]
  /\ disposition \in [Calls -> {"none", "allow", "deny"}]
  /\ DOMAIN response = Calls /\ DOMAIN evidence = Calls

LEMMA CallKeepsAnswered ==
  ASSUME EngineTypeOK, EngineInv, BoundaryTyped, Answered,
         NEW c \in Calls, NEW r, NEW id, NEW a, Call(c, r, id, a)
  PROVE  Answered'
<1>1. /\ phase'[c] = "evaluating" /\ stage'[c] = "validating" /\ phase[c] = "idle"
      /\ evidence' = evidence /\ disposition' = disposition
      /\ \A d \in Calls \ {c} : Untouched(d)
  BY DEF Call, Enter, EngineTypeOK, BoundaryTyped, Untouched, EngineStanding
<1>2. evidence[c] = NoEvidence /\ disposition[c] = "none"
  BY <1>1 DEF Answered, CallInvOf
<1>3. CallInvOf(c)'
  BY <1>1, <1>2 DEF CallInvOf
<1> QED BY <1>1, <1>3, OneCallIsAnswered

\* What the engine does for one call moves that call, and no other.
LEMMA EngineStepMovesOneCall ==
  ASSUME EngineTypeOK, EngineInv, NEW c \in Calls, EngineStep(c)
  PROVE  stage[c] # "idle" /\ stage'[c] # "idle" /\ \A d \in Calls \ {c} : EngineStanding(d)
<1>1. CASE ValidateBundle(c) \/ BundleApplies(c) \/ SelectCandidates(c)
  BY <1>1 DEF ValidateBundle, BundleApplies, SelectCandidates, EngineTypeOK, EngineStanding
<1>2. CASE \E t : Produces(c, t)
  <2>1. /\ stage[c] # "idle" /\ request' = request /\ traceId' = traceId
        /\ \A d \in Calls \ {c} : candidates'[d] = candidates[d]
    BY DEF EngineStep, ValidateBundle, RejectBundle, BundleApplies, BundleDoesNotApply,
           SelectCandidates, Conclude, EngineTypeOK
  <2> QED BY <1>2, <2>1, ProducesOrRaises DEF EngineStanding
<1>3. CASE Conclude(c) /\ ~\E t : Produces(c, t)
  BY <1>3 DEF Conclude, EngineTypeOK, EngineStanding
<1>4. RejectBundle(c) \/ BundleDoesNotApply(c) => \E t : Produces(c, t)
  BY DEF RejectBundle, BundleDoesNotApply
<1> QED BY <1>1, <1>2, <1>3, <1>4 DEF EngineStep

LEMMA RunEngineKeepsAnswered ==
  ASSUME EngineTypeOK, EngineInv, BoundaryTyped, Answered, NEW c \in Calls, RunEngine(c)
  PROVE  Answered'
<1>1. /\ phase[c] = "evaluating" /\ UNCHANGED boundaryVars /\ stage'[c] # "idle"
      /\ \A d \in Calls \ {c} : EngineStanding(d)
  BY EngineStepMovesOneCall DEF RunEngine
<1>2. \A d \in Calls \ {c} : Untouched(d)
  BY <1>1 DEF Untouched, boundaryVars
<1>3. evidence[c] = NoEvidence /\ disposition[c] = "none"
  BY <1>1 DEF Answered, CallInvOf
<1>4. CallInvOf(c)' /\ phase'[c] # "raised"
  BY <1>1, <1>3 DEF CallInvOf, boundaryVars
<1> QED BY <1>2, <1>4, OneCallIsAnswered

LEMMA EngineRaisedKeepsAnswered ==
  ASSUME EngineTypeOK, EngineInv, BoundaryTyped, Answered, NEW c \in Calls, EngineRaised(c)
  PROVE  Answered'
<1>1. /\ phase[c] = "evaluating" /\ phase'[c] = "failing" /\ stage'[c] = "raised"
      /\ evidence' = evidence /\ disposition' = disposition
      /\ \A d \in Calls \ {c} : Untouched(d)
  BY DEF EngineRaised, BoundaryTyped, Untouched, EngineStanding, engineVars
<1>2. evidence[c] = NoEvidence /\ disposition[c] = "none"
  BY <1>1 DEF Answered, CallInvOf
<1>3. CallInvOf(c)' /\ phase'[c] # "raised"
  BY <1>1, <1>2 DEF CallInvOf, CannotRecord
<1> QED BY <1>1, <1>3, OneCallIsAnswered

LEMMA AssembleResponseKeepsAnswered ==
  ASSUME EngineTypeOK, EngineInv, BoundaryTyped, Answered, NEW c \in Calls, AssembleResponse(c)
  PROVE  Answered'
<1> DEFINE r == ResponseOf(trace[c], given[c].embed)
<1>1. phase[c] = "evaluating" /\ stage[c] = "produced" /\ UNCHANGED engineVars
      /\ given' = given /\ evidence' = evidence /\ disposition' = disposition
  BY DEF AssembleResponse
<1>2. ResponseConstructible(r)
  BY <1>1, ResponsesAreConstructible DEF EngineInv, EngineInvOf
<1>3. response' = [response EXCEPT ![c] = r] /\ phase' = [phase EXCEPT ![c] = "recording"]
  BY <1>2 DEF AssembleResponse
<1>4. r' = r
  BY <1>1 DEF engineVars
<1> HIDE DEF r
<1>5. /\ phase'[c] = "recording" /\ response'[c] = r /\ stage'[c] = "produced"
      /\ \A d \in Calls \ {c} : Untouched(d)
  BY <1>1, <1>3 DEF BoundaryTyped, Untouched, EngineStanding, engineVars
<1>6. evidence[c] = NoEvidence /\ disposition[c] = "none"
  BY <1>1 DEF Answered, CallInvOf
<1>7. Assembled(c)'
  BY <1>4, <1>5 DEF Assembled, r
<1>8. CallInvOf(c)' /\ phase'[c] # "raised"
  BY <1>1, <1>5, <1>6, <1>7 DEF CallInvOf
<1> QED BY <1>5, <1>8, OneCallIsAnswered

LEMMA AssembleEvidenceKeepsAnswered ==
  ASSUME EngineTypeOK, EngineInv, BoundaryTyped, Answered, NEW c \in Calls, AssembleEvidence(c)
  PROVE  Answered'
<1> DEFINE e == EvidenceFrom(trace[c], given[c].evidence_id)
<1>1. /\ phase[c] = "recording" /\ UNCHANGED engineVars
      /\ given' = given /\ response' = response /\ given[c].aware \in BOOLEAN
  BY DEF AssembleEvidence, BoundaryTyped, Arguments
<1>2. Assembled(c) /\ evidence[c] = NoEvidence /\ disposition[c] = "none" /\ stage[c] = "produced"
  BY <1>1 DEF Answered, CallInvOf, Assembled
<1>3. EvidenceConstructible(e, given[c].aware) <=> given[c].evidence_id # Blank /\ given[c].aware
  BY <1>1, <1>2, WhatEvidenceNeeds
<1>4. /\ e' = e /\ (Assembled(c) => Assembled(c)') /\ e.evidence_id = given[c].evidence_id
      /\ DeriveDisposition(response[c])' = DeriveDisposition(response[c])
  BY <1>1 DEF engineVars, Assembled, EvidenceFrom
<1>5. CASE EvidenceConstructible(e, given[c].aware)
  <2>1. /\ phase' = [phase EXCEPT ![c] = "returned"] /\ evidence' = [evidence EXCEPT ![c] = e]
        /\ disposition' = [disposition EXCEPT ![c] = DeriveDisposition(response[c])]
    BY <1>5 DEF AssembleEvidence
  <2> HIDE DEF e
  <2>2. /\ phase'[c] = "returned" /\ evidence'[c] = e /\ stage'[c] = "produced"
        /\ disposition'[c] = DeriveDisposition(response[c])
        /\ \A d \in Calls \ {c} : Untouched(d)
    BY <1>1, <1>2, <2>1 DEF BoundaryTyped, Untouched, EngineStanding, engineVars
  <2>3. Recorded(c)'
    BY <1>1, <1>2, <1>3, <1>4, <1>5, <2>2 DEF Recorded, e
  <2>4. CallInvOf(c)' /\ phase'[c] # "raised"
    BY <2>2, <2>3 DEF CallInvOf
  <2> QED BY <2>2, <2>4, OneCallIsAnswered
<1>6. CASE ~EvidenceConstructible(e, given[c].aware)
  <2>1. /\ phase' = [phase EXCEPT ![c] = "failing"]
        /\ evidence' = evidence /\ disposition' = disposition
    BY <1>6 DEF AssembleEvidence
  <2>2. /\ phase'[c] = "failing" /\ stage'[c] = "produced" /\ \A d \in Calls \ {c} : Untouched(d)
    BY <1>1, <1>2, <2>1 DEF BoundaryTyped, Untouched, EngineStanding, engineVars
  <2>3. CannotRecord(c)'
    BY <1>1, <1>3, <1>6, <2>2 DEF CannotRecord
  <2>4. CallInvOf(c)' /\ phase'[c] # "raised"
    BY <1>2, <2>1, <2>2, <2>3 DEF CallInvOf
  <2> QED BY <2>2, <2>4, OneCallIsAnswered
<1> QED BY <1>5, <1>6

LEMMA InternalErrorResultKeepsAnswered ==
  ASSUME EngineTypeOK, EngineInv, BoundaryTyped, Answered, NEW c \in Calls, InternalErrorResult(c)
  PROVE  Answered'
<1> DEFINE e == InternalError(c)
<1>1. /\ phase[c] = "failing" /\ UNCHANGED engineVars /\ given' = given /\ evidence' = evidence
  BY DEF InternalErrorResult
<1>2. CannotRecord(c) /\ evidence[c] = NoEvidence /\ disposition[c] = "none" /\ stage[c] # "idle"
  BY <1>1 DEF Answered, CallInvOf
<1>3. ResponseConstructible(e) <=> traceId[c] # Blank
  BY DEF ResponseConstructible, InternalError
<1>4. e' = e /\ CannotRecord(c)' /\ stage'[c] = stage[c] /\ traceId' = traceId
  BY <1>1, <1>2 DEF engineVars, InternalError, CannotRecord
<1>5. CASE ResponseConstructible(e)
  <2>1. /\ response' = [response EXCEPT ![c] = e]
        /\ disposition' = [disposition EXCEPT ![c] = "deny"]
        /\ phase' = [phase EXCEPT ![c] = "returned"]
    BY <1>5 DEF InternalErrorResult
  <2> HIDE DEF e
  <2>2. /\ phase'[c] = "returned" /\ response'[c] = e /\ disposition'[c] = "deny"
        /\ \A d \in Calls \ {c} : Untouched(d)
    BY <1>1, <2>1 DEF BoundaryTyped, Untouched, EngineStanding, engineVars
  <2>3. GaveUp(c)'
    BY <1>1, <1>2, <1>3, <1>4, <1>5, <2>2 DEF GaveUp, e
  <2>4. CallInvOf(c)' /\ phase'[c] # "raised"
    BY <1>2, <1>4, <2>2, <2>3 DEF CallInvOf
  <2> QED BY <2>2, <2>4, OneCallIsAnswered
<1>6. CASE ~ResponseConstructible(e)
  <2>1. /\ phase' = [phase EXCEPT ![c] = "raised"]
        /\ response' = response /\ disposition' = disposition
    BY <1>6 DEF InternalErrorResult
  <2>2. phase'[c] = "raised" /\ \A d \in Calls \ {c} : Untouched(d)
    BY <1>1, <2>1 DEF BoundaryTyped, Untouched, EngineStanding, engineVars
  <2>3. CallInvOf(c)' /\ traceId'[c] = Blank
    BY <1>1, <1>2, <1>3, <1>4, <1>6, <2>1, <2>2 DEF CallInvOf
  <2> QED BY <2>2, <2>3, OneCallIsAnswered
<1> QED BY <1>5, <1>6

LEMMA IdleKeepsAnswered ==
  ASSUME Answered, OwnerStep \/ UNCHANGED vars
  PROVE  Answered'
<1>1. \A d \in Calls : Untouched(d)
  BY DEF OwnerStep, EditRules, vars, boundaryVars, engineVars, Untouched, EngineStanding
<1> QED BY <1>1, UntouchedKeepsCallInvOf
        DEF Answered, OnlyBlankTraceIdRaises, Untouched, EngineStanding

LEMMA AnsweredStep ==
  ASSUME EngineTypeOK, EngineInv, BoundaryTyped, Answered, [Next]_vars
  PROVE  Answered'
<1>1. CASE \E c \in Calls : CallStep(c)
  BY <1>1, RunEngineKeepsAnswered, EngineRaisedKeepsAnswered, AssembleResponseKeepsAnswered,
     AssembleEvidenceKeepsAnswered, InternalErrorResultKeepsAnswered DEF CallStep
<1>2. CASE \E c \in Calls : CallerStep(c)
  BY <1>2, CallKeepsAnswered DEF CallerStep
<1>3. CASE OwnerStep \/ UNCHANGED vars
  BY <1>3, IdleKeepsAnswered
<1> QED BY <1>1, <1>2, <1>3 DEF Next

LEMMA BoundaryTypedStep ==
  ASSUME BoundaryTyped, [Next]_vars
  PROVE  BoundaryTyped'
<1> USE DEF BoundaryTyped, InFlight
<1>1. CASE \E c \in Calls : CallStep(c)
  <2>1. PICK c \in Calls : CallStep(c)
    BY <1>1
  <2>2. CASE RunEngine(c)
    BY <2>2 DEF RunEngine, boundaryVars
  <2>3. CASE EngineRaised(c)
    BY <2>3 DEF EngineRaised
  <2>4. CASE AssembleResponse(c)
    BY <2>4 DEF AssembleResponse
  <2>5. CASE AssembleEvidence(c)
    BY <2>5 DEF AssembleEvidence, DeriveDisposition
  <2>6. CASE InternalErrorResult(c)
    BY <2>6 DEF InternalErrorResult
  <2> QED BY <2>1, <2>2, <2>3, <2>4, <2>5, <2>6 DEF CallStep
<1>2. CASE \E c \in Calls : CallerStep(c)
  BY <1>2 DEF CallerStep, Call
<1>3. CASE OwnerStep \/ UNCHANGED vars
  BY <1>3 DEF OwnerStep, vars, boundaryVars
<1> QED BY <1>1, <1>2, <1>3 DEF Next

LEMMA AnsweredInit == Init => BoundaryTyped /\ Answered
<1> SUFFICES ASSUME Init PROVE BoundaryTyped /\ Answered
  OBVIOUS
<1>1. BoundaryTyped
  BY DEF Init, BoundaryTyped, Arguments
<1>2. \A c \in Calls : /\ phase[c] = "idle" /\ stage[c] = "idle"
                       /\ evidence[c] = NoEvidence /\ disposition[c] = "none"
  BY DEF Init, EngineInit
<1> QED BY <1>1, <1>2 DEF Answered, OnlyBlankTraceIdRaises, CallInvOf

(***************************************************************************)
(* How each call was answered, and why, whatever the caller passes and the *)
(* owner of the list does (enforcement/operation_aware.py 262-321).        *)
(***************************************************************************)
THEOREM BoundaryAnswers == Spec => []AnswerInv
<1>1. Init => BoundaryTyped /\ Answered
  BY AnsweredInit
<1>2. EngineTypeOK /\ EngineInv /\ BoundaryTyped /\ Answered /\ [Next]_vars
        => BoundaryTyped' /\ Answered'
  BY AnsweredStep, BoundaryTypedStep
<1>3. EngineInv /\ Answered => AnswerInv
  BY DEF AnswerInv, Answered
<1>4. Spec => [](EngineTypeOK /\ EngineInv)
  BY BoundaryRunsTheEngine, EngineInvariant
<1> QED BY <1>1, <1>2, <1>3, <1>4, PTL DEF Spec

LEMMA AnswersAreTyped ==
  ASSUME AnswerInv, NEW c \in Calls, phase[c] = "returned"
  PROVE  /\ disposition[c] # "none"
         /\ response[c].status \in {"completed", "failed"}
         /\ (response[c].status = "failed") <=> (response[c].outcome = "null")
<1>1. CASE GaveUp(c)
  BY <1>1 DEF GaveUp, InternalError
<1>2. CASE Recorded(c)
  <2>1. stage[c] = "produced" /\ response[c] = ResponseOf(trace[c], given[c].embed)
    BY <1>2 DEF Recorded, Assembled
  <2>2. /\ trace[c].status \in {"completed", "failed"}
        /\ (trace[c].status = "failed") <=> (trace[c].outcome = "null")
    BY <2>1, ProducedTrace DEF AnswerInv, EngineInv, EngineInvOf, TraceConstructible
  <2>3. response[c].status = trace[c].status /\ response[c].outcome = trace[c].outcome
    BY <2>1 DEF ResponseOf
  <2>4. disposition[c] # "none"
    BY <1>2 DEF Recorded, DeriveDisposition
  <2> QED BY <2>2, <2>3, <2>4
<1> QED BY <1>1, <1>2 DEF AnswerInv, CallInvOf

(***************************************************************************)
(* Every variable keeps its type, and no response is given whose status    *)
(* and outcome contradict each other (decisions/operation_aware.py).       *)
(***************************************************************************)
THEOREM BoundaryTypeCorrect == Spec => []TypeOK
<1>1. Init => BoundaryTyped
  BY AnsweredInit
<1>2. BoundaryTyped /\ [Next]_vars => BoundaryTyped'
  BY BoundaryTypedStep
<1>3. EngineTypeOK /\ BoundaryTyped /\ AnswerInv => TypeOK
  BY AnswersAreTyped DEF TypeOK, BoundaryTyped
<1>4. Spec => [](EngineTypeOK /\ EngineInv)
  BY BoundaryRunsTheEngine, EngineInvariant
<1> QED BY <1>1, <1>2, <1>3, <1>4, BoundaryAnswers, PTL DEF Spec
-----------------------------------------------------------------------------
(***************************************************************************)
(* evaluate raises only for a blank trace_id: every other call is answered *)
(* (enforcement/operation_aware.py 293-321).                               *)
(***************************************************************************)
THEOREM RaisesOnlyForABlankTraceId == Spec => []OnlyBlankTraceIdRaises
<1>1. AnswerInv => OnlyBlankTraceIdRaises
  BY DEF AnswerInv
<1> QED BY <1>1, BoundaryAnswers, PTL

LEMMA CausesOfInternalErrors == AnswerInv => InternalErrorHasACause
<1> SUFFICES ASSUME AnswerInv, NEW c \in Calls, phase[c] = "returned", evidence[c] = NoEvidence
             PROVE  \/ given[c].evidence_id = Blank
                    \/ ~given[c].aware
                    \/ OwnerEdits /\ stage[c] = "raised"
  BY DEF InternalErrorHasACause
<1>1. evidence[c].evidence_id = Blank
  BY DEF NoEvidence
<1>2. GaveUp(c)
  BY <1>1 DEF AnswerInv, CallInvOf, Recorded
<1>3. stage[c] = "raised" => OwnerEdits
  BY <1>2 DEF GaveUp, AnswerInv, EngineInv, EngineRaisesForACause, HasCause
<1> QED BY <1>2, <1>3 DEF GaveUp, CannotRecord

(***************************************************************************)
(* The pipeline itself never causes an internal error: a bad evidence_id,  *)
(* a timestamp without a timezone or an edit of the rules does.            *)
(***************************************************************************)
THEOREM InternalErrorsHaveCauses == Spec => []InternalErrorHasACause
BY CausesOfInternalErrors, BoundaryAnswers, PTL

\* The evidence names exactly the rules that held.
LEMMA MatchedRulesAreNamed ==
  ASSUME EngineInv, NEW c \in Calls, Concluded(c), stage[c] = "produced"
  PROVE  LET ids == MatchedRuleIds(trace[c])
         IN {ids[i] : i \in DOMAIN ids}
              = {x.rule_id : x \in {y \in Rules(c) : Holds(y, request[c])}}
<1> DEFINE t == trace[c]
           matched == {i \in DOMAIN t.rule_evidence : t.rule_evidence[i].result = "matched"}
           ids == RuleIdsAt(t, matched)
           rule(k) == candidates[c][k].rule
           held == {x.rule_id : x \in {y \in Rules(c) : Holds(y, request[c])}}
<1>1. t.rule_evidence = EvidenceOf(c) /\ Selected(c) /\ BundleKept
  BY DEF Concluded, TraceOf, EngineInv
<1>2. /\ DOMAIN t.rule_evidence = DOMAIN candidates[c]
      /\ Rules(c) = {rule(k) : k \in DOMAIN candidates[c]}
  BY <1>1, EvaluatedPositions DEF Rules
<1>3. ASSUME NEW k \in DOMAIN candidates[c]
      PROVE  /\ t.rule_evidence[k].rule_id = rule(k).rule_id
             /\ (t.rule_evidence[k].result = "matched") <=> Holds(rule(k), request[c])
  <2> DEFINE own == rule(k)
             e == EvaluateRuleConditions(own, request[c])
  <2>1. /\ t.rule_evidence[k].rule_id = own.rule_id /\ t.rule_evidence[k].result = e.result
    BY <1>1, EvaluatedPositions
  <2>2. IsSequence(own.conditions)
    BY <1>1, CandidatesKnown
  <2> HIDE DEF own, t
  <2>3. (e.result = "matched") <=> Holds(own, request[c])
    BY <2>2, RuleEvaluationMeans
  <2> HIDE DEF e
  <2> QED BY <2>1, <2>3 DEF own
<1> HIDE DEF rule
<1>4. PICK n \in Nat : DOMAIN t.rule_evidence = 1 .. n
  BY ProducedRuleEvidence
<1>5. matched \in SUBSET (1 .. n)
  BY <1>4
<1>6. matched = {k \in DOMAIN candidates[c] : Holds(rule(k), request[c])}
  BY <1>2, <1>3
<1> HIDE DEF matched
<1>7. /\ \A k \in DOMAIN ids : \E p \in matched : ids[k] = t.rule_evidence[p].rule_id
      /\ \A p \in matched : \E k \in DOMAIN ids : ids[k] = t.rule_evidence[p].rule_id
  BY <1>5, RuleIdsAtPositions
<1> HIDE DEF ids, t
<1>8. ASSUME NEW k \in DOMAIN ids PROVE ids[k] \in held
  <2>1. PICK p \in matched : ids[k] = t.rule_evidence[p].rule_id
    BY <1>7
  <2>2. p \in DOMAIN candidates[c] /\ Holds(rule(p), request[c]) /\ rule(p) \in Rules(c)
    BY <1>2, <1>6
  <2> QED BY <1>3, <2>1, <2>2
<1>9. ASSUME NEW x \in Rules(c), Holds(x, request[c])
      PROVE  \E k \in DOMAIN ids : ids[k] = x.rule_id
  <2>1. PICK p \in DOMAIN candidates[c] : x = rule(p)
    BY <1>2
  <2>2. p \in matched
    BY <1>6, <1>9, <2>1
  <2> QED BY <1>3, <1>7, <2>1, <2>2
<1>10. {ids[i] : i \in DOMAIN ids} = held
  <2>1. {ids[i] : i \in DOMAIN ids} \subseteq held
    BY <1>8
  <2>2. held \subseteq {ids[i] : i \in DOMAIN ids}
    BY <1>9
  <2> QED BY <2>1, <2>2
<1> QED BY <1>10 DEF MatchedRuleIds, ids, matched, t

LEMMA OneStory == AnswerInv => ArtifactsAgree
<1> SUFFICES ASSUME AnswerInv, NEW c \in Calls, phase[c] = "returned"
             PROVE  LET r == response[c]
                        e == evidence[c]
                    IN /\ r.request_id = request[c].fields["request_id"] /\ r.trace_id = traceId[c]
                       /\ (e = NoEvidence) <=> (r.failure = "internal_evaluation_error")
                       /\ r.embedded # NoTrace => r.embedded = trace[c]
                       /\ e # NoEvidence =>
                            /\ e.request_id = r.request_id /\ e.trace_id = r.trace_id
                            /\ e.status = r.status /\ e.outcome = r.outcome
                            /\ e.failure = r.failure /\ e.reason = r.reason
                            /\ trace[c].applicability = "applicable" =>
                                 {e.matched_rule_ids[i] : i \in DOMAIN e.matched_rule_ids}
                                   = {x.rule_id : x \in {y \in Rules(c) : Holds(y, request[c])}}
  BY DEF ArtifactsAgree
<1> DEFINE r == response[c]
           e == evidence[c]
           t == trace[c]
<1>1. CASE GaveUp(c)
  <2>1. /\ r.request_id = request[c].fields["request_id"] /\ r.trace_id = traceId[c]
        /\ r.failure = "internal_evaluation_error" /\ r.embedded = NoTrace /\ e = NoEvidence
    BY <1>1 DEF GaveUp, InternalError
  <2> QED BY <2>1
<1>2. CASE Recorded(c)
  <2>1. /\ stage[c] = "produced" /\ r = ResponseOf(t, given[c].embed)
        /\ e = EvidenceFrom(t, given[c].evidence_id) /\ e.evidence_id # Blank
        /\ EngineInv /\ EngineInvOf(c)
    BY <1>2 DEF Recorded, Assembled, AnswerInv, EngineInv
  <2>2. /\ t.trace_id = traceId[c] /\ t.request_id = request[c].fields["request_id"]
        /\ t.failure # "internal_evaluation_error"
        /\ t.applicability = "applicable" => Concluded(c)
    BY <2>1, ProducedTrace
  <2> HIDE DEF t, e, r
  <2>3. /\ r.request_id = t.request_id /\ r.trace_id = t.trace_id /\ r.status = t.status
        /\ r.outcome = t.outcome /\ r.failure = t.failure /\ r.reason = t.reason
        /\ r.embedded # NoTrace => r.embedded = t
    BY <2>1 DEF ResponseOf
  <2>4. /\ e.request_id = t.request_id /\ e.trace_id = t.trace_id /\ e.status = t.status
        /\ e.outcome = t.outcome /\ e.failure = t.failure /\ e.reason = t.reason
        /\ e.matched_rule_ids = MatchedRuleIds(t) /\ e # NoEvidence
    BY <2>1 DEF EvidenceFrom, NoEvidence
  <2>5. t.applicability = "applicable" =>
          {e.matched_rule_ids[i] : i \in DOMAIN e.matched_rule_ids}
            = {x.rule_id : x \in {y \in Rules(c) : Holds(y, request[c])}}
    <3>1. t.applicability = "applicable" =>
            {MatchedRuleIds(t)[i] : i \in DOMAIN MatchedRuleIds(t)}
              = {x.rule_id : x \in {y \in Rules(c) : Holds(y, request[c])}}
      BY <2>1, <2>2, MatchedRulesAreNamed DEF t
    <3> QED BY <2>4, <3>1
  <2> QED BY <2>2, <2>3, <2>4, <2>5 DEF t, e, r
<1> QED BY <1>1, <1>2 DEF AnswerInv, CallInvOf

(***************************************************************************)
(* Response, evidence and embedded trace tell one story, and the evidence  *)
(* names exactly the rules that held (response_assembly.py 286-452).       *)
(***************************************************************************)
THEOREM ArtifactsTellOneStory == Spec => []ArtifactsAgree
BY OneStory, BoundaryAnswers, PTL

LEMMA EarnedAllow == AnswerInv => AllowIsEarned
<1> SUFFICES ASSUME AnswerInv, NEW c \in Calls, disposition[c] = "allow"
             PROVE  /\ Applicable(scope, request[c])
                    /\ \A r, q \in Rules(c) : r.rule_id = q.rule_id => r = q
                    /\ \A r \in Rules(c) : ~Fails(r, request[c]) /\ (r.effect = "deny" => ~Holds(r, request[c]))
                    /\ \E r \in Rules(c) :
                         /\ r.effect = "allow" /\ Holds(r, request[c])
                         /\ \E i \in DOMAIN evidence[c].matched_rule_ids :
                              evidence[c].matched_rule_ids[i] = r.rule_id
  BY DEF AllowIsEarned
<1> DEFINE t == trace[c]
           held(e) == \E x \in Rules(c) : x.effect = e /\ Holds(x, request[c])
           failed == \E x \in Rules(c) : Fails(x, request[c])
           ids == MatchedRuleIds(t)
<1>1. Recorded(c) /\ EngineInv /\ EngineInvOf(c)
  BY DEF AnswerInv, EngineInv, CallInvOf, GaveUp
<1>2. /\ stage[c] = "produced" /\ t.outcome = "allow"
      /\ evidence[c].matched_rule_ids = ids
  BY <1>1 DEF Recorded, Assembled, DeriveDisposition, ResponseOf, EvidenceFrom
<1>3. Concluded(c) /\ TraceConstructible(t)
  <2>1. ~Rejected(c)
    BY <1>2 DEF Rejected, TraceOf, Failed
  <2>2. ~OutOfScope(c)
    BY <1>2 DEF OutOfScope, TraceOf, AggregatePolicyOutcome, Completed
  <2> QED BY <1>1, <1>2, <2>1, <2>2 DEF EngineInvOf
<1>4. ~failed /\ ~held("deny") /\ held("allow")
  <2>1. /\ failed => t.outcome = "null"
        /\ ~failed /\ held("deny") => t.outcome = "deny"
        /\ ~failed /\ ~held("deny") /\ ~held("allow") => t.outcome = "deny"
    BY <1>1, <1>3, ConcludedMeans
  <2> HIDE DEF failed, held, t
  <2> QED BY <1>2, <2>1
<1>5. Applicable(scope, request[c])
  BY <1>3 DEF Concluded
<1>6. \A r, q \in Rules(c) : r.rule_id = q.rule_id => r = q
  <2>1. \A j, k \in DOMAIN candidates[c] :
          candidates[c][j].rule.rule_id = candidates[c][k].rule.rule_id => j = k
    BY <1>3, ConcludedIsConstructible DEF Concluded
  <2> QED BY <2>1 DEF Rules
<1>7. {ids[i] : i \in DOMAIN ids} = {x.rule_id : x \in {y \in Rules(c) : Holds(y, request[c])}}
  BY <1>1, <1>2, <1>3, MatchedRulesAreNamed
<1> HIDE DEF ids
<1>8. PICK x \in Rules(c) : x.effect = "allow" /\ Holds(x, request[c])
  BY <1>4
<1>9. PICK i \in DOMAIN ids : ids[i] = x.rule_id
  BY <1>7, <1>8
<1> QED BY <1>2, <1>4, <1>5, <1>6, <1>8, <1>9

(***************************************************************************)
(* Fail closed: no call is let through but by an allow rule that held, in  *)
(* a bundle where every rule could be evaluated and no deny rule held, and *)
(* with evidence that names that rule; whatever the caller passes and the  *)
(* owner of the list does (enforcement/operation_aware.py 115-128 and      *)
(* 293-320).                                                               *)
(***************************************************************************)
THEOREM EveryAllowIsEarned == Spec => []AllowIsEarned
BY EarnedAllow, BoundaryAnswers, PTL
=============================================================================
