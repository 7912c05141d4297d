---------------------- MODULE OperationAwareEnforcement ----------------------
(***************************************************************************)
(* The operation-aware enforcement boundary                                *)
(* (src/src/basis_core/enforcement/operation_aware.py): run the engine,    *)
(* assemble a decision response and audit evidence from its trace, derive  *)
(* the disposition.  Any exception is answered by an internal error result *)
(* that is built outside the try.  Nothing is written anywhere: the        *)
(* evidence is handed to the caller.                                       *)
(***************************************************************************)
EXTENDS OperationAwareEngine

VARIABLES
  phase,        \* phase[c]: where call c is in the boundary's evaluate
  given,        \* given[c]: the caller's other arguments
  response,     \* response[c]: the OperationAwareDecisionResponse
  evidence,     \* evidence[c]: the AuditEvidence, NoEvidence for None
  disposition   \* disposition[c]: what the caller is told to do

boundaryVars == <<phase, given, response, evidence, disposition>>
vars == <<engineVars, boundaryVars>>

\* evidence_id, recorded_at with or without a timezone, embed_evaluation_trace.
Arguments == [evidence_id : Names \cup {Blank}, aware : BOOLEAN, embed : BOOLEAN]

NoResponse == [request_id |-> Scalar("string", 0), status |-> "failed", outcome |-> "null",
               failure |-> "none", reason |-> "none", trace_id |-> Blank, embedded |-> NoTrace]

NoEvidence == [evidence_id |-> Blank, request_id |-> Scalar("string", 0),
               trace_id |-> Blank, status |-> "failed", outcome |-> "null",
               failure |-> "none", reason |-> "none", matched_rule_ids |-> <<>>]

InFlight == {"evaluating", "responding", "recording", "failing"}

TypeOK ==
  /\ EngineTypeOK
  /\ phase \in [Calls -> {"idle", "returned", "raised"} \cup InFlight]
  /\ given \in [Calls -> Arguments]
  /\ disposition \in [Calls -> {"none", "allow", "deny"}]
  /\ DOMAIN response = Calls /\ DOMAIN evidence = Calls
  /\ \A c \in Calls : phase[c] = "returned" =>
       /\ disposition[c] # "none"
       /\ response[c].status \in {"completed", "failed"}
       /\ (response[c].status = "failed") <=> (response[c].outcome = "null")

Init ==
  /\ EngineInit
  /\ phase = [c \in Calls |-> "idle"]
  /\ given = [c \in Calls |-> [evidence_id |-> Blank, aware |-> FALSE, embed |-> FALSE]]
  /\ response = [c \in Calls |-> NoResponse]
  /\ evidence = [c \in Calls |-> NoEvidence]
  /\ disposition = [c \in Calls |-> "none"]
-----------------------------------------------------------------------------
\* OperationAwareDecisionResponse's validators, with those that compare it to
\* an embedded trace.
ResponseConstructible(r) ==
  /\ r.trace_id # Blank
  /\ (r.status = "failed") <=> (r.outcome = "null")
  /\ (r.status = "failed") <=> (r.failure # "none")
  /\ r.embedded # NoTrace =>
       /\ r.embedded.request_id = r.request_id
       /\ r.embedded.failure = r.failure
       /\ (r.reason # "none" /\ r.embedded.reason # "none") => r.embedded.reason = r.reason

\* AuditEvidence's validators.
EvidenceConstructible(e, aware) ==
  /\ e.evidence_id # Blank
  /\ e.trace_id # Blank
  /\ aware
  /\ Distinct(e.matched_rule_ids, LAMBDA id : id)
  /\ (e.status = "failed") <=> (e.outcome = "null")
  /\ (e.status = "failed") <=> (e.failure # "none")

\* assemble_operation_aware_decision_response.
ResponseOf(t, embed) ==
  [request_id |-> t.request_id, status |-> t.status, outcome |-> t.outcome,
   failure |-> t.failure, reason |-> t.reason, trace_id |-> t.trace_id,
   embedded |-> IF embed THEN t ELSE NoTrace]

\* The rule ids at some positions of a trace, in trace order.
RuleIdsAt(t, positions) ==
  LET before == {p \in positions \X positions : p[1] < p[2]}
  IN [k \in 1 .. Cardinality(positions) |-> t.rule_evidence[Nth(positions, before, k)].rule_id]

\* A plausible bug: the matched rules are those whose effect was the outcome.
MatchedRuleIds_Outcome(t) ==
  RuleIdsAt(t, {i \in DOMAIN t.rule_evidence : /\ t.rule_evidence[i].result = "matched"
                                               /\ t.rule_evidence[i].effect = t.outcome})

\* _project_matched_rule_ids: every rule that matched, also the allow rules
\* that a deny overrode.
MatchedRuleIds(t) ==
  RuleIdsAt(t, {i \in DOMAIN t.rule_evidence : t.rule_evidence[i].result = "matched"})

\* assemble_audit_evidence; _check_identity_agreement holds of a trace made
\* for this very request.
EvidenceFrom(t, id) ==
  [evidence_id |-> id, request_id |-> t.request_id, trace_id |-> t.trace_id,
   status |-> t.status, outcome |-> t.outcome, failure |-> t.failure, reason |-> t.reason,
   matched_rule_ids |-> MatchedRuleIds(t)]

\* A plausible bug: the disposition is the outcome.
DeriveDisposition_Outcome(r) == r.outcome

\* _derive_disposition.
DeriveDisposition(r) ==
  IF r.status = "completed" /\ r.outcome = "allow" THEN "allow" ELSE "deny"
-----------------------------------------------------------------------------
\* evaluate is called.
Call(c, r, id, arguments) ==
  /\ phase[c] = "idle"
  /\ phase' = [phase EXCEPT ![c] = "evaluating"]
  /\ given' = [given EXCEPT ![c] = arguments]
  /\ Enter(c, r, id)
  /\ UNCHANGED <<response, evidence, disposition>>

RunEngine(c) ==
  /\ phase[c] = "evaluating"
  /\ EngineStep(c)
  /\ UNCHANGED boundaryVars

EngineRaised(c) ==
  /\ phase[c] = "evaluating"
  /\ stage[c] = "raised"
  /\ phase' = [phase EXCEPT ![c] = "failing"]
  /\ UNCHANGED <<engineVars, given, response, evidence, disposition>>

\* The engine returned a trace: the response is assembled from it.
AssembleResponse(c) ==
  LET r == ResponseOf(trace[c], given[c].embed)
  IN /\ phase[c] = "evaluating"
     /\ stage[c] = "produced"
     /\ IF ResponseConstructible(r)
          THEN /\ response' = [response EXCEPT ![c] = r]
               /\ phase' = [phase EXCEPT ![c] = "recording"]
          ELSE phase' = [phase EXCEPT ![c] = "failing"] /\ UNCHANGED response
     /\ UNCHANGED <<engineVars, given, evidence, disposition>>

\* A plausible bug: evidence that cannot be built is left out.
AssembleEvidence_Optional(c) ==
  LET e == EvidenceFrom(trace[c], given[c].evidence_id)
  IN /\ phase[c] = "recording"
     /\ phase' = [phase EXCEPT ![c] = "returned"]
     /\ evidence' = IF EvidenceConstructible(e, given[c].aware)
                      THEN [evidence EXCEPT ![c] = e] ELSE evidence
     /\ disposition' = [disposition EXCEPT ![c] = DeriveDisposition(response[c])]
     /\ UNCHANGED <<engineVars, given, response>>

\* The evidence is assembled, the disposition derived from the response, and
\* all three are returned; a bad evidence_id or recorded_at loses them.
AssembleEvidence(c) ==
  LET e == EvidenceFrom(trace[c], given[c].evidence_id)
  IN /\ phase[c] = "recording"
     /\ IF EvidenceConstructible(e, given[c].aware)
          THEN /\ phase' = [phase EXCEPT ![c] = "returned"]
               /\ evidence' = [evidence EXCEPT ![c] = e]
               /\ disposition' = [disposition EXCEPT ![c] = DeriveDisposition(response[c])]
          ELSE /\ phase' = [phase EXCEPT ![c] = "failing"]
               /\ UNCHANGED <<evidence, disposition>>
     /\ UNCHANGED <<engineVars, given, response>>

\* A plausible bug: the internal error says deny as well.
InternalError_Denies(c) ==
  [request_id |-> request[c].fields["request_id"], status |-> "failed", outcome |-> "deny",
   failure |-> "internal_evaluation_error", reason |-> "none", trace_id |-> traceId[c],
   embedded |-> NoTrace]

InternalError(c) ==
  [request_id |-> request[c].fields["request_id"], status |-> "failed", outcome |-> "null",
   failure |-> "internal_evaluation_error", reason |-> "none", trace_id |-> traceId[c],
   embedded |-> NoTrace]

\* A plausible bug: the handler runs the pipeline once more.
InternalErrorResult_Retries(c) ==
  /\ phase[c] = "failing"
  /\ phase' = [phase EXCEPT ![c] = "evaluating"]
  /\ UNCHANGED <<engineVars, given, response, evidence, disposition>>

\* _internal_error_result, in the except block: a response of its own, no
\* evidence, deny.  It quotes the caller's trace_id, so a blank one makes the
\* handler itself raise.
InternalErrorResult(c) ==
  /\ phase[c] = "failing"
  /\ IF ResponseConstructible(InternalError(c))
       THEN /\ response' = [response EXCEPT ![c] = InternalError(c)]
            /\ disposition' = [disposition EXCEPT ![c] = "deny"]
            /\ phase' = [phase EXCEPT ![c] = "returned"]
       ELSE /\ phase' = [phase EXCEPT ![c] = "raised"]
            /\ UNCHANGED <<response, disposition>>
  /\ UNCHANGED <<engineVars, given, evidence>>

CallStep(c) ==
  \/ RunEngine(c)
  \/ EngineRaised(c)
  \/ AssembleResponse(c)
  \/ AssembleEvidence(c)
  \/ InternalErrorResult(c)

CallerStep(c) ==
  \E r \in Requests, id \in Names \cup {Blank}, a \in Arguments : Call(c, r, id, a)

OwnerStep ==
  /\ OwnerEdits
  /\ \E list \in RuleLists : EditRules(list)
  /\ UNCHANGED boundaryVars

Next == OwnerStep \/ \E c \in Calls : CallStep(c) \/ CallerStep(c)

Spec == Init /\ [][Next]_vars

\* A call runs on its caller's thread and waits for nothing.
FairSpec == Spec /\ \A c \in Calls : WF_vars(CallStep(c))
-----------------------------------------------------------------------------
(***************************************************************************)
(* Fail closed: a call is let through only if the bundle was valid and in  *)
(* scope, every rule could be evaluated, no deny rule held, and an allow   *)
(* rule held, and only with audit evidence that names that rule; no error  *)
(* path and no edit of the bundle under way lets a call through            *)
(* (enforcement/operation_aware.py 115-128 and 293-320).                   *)
(***************************************************************************)
AllowIsEarned ==
  \A c \in Calls : disposition[c] = "allow" =>
    /\ Applicable(scope, request[c])
    /\ \A r, q \in Rules(c) : r.rule_id = q.rule_id => r = q
    /\ \A r \in Rules(c) : ~Fails(r, request[c]) /\ (r.effect = "deny" => ~Holds(r, request[c]))
    /\ \E r \in Rules(c) :
         /\ r.effect = "allow" /\ Holds(r, request[c])
         /\ \E i \in DOMAIN evidence[c].matched_rule_ids :
              evidence[c].matched_rule_ids[i] = r.rule_id

(***************************************************************************)
(* The three artifacts tell one story: response and evidence agree in      *)
(* status, outcome, failure, reason, request and trace; the evidence lists *)
(* exactly the rules that held; an embedded trace is the engine's; and     *)
(* evidence is missing exactly when the answer is an internal error        *)
(* (response_assembly.py 286-452).                                         *)
(***************************************************************************)
ArtifactsAgree ==
  \A c \in Calls : phase[c] = "returned" =>
    LET r == response[c]
        e == evidence[c]
    IN /\ r.request_id = request[c].fields["request_id"] /\ r.trace_id = traceId[c]
       /\ (e = NoEvidence) <=> (r.failure = "internal_evaluation_error")
       /\ r.embedded # NoTrace => r.embedded = trace[c]
       /\ e # NoEvidence =>
            /\ e.request_id = r.request_id /\ e.trace_id = r.trace_id
            /\ e.status = r.status /\ e.outcome = r.outcome
            /\ e.failure = r.failure /\ e.reason = r.reason
            /\ trace[c].applicability = "applicable" =>
                 {e.matched_rule_ids[i] : i \in DOMAIN e.matched_rule_ids}
                   = {x.rule_id : x \in {y \in Rules(c) : Holds(y, request[c])}}

(***************************************************************************)
(* evaluate raises only for a blank trace_id: whatever the evidence_id,    *)
(* the timestamp, the policy or an edit of it, a call with a trace_id is   *)
(* answered (enforcement/operation_aware.py 293-321).                      *)
(***************************************************************************)
OnlyBlankTraceIdRaises == \A c \in Calls : phase[c] = "raised" => traceId[c] = Blank

(***************************************************************************)
(* An internal error has a cause outside the pipeline: a bad evidence_id,  *)
(* a timestamp without a timezone, or rules edited during the call.        *)
(***************************************************************************)
InternalErrorHasACause ==
  \A c \in Calls : (phase[c] = "returned" /\ evidence[c] = NoEvidence) =>
    \/ given[c].evidence_id = Blank
    \/ ~given[c].aware
    \/ OwnerEdits /\ stage[c] = "raised"

\* Evidence or the timestamp cannot be built, or the engine raised.
CannotRecord(c) ==
  stage[c] = "raised" \/ (stage[c] = "produced" /\ (given[c].evidence_id = Blank \/ ~given[c].aware))

Assembled(c) == stage[c] = "produced" /\ response[c] = ResponseOf(trace[c], given[c].embed)

\* The two ways in which a call is answered.
Recorded(c) ==
  /\ Assembled(c)
  /\ evidence[c] = EvidenceFrom(trace[c], given[c].evidence_id)
  /\ evidence[c].evidence_id # Blank /\ given[c].aware
  /\ disposition[c] = DeriveDisposition(response[c])

GaveUp(c) ==
  /\ CannotRecord(c) /\ traceId[c] # Blank
  /\ response[c] = InternalError(c) /\ evidence[c] = NoEvidence /\ disposition[c] = "deny"

CallInvOf(c) ==
  /\ (phase[c] = "idle") <=> (stage[c] = "idle")
  /\ phase[c] \notin {"returned"} => evidence[c] = NoEvidence /\ disposition[c] = "none"
  /\ phase[c] = "recording" => Assembled(c)
  /\ phase[c] = "failing" => CannotRecord(c)
  /\ phase[c] = "returned" => Recorded(c) \/ GaveUp(c)

(***************************************************************************)
(* What every call has answered, and why, on top of what its engine knows  *)
(* (enforcement/operation_aware.py 262-321).                               *)
(***************************************************************************)
AnswerInv ==
  EngineInv /\ OnlyBlankTraceIdRaises /\ \A c \in Calls : CallInvOf(c)

\* Every call that is made ends, whatever the bundle's owner does meanwhile.
CallEnds == \A c \in Calls : (phase[c] \in InFlight) ~> (phase[c] \in {"returned", "raised"})

(***************************************************************************)
(* "Fail-closed operation-aware enforcement orchestration; evaluate()      *)
(* never raises." (docs/public-api.md line 284): refuted by a blank        *)
(* trace_id, which the internal error result cannot quote either.          *)
(***************************************************************************)
NeverRaises == \A c \in Calls : phase[c] # "raised"
=============================================================================
