--------------------------- MODULE EnforcementPoint --------------------------
(***************************************************************************)
(* The v0.1 enforcement boundary                                           *)
(* (src/src/basis_core/enforcement/enforcement.py) around the engine of    *)
(* PolicyEngine: validate or accept the request, build the subject, run    *)
(* the engine, turn what came out of it into a response, audit, return.    *)
(*                                                                         *)
(* Threads share one EnforcementPoint and one AuditWriter.  A call is      *)
(* broken where it reads something another party can change (the request,  *)
(* which is not a frozen model) or writes something shared (the log).      *)
(***************************************************************************)
EXTENDS PolicyEngine, FiniteSets

CONSTANTS
  Values,         \* identifiers, actions and names that validation accepts
  Blank,          \* a whitespace-only string
  Generated,      \* the text of a fresh uuid4
  Absent,         \* None: a missing key, no subject argument
  Submissions,    \* what callers pass: a valid request and maybe a subject
  CallersMutate   \* may a caller assign to its request while evaluate runs?

ValidRequest == [id : Values, subject : Values, action : Values]

ASSUME SubmissionsAssumption ==
  Submissions \subseteq [request : ValidRequest, subject : Values \cup {Absent}]
ASSUME SentinelsAssumption ==
  /\ {Blank, Generated, Absent} \cap Values = {}
  /\ Blank # Generated
  /\ Blank # Absent
ASSUME CallersMutateAssumption == CallersMutate \in BOOLEAN

Names == Values \cup {Blank}
Request == [id : Names, subject : Names, action : Names]

Boundary == -1      \* evaluated_by="EnforcementPoint"
Engine == 0         \* evaluated_by="PolicyEngine"

Failures == {"none", "malformed_request", "policy_error", "internal_error"}

\* text "fixed" is one of the boundary's own constant reasons.
Response == [id : Names \cup {Generated}, outcome : Outcomes,
             by : Rules \cup {Engine, Boundary}, text : EngineTexts \cup {"fixed"},
             failure : Failures]

NoResponse == [id |-> Blank, outcome |-> "deny", by |-> Boundary,
               text |-> "blank", failure |-> "none"]

NoTrace == [final |-> "deny", entries |-> <<>>, shortCircuited |-> FALSE]

VARIABLES
  phase,      \* phase[c]: where call c is in EnforcementPoint.evaluate
  form,       \* form[c]: "object" if the caller still holds the request
  request,    \* request[c]: the DecisionRequest as it is now
  subject,    \* subject[c]: eval_subject once built
  supplied,   \* supplied[c]: the caller's subject argument
  asked,      \* asked[c]: the action handed to the engine
  response,   \* response[c]: the DecisionResponse
  auditLog,   \* what the AuditWriter has persisted, in order
  gap         \* gap[c]: why c has no record, "none" if nothing was lost

boundaryVars == <<phase, form, request, subject, supplied, asked, response, auditLog, gap>>
vars == <<engineVars, boundaryVars>>

InFlight == {"received", "ready", "evaluating", "failing", "auditing", "audited"}
Phases == {"idle", "returned", "raised"} \cup InFlight

Event == [call : Calls, id : Names, subject : Names, action : Names,
          outcome : {"allowed", "denied", "error"}, by : Rules \cup {Engine, Boundary},
          text : EngineTexts \cup {"fixed"}, failure : Failures, matched : SUBSET Rules,
          trace : [final : Outcomes, entries : Seq(Entry), shortCircuited : BOOLEAN]]

\* Every variable has its type.
TypeOK ==
  /\ EngineTypeOK
  /\ phase \in [Calls -> Phases]
  /\ form \in [Calls -> {"object", "dict"}]
  /\ request \in [Calls -> Request]
  /\ subject \in [Calls -> Names \cup {Absent}]
  /\ supplied \in [Calls -> Values \cup {Absent}]
  /\ asked \in [Calls -> Names]
  /\ response \in [Calls -> Response]
  /\ auditLog \in Seq(Event)
  /\ gap \in [Calls -> {"none", "writer", "event", "unauditable"}]

BlankRequest == [id |-> Blank, subject |-> Blank, action |-> Blank]

Init ==
  /\ EngineInit
  /\ phase = [c \in Calls |-> "idle"]
  /\ form = [c \in Calls |-> "dict"]
  /\ request = [c \in Calls |-> BlankRequest]
  /\ subject = [c \in Calls |-> Absent]
  /\ supplied = [c \in Calls |-> Absent]
  /\ asked = [c \in Calls |-> Blank]
  /\ response = [c \in Calls |-> NoResponse]
  /\ auditLog = <<>>
  /\ gap = [c \in Calls |-> "none"]
-----------------------------------------------------------------------------
\* evaluate is called with a valid request s.request: an object the caller
\* keeps, or a dict from which model_validate builds a private object.
Submit(c, f, s) ==
  /\ phase[c] = "idle"
  /\ phase' = [phase EXCEPT ![c] = "received"]
  /\ form' = [form EXCEPT ![c] = f]
  /\ request' = [request EXCEPT ![c] = s.request]
  /\ supplied' = [supplied EXCEPT ![c] = s.subject]
  /\ UNCHANGED <<engineVars, subject, asked, response, auditLog, gap>>

\* DecisionResponse's validators: id, reason and evaluated_by are non-blank
\* strings.
Constructible(r) == r.id # Blank /\ r.text \notin {"blank", "not_a_string"}

Denial(i, failure) ==
  [id |-> i, outcome |-> "deny", by |-> Boundary, text |-> "fixed", failure |-> failure]

\* str(raw.get("request_id") or uuid4()): blank text is truthy.
RawId(raw) == IF raw = Absent THEN Generated ELSE raw

\* evaluate is called with a dict that fails validation: a denial without an
\* audit write, built outside any try.
SubmitMalformed(c, raw) ==
  LET denial == Denial(RawId(raw), "malformed_request")
  IN /\ phase[c] = "idle"
     /\ IF Constructible(denial)
          THEN /\ phase' = [phase EXCEPT ![c] = "returned"]
               /\ response' = [response EXCEPT ![c] = denial]
          ELSE /\ phase' = [phase EXCEPT ![c] = "raised"]
               /\ UNCHANGED response
     /\ gap' = [gap EXCEPT ![c] = "unauditable"]
     /\ UNCHANGED <<engineVars, form, request, subject, supplied, asked, auditLog>>

\* Somebody other than evaluate holds the request of c and may assign to it;
\* nobody holds the object that was built from a dict.
MayChange(c) == CallersMutate /\ form[c] = "object"

\* The holder of a request object assigns to one of its fields; DecisionRequest
\* neither is frozen nor validates assignments.
Mutate(c, field, value) ==
  /\ MayChange(c)
  /\ phase[c] \in InFlight
  /\ request' = [request EXCEPT ![c][field] = value]
  /\ UNCHANGED <<engineVars, phase, form, subject, supplied, asked, response, auditLog, gap>>

\* A response is built; if its validators refuse it the exception reaches the
\* outer handler of evaluate.
Respond(c, r) ==
  /\ IF Constructible(r)
       THEN /\ response' = [response EXCEPT ![c] = r]
            /\ phase' = [phase EXCEPT ![c] = "auditing"]
       ELSE /\ phase' = [phase EXCEPT ![c] = "failing"]
            /\ UNCHANGED response
  /\ UNCHANGED <<form, request, supplied, auditLog, gap>>

\* Step 2: subject or Subject(id=request.subject_id, ...).
BuildSubject(c) ==
  LET s == IF supplied[c] # Absent THEN supplied[c] ELSE request[c].subject
  IN /\ phase[c] = "received"
     /\ s # Blank
     /\ subject' = [subject EXCEPT ![c] = s]
     /\ phase' = [phase EXCEPT ![c] = "ready"]
     /\ UNCHANGED <<engineVars, form, request, supplied, asked, response, auditLog, gap>>

\* Subject's validators refuse a blank id: a denial, which is audited.
SubjectFails(c) ==
  /\ phase[c] = "received"
  /\ supplied[c] = Absent /\ request[c].subject = Blank
  /\ Respond(c, Denial(request[c].id, "malformed_request"))
  /\ UNCHANGED <<engineVars, subject, asked>>

\* Step 3: the engine is called with the request's action as it is now.
CallEngine(c, v) ==
  /\ phase[c] = "ready"
  /\ Evaluate(c, v)
  /\ phase' = [phase EXCEPT ![c] = "evaluating"]
  /\ asked' = [asked EXCEPT ![c] = request[c].action]
  /\ UNCHANGED <<form, request, subject, supplied, response, auditLog, gap>>

\* The call's thread is inside PolicyEngine.evaluate.
RunEngine(c) ==
  /\ phase[c] = "evaluating"
  /\ EngineStep(c)
  /\ UNCHANGED boundaryVars

\* The engine raised: POLICY_ERROR, and decision stays None.
EngineRaised(c) ==
  /\ phase[c] = "evaluating"
  /\ engine[c] = "escaped"
  /\ Respond(c, Denial(request[c].id, "policy_error"))
  /\ UNCHANGED <<engineVars, subject, asked>>

\* A plausible bug: is_error is not looked at, so the engine's reason, made
\* from the exception, goes out.
Conclusion_Leaks(c) ==
  LET d == decision[c]
  IN [id |-> request[c].id, outcome |-> d.outcome, by |-> d.rule,
      text |-> d.text, failure |-> "none"]

\* A plausible bug: NOT_APPLICABLE is read as permission.
Conclusion_DefaultAllows(c) ==
  LET d == decision[c]
  IN [id |-> request[c].id,
      outcome |-> IF d.outcome = "not_applicable" THEN "allow" ELSE d.outcome,
      by |-> d.rule,
      text |-> IF d.isError THEN "fixed" ELSE d.text,
      failure |-> IF d.isError THEN "policy_error" ELSE "none"]

\* Step 4: a decision marked is_error is sanitized, any other is passed on.
Conclusion(c) ==
  LET d == decision[c]
  IN [id |-> request[c].id, outcome |-> d.outcome, by |-> d.rule,
      text |-> IF d.isError THEN "fixed" ELSE d.text,
      failure |-> IF d.isError THEN "policy_error" ELSE "none"]

EngineReturned(c) ==
  /\ phase[c] = "evaluating"
  /\ engine[c] = "returned"
  /\ Respond(c, Conclusion(c))
  /\ UNCHANGED <<engineVars, subject, asked>>

\* A plausible bug: the handler falls back on what the engine decided.
FallBack_Trusts(c) ==
  LET denial == [Denial(request[c].id, "internal_error") EXCEPT !.outcome = decision[c].outcome]
  IN /\ phase[c] = "failing"
     /\ IF Constructible(denial)
          THEN /\ response' = [response EXCEPT ![c] = denial]
               /\ phase' = [phase EXCEPT ![c] = "auditing"]
          ELSE /\ phase' = [phase EXCEPT ![c] = "raised"]
               /\ UNCHANGED response
     /\ UNCHANGED <<engineVars, form, request, subject, supplied, asked, auditLog, gap>>

\* A plausible bug: the handler goes back to build the response once more.
FallBack_Retries(c) ==
  /\ phase[c] = "failing"
  /\ phase' = [phase EXCEPT ![c] = "evaluating"]
  /\ UNCHANGED <<engineVars, form, request, subject, supplied, asked, response, auditLog, gap>>

\* The outer handler: INTERNAL_ERROR.  Its own DecisionResponse is outside the
\* try, so a request whose id is blank now makes evaluate raise.
FallBack(c) ==
  LET denial == Denial(request[c].id, "internal_error")
  IN /\ phase[c] = "failing"
     /\ IF Constructible(denial)
          THEN /\ response' = [response EXCEPT ![c] = denial]
               /\ phase' = [phase EXCEPT ![c] = "auditing"]
          ELSE /\ phase' = [phase EXCEPT ![c] = "raised"]
               /\ UNCHANGED response
     /\ UNCHANGED <<engineVars, form, request, subject, supplied, asked, auditLog, gap>>
-----------------------------------------------------------------------------
\* A plausible bug: the response's outcome is written as it is.
AuditOutcome_Raw(r) == r.outcome

\* NOT_APPLICABLE is a denial in the audit log; boundary failures are errors,
\* except MALFORMED_REQUEST.
AuditOutcome(r) ==
  IF r.failure \in {"policy_error", "internal_error"} THEN "error"
  ELSE IF r.outcome = "allow" THEN "allowed" ELSE "denied"

\* _write_audit's decision argument is None until the engine has returned.
HasTrace(c) == engine[c] = "returned" /\ decision[c].evaluations # <<>>

\* A plausible bug: every denial is taken to have stopped the walk.
Trace_AnyDenial(c) ==
  IF HasTrace(c)
    THEN [final |-> decision[c].outcome, entries |-> decision[c].evaluations,
          shortCircuited |-> decision[c].outcome = "deny"]
    ELSE NoTrace

Trace(c) ==
  IF HasTrace(c)
    THEN [final |-> decision[c].outcome, entries |-> decision[c].evaluations,
          shortCircuited |-> /\ decision[c].outcome = "deny"
                             /\ Len(decision[c].evaluations) < NumRules]
    ELSE NoTrace

Matched(t) ==
  {t.entries[i].rule : i \in {j \in DOMAIN t.entries : t.entries[j].outcome # "not_applicable"}}

\* A plausible bug: the record names the request's subject even when the
\* caller passed the subject that was evaluated.
AuditEvent_RequestSubject(c) ==
  [call |-> c, id |-> request[c].id, subject |-> request[c].subject,
   action |-> request[c].action,
   outcome |-> AuditOutcome(response[c]), by |-> response[c].by,
   text |-> response[c].text, failure |-> response[c].failure,
   matched |-> Matched(Trace(c)), trace |-> Trace(c)]

\* The event: the request as it is now, the response and the engine's walk.
AuditEvent(c) ==
  [call |-> c, id |-> request[c].id,
   subject |-> IF supplied[c] # Absent THEN supplied[c] ELSE request[c].subject,
   action |-> request[c].action,
   outcome |-> AuditOutcome(response[c]), by |-> response[c].by,
   text |-> response[c].text, failure |-> response[c].failure,
   matched |-> Matched(Trace(c)), trace |-> Trace(c)]

\* AuditEvent and RuleEvaluation refuse a blank action and non-strings.
EventConstructible(e) ==
  /\ e.action # Blank
  /\ \A i \in DOMAIN e.trace.entries : e.trace.entries[i].text # "not_a_string"

\* A plausible bug: a lost record turns the response into a denial.
WriteAudit_Reverses(c) ==
  /\ phase[c] = "auditing"
  /\ \E persisted \in BOOLEAN :
       IF EventConstructible(AuditEvent(c)) /\ persisted
         THEN /\ auditLog' = Append(auditLog, AuditEvent(c))
              /\ UNCHANGED <<gap, response>>
         ELSE /\ gap' = [gap EXCEPT ![c] = "writer"]
              /\ response' = [response EXCEPT ![c] = Denial(@.id, "internal_error")]
              /\ UNCHANGED auditLog
  /\ phase' = [phase EXCEPT ![c] = "audited"]
  /\ UNCHANGED <<engineVars, form, request, subject, supplied, asked>>

\* A plausible bug: after a failed write the record is written again.
WriteAudit_Repeats(c) ==
  /\ phase[c] = "auditing"
  /\ EventConstructible(AuditEvent(c))
  /\ auditLog' = Append(auditLog, AuditEvent(c))
  /\ \E done \in BOOLEAN : phase' = [phase EXCEPT ![c] = IF done THEN "audited" ELSE @]
  /\ UNCHANGED <<engineVars, form, request, subject, supplied, asked, response, gap>>

\* A plausible bug: _write_audit does not catch what the writer raises.
WriteAudit_Raises(c) ==
  /\ phase[c] = "auditing"
  /\ \E persisted \in BOOLEAN :
       IF EventConstructible(AuditEvent(c)) /\ persisted
         THEN /\ auditLog' = Append(auditLog, AuditEvent(c))
              /\ phase' = [phase EXCEPT ![c] = "audited"]
         ELSE /\ phase' = [phase EXCEPT ![c] = "raised"]
              /\ UNCHANGED auditLog
  /\ UNCHANGED <<engineVars, form, request, subject, supplied, asked, response, gap>>

\* _write_audit: any exception, of the event's construction or of the writer,
\* is swallowed; the response is untouched.
WriteAudit(c) ==
  /\ phase[c] = "auditing"
  /\ IF EventConstructible(AuditEvent(c))
       THEN \/ auditLog' = Append(auditLog, AuditEvent(c)) /\ UNCHANGED gap
            \/ gap' = [gap EXCEPT ![c] = "writer"] /\ UNCHANGED auditLog
       ELSE gap' = [gap EXCEPT ![c] = "event"] /\ UNCHANGED auditLog
  /\ phase' = [phase EXCEPT ![c] = "audited"]
  /\ UNCHANGED <<engineVars, form, request, subject, supplied, asked, response>>

\* A plausible bug: a path returns before the audit write.
Return_SkipsAudit(c) ==
  /\ phase[c] \in {"auditing", "audited"}
  /\ phase' = [phase EXCEPT ![c] = "returned"]
  /\ UNCHANGED <<engineVars, form, request, subject, supplied, asked, response, auditLog, gap>>

Return(c) ==
  /\ phase[c] = "audited"
  /\ phase' = [phase EXCEPT ![c] = "returned"]
  /\ UNCHANGED <<engineVars, form, request, subject, supplied, asked, response, auditLog, gap>>

\* A step of the thread that runs call c.
CallStep(c) ==
  \/ BuildSubject(c)
  \/ SubjectFails(c)
  \/ \E v \in [Rules -> Verdicts] : CallEngine(c, v)
  \/ RunEngine(c)
  \/ EngineRaised(c)
  \/ EngineReturned(c)
  \/ FallBack(c)
  \/ WriteAudit(c)
  \/ Return(c)

\* What callers do.
CallerStep(c) ==
  \/ \E f \in {"object", "dict"}, s \in Submissions : Submit(c, f, s)
  \/ \E raw \in Names \cup {Absent} : SubmitMalformed(c, raw)
  \/ \E field \in {"id", "subject", "action"}, value \in Names : Mutate(c, field, value)

Next == \E c \in Calls : CallStep(c) \/ CallerStep(c)

Spec == Init /\ [][Next]_vars

\* A call runs on its caller's thread to its end: nothing in it waits, and
\* rules and writers return.
FairSpec == Spec /\ \A c \in Calls : WF_vars(CallStep(c))
-----------------------------------------------------------------------------
\* evaluate has a response for c, which it may still have to audit.
Answered(c) == phase[c] \in {"auditing", "audited", "returned"}

RecordsOf(c) == {i \in DOMAIN auditLog : auditLog[i].call = c}

(***************************************************************************)
(* Fail closed, end to end: a response that allows was earned by a walk    *)
(* over all the rules in which none denied, raised or misbehaved, carries  *)
(* no failure, and names a rule that allowed.  No error path of evaluate   *)
(* (enforcement.py 183-301) and no assignment to the request grants.       *)
(***************************************************************************)
FailClosed ==
  \A c \in Calls : (Answered(c) /\ response[c].outcome = "allow") =>
    /\ engine[c] = "returned" /\ ~decision[c].isError
    /\ Answers(c) \subseteq {"allow", "not_applicable"}
    /\ response[c].failure = "none"
    /\ response[c].by \in Rules /\ verdict[c][response[c].by].answer = "allow"

\* How a response is accounted for by where the engine was left.
Explained(c) ==
  LET r == response[c]
      d == decision[c]
  IN /\ r.text # "exception"
     /\ CASE r.failure = "none" ->
               /\ engine[c] = "returned" /\ ~d.isError
               /\ r.outcome = d.outcome /\ r.by = d.rule /\ r.text = d.text
          [] r.failure = "policy_error" ->
               \/ engine[c] = "escaped" /\ r.by = Boundary
               \/ d.isError /\ r.by \in Rules /\ verdict[c][r.by].answer = "raises"
          [] r.failure = "malformed_request" -> engine[c] = "idle"
          [] OTHER -> r.by = Boundary /\ engine[c] # "running"
     /\ r.failure # "none" => r.outcome = "deny"

(***************************************************************************)
(* Every response is explained by what happened: failure_reason is absent  *)
(* exactly when the response is the engine's own decision, POLICY_ERROR    *)
(* when a rule raised or the engine did, MALFORMED_REQUEST only if policy  *)
(* was never reached, and exception text never goes out.                   *)
(***************************************************************************)
ResponseIsExplained == \A c \in Calls : Answered(c) => Explained(c)

(***************************************************************************)
(* The invariant behind FailClosed and ResponseIsExplained: the engine is  *)
(* entered only when the subject is ready and left before anything is      *)
(* answered, only a rule's own text can reach a response, and a response   *)
(* stays explained by where the engine was left.                           *)
(***************************************************************************)
OnlyErrorsQuoteExceptions(c) ==
  (engine[c] = "returned" /\ decision[c].text = "exception") => decision[c].isError

BoundaryInvOf(c) ==
  /\ phase[c] \in {"idle", "received", "ready"} => engine[c] = "idle"
  /\ engine[c] = "running" => phase[c] = "evaluating"
  /\ phase[c] = "evaluating" => engine[c] # "idle"
  /\ OnlyErrorsQuoteExceptions(c)
  /\ Answered(c) => Explained(c)

AnswerInv == \A c \in Calls : BoundaryInvOf(c)

(***************************************************************************)
(* A record tells its call's story: outcome, reason, author and failure    *)
(* are the response's; the trace is the engine's walk whenever there was   *)
(* one; short_circuited says that some registered rule was never asked;    *)
(* matched_rules are the rules that allowed, denied or raised              *)
(* (enforcement.py 306-383).                                               *)
(***************************************************************************)
RecordTellsTheCall ==
  \A i \in DOMAIN auditLog :
    LET e == auditLog[i]
        c == e.call
        r == response[c]
        Opinion(k) == verdict[c][k].answer # "not_applicable"
        walked == 1 .. Len(e.trace.entries)
    IN /\ e.by = r.by /\ e.text = r.text /\ e.failure = r.failure
       /\ (e.outcome = "allowed") <=> (r.outcome = "allow")
       /\ (e.outcome = "error") <=> (r.failure \in {"policy_error", "internal_error"})
       /\ (engine[c] = "returned") => e.trace.entries = decision[c].evaluations
       /\ (engine[c] # "returned") => e.trace = NoTrace
       /\ walked # {} => (e.trace.shortCircuited <=> (Rules \ walked # {}))
       /\ e.matched = {k \in walked : Opinion(k)}

(***************************************************************************)
(* Of a request that nobody can change, the record names the subject and   *)
(* action that the rules were asked about and the id that the response     *)
(* echoes, although _write_audit reads all three again after the           *)
(* evaluation (enforcement.py 360-382).                                    *)
(***************************************************************************)
RecordNamesWhatWasAsked ==
  \A i \in DOMAIN auditLog :
    LET e == auditLog[i]
        c == e.call
    IN ~MayChange(c) =>
       /\ e.id = response[c].id
       /\ engine[c] # "idle" => e.subject = subject[c] /\ e.action = asked[c]

(***************************************************************************)
(* Audit accounting: a call has at most one record, none before it is      *)
(* answered, and a caller that got a decision without a record has one of  *)
(* three reasons: the input was never a request, the writer failed, or the *)
(* event could not be built.                                               *)
(***************************************************************************)
AuditAccounting ==
  \A c \in Calls :
    /\ Cardinality(RecordsOf(c)) =
         IF phase[c] \in {"audited", "returned"} /\ gap[c] = "none" THEN 1 ELSE 0
    /\ gap[c] = "unauditable" => engine[c] = "idle" /\ phase[c] \in {"returned", "raised"}
    /\ gap[c] = "event" /\ ~MayChange(c) =>
         \E k \in Rules : verdict[c][k].text = "not_a_string"

(***************************************************************************)
(* Audit is evidence, not enforcement: once there is a response nothing    *)
(* changes it, and its caller gets it whatever happens in _write_audit     *)
(* (docs/kernel-constitution.md line 83).                                  *)
(***************************************************************************)
DecisionOutlivesAudit ==
  [][\A c \in Calls : Answered(c) => response'[c] = response[c] /\ Answered(c)']_vars

(***************************************************************************)
(* evaluate raises only on a dict that is not a request: once a request is *)
(* accepted, and unless somebody changes it, no rule, reason, writer or    *)
(* event can make it raise (enforcement.py 209-304).                       *)
(***************************************************************************)
AcceptedRequestsAreAnswered ==
  \A c \in Calls : (phase[c] = "raised" /\ ~MayChange(c)) => gap[c] = "unauditable"

(***************************************************************************)
(* The invariant behind the four properties of the log.                    *)
(***************************************************************************)
\* The call was made with a request and not with a dict that is none.
Accepted(c) == phase[c] # "idle" /\ gap[c] # "unauditable"

SubjectOf(c) == IF supplied[c] # Absent THEN supplied[c] ELSE request[c].subject

\* Whatever was taken from a request nobody can change still agrees with it.
RequestKept(c) ==
  (Accepted(c) /\ ~MayChange(c)) =>
    /\ request[c] \in ValidRequest
    /\ (phase[c] = "ready" \/ engine[c] # "idle") => subject[c] = SubjectOf(c)
    /\ engine[c] # "idle" => asked[c] = request[c].action
    /\ Answered(c) => response[c].id = request[c].id

\* Nothing is lost before the audit write, and what is lost has its reason.
LossExplained(c) ==
  /\ gap[c] # "none" => phase[c] \in {"audited", "returned", "raised"}
  /\ gap[c] = "unauditable" => engine[c] = "idle" /\ phase[c] \in {"returned", "raised"}
  /\ (gap[c] = "event" /\ ~MayChange(c)) => ~EventConstructible(AuditEvent(c))
  /\ (phase[c] = "raised" /\ ~MayChange(c)) => gap[c] = "unauditable"

\* A record is the event as it would be built now, up to what the request's
\* holder may have assigned since.
UpToDate(c, e) ==
  /\ \A field \in {"call", "outcome", "by", "text", "failure", "matched", "trace"} :
       e[field] = AuditEvent(c)[field]
  /\ ~MayChange(c) => e = AuditEvent(c)

Settled(c) == phase[c] \in {"audited", "returned"}

RecordKept(c) ==
  /\ IF Settled(c) /\ gap[c] = "none" THEN \E i \in DOMAIN auditLog : RecordsOf(c) = {i}
                                      ELSE RecordsOf(c) = {}
  /\ \A i \in RecordsOf(c) : UpToDate(c, auditLog[i])

LogInvOf(c) == RequestKept(c) /\ LossExplained(c) /\ RecordKept(c)

LogInv == \A c \in Calls : LogInvOf(c)

(***************************************************************************)
(* The invariant of the boundary: what an answer rests on and what the log *)
(* keeps of it.                                                            *)
(***************************************************************************)
BoundaryInv == AnswerInv /\ LogInv

\* Every call that is made ends: its caller gets a response or an exception.
CallEnds == \A c \in Calls : (phase[c] \in InFlight) ~> (phase[c] \in {"returned", "raised"})

(***************************************************************************)
(* "Returns a DecisionResponse. Never raises." (enforcement.py line 180):  *)
(* refuted by a malformed dict whose request_id is blank but truthy.       *)
(***************************************************************************)
NeverRaises == \A c \in Calls : phase[c] # "raised"

(***************************************************************************)
(* "For subject-construction failures from a valid DecisionRequest, an     *)
(* audit record is written with outcome=ERROR" (docs/failure-modes.md      *)
(* line 13): refuted, MALFORMED_REQUEST is recorded as DENIED.             *)
(***************************************************************************)
SubjectFailureRecordedAsError ==
  \A i \in DOMAIN auditLog :
    auditLog[i].failure = "malformed_request" => auditLog[i].outcome = "error"

(***************************************************************************)
(* The boundary implements AuditedGate: a decision is made when the        *)
(* response is built, settled by _write_audit, delivered by the return.    *)
(***************************************************************************)
PolicyPermits(c) ==
  engine[c] # "idle" /\ Answers(c) \subseteq {"allow", "not_applicable"} /\ "allow" \in Answers(c)

Decided(c) ==
  IF ~Answered(c) THEN "none" ELSE IF response[c].outcome = "allow" THEN "grant" ELSE "refuse"

GatePermits == [c \in Calls |-> PolicyPermits(c)]
GateDecided == [c \in Calls |-> Decided(c)]
GateSettled == [c \in Calls |-> Settled(c)]
GateLog == [i \in DOMAIN auditLog |->
              [call |-> auditLog[i].call, grant |-> auditLog[i].outcome = "allowed"]]
GateDelivered == [c \in Calls |-> phase[c] = "returned"]

Gate == INSTANCE AuditedGate WITH
  permits <- GatePermits, decided <- GateDecided, settled <- GateSettled,
  log <- GateLog, delivered <- GateDelivered

ImplementsAuditedGate == Gate!Spec
=============================================================================
