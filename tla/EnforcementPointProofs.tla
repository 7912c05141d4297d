----------------------- MODULE EnforcementPointProofs ------------------------
(***************************************************************************)
(* Proofs about EnforcementPoint, for any number of calls and rules, any   *)
(* verdicts and submissions, and callers that may or may not assign to     *)
(* their requests.                                                         *)
(*                                                                         *)
(* The boundary runs the engine and never touches its variables, so it     *)
(* implements EngineSpec and inherits what PolicyEngineProofs proves.  On  *)
(* top of it, AnswerInv ties a response to the state of the engine.        *)
(*                                                                         *)
(* The second part is about the audit log: what a record says of its call, *)
(* how records are accounted for, and that the boundary implements         *)
(* AuditedGate.  Its four properties follow from LogInv, which is          *)
(* inductive relative to TypeOK and AnswerInv.                             *)
(***************************************************************************)
EXTENDS EnforcementPoint, PolicyEngineProofs, FiniteSetTheorems

\* A step of the boundary is a step of the engine or leaves the engine alone.
LEMMA BoundaryStepIsEngineStep ==
  ASSUME NEW c \in Calls, CallStep(c) \/ CallerStep(c)
  PROVE  [EngineNext]_engineVars
<1>1. CASE \E v \in [Rules -> Verdicts] : CallEngine(c, v)
  BY <1>1 DEF CallEngine, EngineNext
<1>2. CASE RunEngine(c)
  BY <1>2 DEF RunEngine, EngineNext
<1>3. CASE UNCHANGED engineVars
  BY <1>3
<1> QED
  BY <1>1, <1>2, <1>3 DEF CallStep, CallerStep, BuildSubject, SubjectFails, EngineRaised,
     EngineReturned, FallBack, WriteAudit, Return, Submit, SubmitMalformed, Mutate

(***************************************************************************)
(* The boundary implements the engine's specification.                     *)
(***************************************************************************)
THEOREM BoundaryRunsTheEngine == Spec => EngineSpec
<1>1. Init => EngineInit
  BY DEF Init
<1>2. [Next]_vars => [EngineNext]_engineVars
  BY BoundaryStepIsEngineStep DEF Next, vars
<1> QED BY <1>1, <1>2, PTL DEF Spec, EngineSpec

(***************************************************************************)
(* Type correctness.                                                       *)
(***************************************************************************)
LEMMA DenialType ==
  ASSUME NEW i \in Names \cup {Generated}, NEW f \in Failures
  PROVE  Denial(i, f) \in Response
BY DEF Denial, Response, Outcomes

\* What the engine decided makes a response.
LEMMA ConclusionType ==
  ASSUME TypeOK, NEW c \in Calls
  PROVE  Conclusion(c) \in Response
<1>1. decision[c] \in Decision /\ request[c] \in Request
  BY DEF TypeOK, EngineTypeOK
<1> QED BY <1>1 DEF Conclusion, Response, Decision, Request, Failures, Engine

\* A trace holds entries of the engine and names rules.
LEMMA TraceType ==
  ASSUME TypeOK, NEW c \in Calls
  PROVE  /\ Trace(c) \in [final : Outcomes, entries : Seq(Entry), shortCircuited : BOOLEAN]
         /\ Matched(Trace(c)) \in SUBSET Rules
<1>1. decision[c] \in Decision
  BY DEF TypeOK, EngineTypeOK
<1>2. Trace(c) \in [final : Outcomes, entries : Seq(Entry), shortCircuited : BOOLEAN]
  BY <1>1 DEF Trace, NoTrace, Decision, Outcomes
<1>3. ASSUME NEW i \in DOMAIN Trace(c).entries
      PROVE  Trace(c).entries[i].rule \in Rules
  <2>1. Trace(c).entries \in Seq(Entry)
    BY <1>2
  <2>2. Trace(c).entries[i] \in Entry
    BY <2>1
  <2> QED BY <2>2 DEF Entry
<1> QED BY <1>2, <1>3 DEF Matched

\* What is written is an event.
LEMMA EventType ==
  ASSUME TypeOK, NEW c \in Calls
  PROVE  AuditEvent(c) \in Event
<1>1. response[c] \in Response /\ request[c] \in Request /\ supplied[c] \in Values \cup {Absent}
  BY DEF TypeOK
<1>2. AuditOutcome(response[c]) \in {"allowed", "denied", "error"}
  BY DEF AuditOutcome
<1> QED BY <1>1, <1>2, TraceType DEF AuditEvent, Event, Response, Request, Names

\* Building a response keeps the types.
LEMMA RespondType ==
  ASSUME TypeOK, NEW c \in Calls, NEW r \in Response, Respond(c, r),
         UNCHANGED <<engineVars, subject, asked>>
  PROVE  TypeOK'
<1>1. EngineTypeOK'
  BY DEF TypeOK, EngineTypeOK, engineVars
<1> QED BY <1>1 DEF TypeOK, Respond, Phases, InFlight

\* Every step of a call's own thread keeps the types.
LEMMA BoundaryStepType ==
  ASSUME TypeOK, EngineTypeOK', NEW c \in Calls, CallStep(c)
  PROVE  TypeOK'
<1>0. request[c] \in Request /\ request[c].id \in Names \cup {Generated}
  BY DEF TypeOK, Request
<1>1. CASE BuildSubject(c)
  BY <1>1, <1>0 DEF BuildSubject, TypeOK, Request, Names, Phases, InFlight
<1>2. CASE SubjectFails(c)
  <2>1. Denial(request[c].id, "malformed_request") \in Response
    BY <1>0, DenialType DEF Failures
  <2> QED BY <1>2, <2>1, RespondType DEF SubjectFails
<1>3. CASE \E v \in [Rules -> Verdicts] : CallEngine(c, v)
  BY <1>3, <1>0 DEF CallEngine, TypeOK, Request, Phases, InFlight
<1>4. CASE RunEngine(c)
  BY <1>4 DEF RunEngine, boundaryVars, TypeOK
<1>5. CASE EngineRaised(c)
  <2>1. Denial(request[c].id, "policy_error") \in Response
    BY <1>0, DenialType DEF Failures
  <2> QED BY <1>5, <2>1, RespondType DEF EngineRaised
<1>6. CASE EngineReturned(c)
  BY <1>6, ConclusionType, RespondType DEF EngineReturned
<1>7. CASE FallBack(c)
  <2>1. Denial(request[c].id, "internal_error") \in Response
    BY <1>0, DenialType DEF Failures
  <2> QED BY <1>7, <2>1 DEF FallBack, TypeOK, Phases, InFlight
<1>8. CASE WriteAudit(c)
  <2>1. Append(auditLog, AuditEvent(c)) \in Seq(Event)
    BY EventType DEF TypeOK
  <2> QED BY <1>8, <2>1 DEF WriteAudit, TypeOK, Phases, InFlight
<1>9. CASE Return(c)
  BY <1>9 DEF Return, TypeOK, Phases, InFlight
<1> QED BY <1>1, <1>2, <1>3, <1>4, <1>5, <1>6, <1>7, <1>8, <1>9 DEF CallStep

\* Every step of a caller keeps the types.
LEMMA CallerStepType ==
  ASSUME TypeOK, EngineTypeOK', NEW c \in Calls, CallerStep(c)
  PROVE  TypeOK'
<1>1. ASSUME NEW f \in {"object", "dict"}, NEW s \in Submissions, Submit(c, f, s)
      PROVE  TypeOK'
  <2>1. s.request \in Request /\ s.subject \in Values \cup {Absent}
    BY SubmissionsAssumption DEF ValidRequest, Request, Names
  <2> QED BY <1>1, <2>1 DEF Submit, TypeOK, Phases, InFlight
<1>2. ASSUME NEW raw \in Names \cup {Absent}, SubmitMalformed(c, raw)
      PROVE  TypeOK'
  <2>1. RawId(raw) \in Names \cup {Generated}
    BY DEF RawId
  <2>2. Denial(RawId(raw), "malformed_request") \in Response
    BY <2>1, DenialType DEF Failures
  <2> QED BY <1>2, <2>2 DEF SubmitMalformed, TypeOK, Phases
<1>3. ASSUME NEW field \in {"id", "subject", "action"}, NEW value \in Names, Mutate(c, field, value)
      PROVE  TypeOK'
  BY <1>3 DEF Mutate, TypeOK, Request
<1> QED BY <1>1, <1>2, <1>3 DEF CallerStep

\* The types hold initially.
LEMMA BoundaryInitType == Init => TypeOK
<1>1. NoResponse \in Response /\ BlankRequest \in Request
  BY DEF NoResponse, Response, Names, Outcomes, EngineTexts, Texts, Failures, BlankRequest, Request
<1> QED BY <1>1, EngineInitType DEF Init, TypeOK, Phases, Names

(***************************************************************************)
(* Every variable of the boundary keeps its type.                          *)
(***************************************************************************)
THEOREM TypeCorrect == Spec => []TypeOK
<1>1. TypeOK /\ EngineTypeOK' /\ [Next]_vars => TypeOK'
  <2> SUFFICES ASSUME TypeOK, EngineTypeOK', [Next]_vars
               PROVE  TypeOK'
    OBVIOUS
  <2>1. CASE Next
    BY <2>1, BoundaryStepType, CallerStepType DEF Next
  <2>2. CASE UNCHANGED vars
    BY <2>2 DEF vars, boundaryVars, TypeOK
  <2> QED BY <2>1, <2>2
<1>2. Spec => []EngineTypeOK
  BY BoundaryRunsTheEngine, EngineTypeCorrect, PTL
<1> QED BY <1>1, <1>2, BoundaryInitType, PTL DEF Spec
-----------------------------------------------------------------------------
(***************************************************************************)
(* The boundary's invariant.                                               *)
(***************************************************************************)
\* What BoundaryInvOf(d) reads is unchanged.
Standing(d) == Untouched(d) /\ phase'[d] = phase[d] /\ response'[d] = response[d]

\* A call of which nothing changes keeps its invariant.
LEMMA StandingKeepsBoundaryInv ==
  ASSUME NEW d \in Calls, BoundaryInvOf(d), Standing(d)
  PROVE  BoundaryInvOf(d)'
BY DEF Standing, Untouched, BoundaryInvOf, OnlyErrorsQuoteExceptions, Answered, Explained

\* A step of one call leaves every other call standing.
LEMMA OthersStanding ==
  ASSUME TypeOK, NEW c \in Calls, NEW d \in Calls, c # d, CallStep(c) \/ CallerStep(c)
  PROVE  Standing(d)
<1>1. EngineTypeOK /\ phase \in [Calls -> Phases] /\ response \in [Calls -> Response]
  BY DEF TypeOK
<1>2. Untouched(d)
  <2>1. CASE \E v \in [Rules -> Verdicts] : CallEngine(c, v)
    BY <1>1, <2>1, OthersUntouched DEF CallEngine
  <2>2. CASE RunEngine(c)
    BY <1>1, <2>2, OthersUntouched DEF RunEngine
  <2>3. CASE UNCHANGED engineVars
    BY <2>3 DEF engineVars, Untouched
  <2> QED
    BY <2>1, <2>2, <2>3 DEF CallStep, CallerStep, BuildSubject, SubjectFails, EngineRaised,
       EngineReturned, FallBack, WriteAudit, Return, Submit, SubmitMalformed, Mutate
<1>3. phase'[d] = phase[d] /\ response'[d] = response[d]
  BY <1>1 DEF CallStep, CallerStep, BuildSubject, SubjectFails, CallEngine, RunEngine, EngineRaised,
     EngineReturned, FallBack, WriteAudit, Return, Submit, SubmitMalformed, Mutate, Respond,
     boundaryVars
<1> QED BY <1>2, <1>3 DEF Standing

\* The engine quotes an exception only in a decision marked is_error.
LEMMA EngineQuotes ==
  ASSUME EngineTypeOK, NEW c \in Calls, EngineStep(c), OnlyErrorsQuoteExceptions(c)
  PROVE  OnlyErrorsQuoteExceptions(c)'
<1>1. /\ engine \in [Calls -> {"idle", "running", "returned", "escaped"}]
      /\ decision \in [Calls -> Decision]
      /\ firstAllow \in [Calls -> Rules \cup {0}]
      /\ "exception" \notin Texts /\ "ok" # "exception"
  BY DEF EngineTypeOK, Texts
<1>2. CASE RuleRaises(c)
  BY <1>1, <1>2 DEF RuleRaises, Returns, OnlyErrorsQuoteExceptions
<1>3. CASE RuleMalformed(c)
  BY <1>1, <1>3 DEF RuleMalformed, OnlyErrorsQuoteExceptions
<1>4. CASE RuleDenies(c)
  <2>1. Text(c) \in Texts
    BY <1>4, VerdictType DEF RuleDenies, Reaches, Text
  <2> QED BY <1>1, <1>4, <2>1 DEF RuleDenies, Returns, OnlyErrorsQuoteExceptions
<1>5. CASE RuleAllows(c) \/ RuleNotApplicable(c)
  BY <1>1, <1>5 DEF RuleAllows, RuleNotApplicable, OnlyErrorsQuoteExceptions
<1>6. CASE ReturnAllow(c)
  <2>1. verdict[c][firstAllow[c]].text \in Texts
    BY <1>1, <1>6, VerdictType DEF ReturnAllow
  <2> QED BY <1>1, <1>6, <2>1 DEF ReturnAllow, Returns, OnlyErrorsQuoteExceptions
<1>7. CASE ReturnNotApplicable(c)
  BY <1>1, <1>7 DEF ReturnNotApplicable, Returns, OnlyErrorsQuoteExceptions
<1> QED BY <1>2, <1>3, <1>4, <1>5, <1>6, <1>7 DEF EngineStep

\* What the loop invariant says of a returned decision, as the boundary needs it.
LEMMA ErrorsAreDenials ==
  ASSUME LoopInv, NEW c \in Calls, engine[c] = "returned", decision[c].isError
  PROVE  /\ decision[c].outcome = "deny"
         /\ decision[c].rule \in Rules
         /\ verdict[c][decision[c].rule].answer = "raises"
BY DEF LoopInv, LoopInvOf, ExitExplained

\* A step of c's own thread.
LEMMA CallStepBoundaryInv ==
  ASSUME TypeOK, LoopInv, NEW c \in Calls, CallStep(c), BoundaryInvOf(c)
  PROVE  BoundaryInvOf(c)'
<1>0. /\ EngineTypeOK /\ phase \in [Calls -> Phases] /\ response \in [Calls -> Response]
      /\ engine \in [Calls -> {"idle", "running", "returned", "escaped"}]
  BY DEF TypeOK, EngineTypeOK
<1> USE DEF BoundaryInvOf, Answered
<1>1. CASE BuildSubject(c)
  BY <1>0, <1>1 DEF BuildSubject, engineVars, OnlyErrorsQuoteExceptions
<1>2. CASE SubjectFails(c)
  BY <1>0, <1>2 DEF SubjectFails, Respond, Denial, Constructible, engineVars,
                    OnlyErrorsQuoteExceptions, Explained
<1>3. CASE \E v \in [Rules -> Verdicts] : CallEngine(c, v)
  <2>1. /\ engine'[c] = "running" /\ phase'[c] = "evaluating"
    BY <1>0, <1>3 DEF CallEngine, Evaluate
  <2> QED BY <2>1 DEF OnlyErrorsQuoteExceptions
<1>4. CASE RunEngine(c)
  <2>1. engine'[c] # "idle" /\ phase' = phase /\ phase[c] = "evaluating"
    BY <1>0, <1>4 DEF RunEngine, boundaryVars, EngineStep, RuleRaises, RuleMalformed, RuleDenies,
       RuleAllows, RuleNotApplicable, ReturnAllow, ReturnNotApplicable, Returns, Reaches
  <2>2. OnlyErrorsQuoteExceptions(c)'
    BY <1>0, <1>4, EngineQuotes DEF RunEngine
  <2> QED BY <2>1, <2>2
<1>5. CASE EngineRaised(c)
  BY <1>0, <1>5 DEF EngineRaised, Respond, Denial, Constructible, engineVars,
                    OnlyErrorsQuoteExceptions, Explained
<1>6. CASE EngineReturned(c)
  <2>1. /\ engine[c] = "returned" /\ UNCHANGED engineVars
        /\ Respond(c, Conclusion(c))
    BY <1>6 DEF EngineReturned
  <2>2. CASE decision[c].isError
    <3>1. /\ Conclusion(c).outcome = "deny" /\ Conclusion(c).text = "fixed"
          /\ Conclusion(c).failure = "policy_error" /\ Conclusion(c).by \in Rules
          /\ verdict[c][Conclusion(c).by].answer = "raises"
      BY <2>1, <2>2, ErrorsAreDenials DEF Conclusion
    <3> QED BY <1>0, <2>1, <2>2, <3>1 DEF Respond, engineVars, OnlyErrorsQuoteExceptions, Explained
  <2>3. CASE ~decision[c].isError
    <3>1. /\ Conclusion(c).outcome = decision[c].outcome
          /\ Conclusion(c).text = decision[c].text /\ Conclusion(c).text # "exception"
          /\ Conclusion(c).failure = "none" /\ Conclusion(c).by = decision[c].rule
      BY <2>1, <2>3 DEF Conclusion, OnlyErrorsQuoteExceptions
    <3> QED BY <1>0, <2>1, <2>3, <3>1 DEF Respond, engineVars, OnlyErrorsQuoteExceptions, Explained
  <2> QED BY <2>2, <2>3
<1>7. CASE FallBack(c)
  BY <1>0, <1>7 DEF FallBack, Denial, Constructible, engineVars, OnlyErrorsQuoteExceptions, Explained
<1>8. CASE WriteAudit(c) \/ Return(c)
  BY <1>0, <1>8 DEF WriteAudit, Return, engineVars, OnlyErrorsQuoteExceptions, Explained
<1> QED BY <1>1, <1>2, <1>3, <1>4, <1>5, <1>6, <1>7, <1>8 DEF CallStep

\* A step of the caller of c.
LEMMA CallerStepBoundaryInv ==
  ASSUME TypeOK, NEW c \in Calls, CallerStep(c), BoundaryInvOf(c)
  PROVE  BoundaryInvOf(c)'
<1>0. /\ phase \in [Calls -> Phases] /\ response \in [Calls -> Response]
      /\ UNCHANGED engineVars
  BY DEF TypeOK, CallerStep, Submit, SubmitMalformed, Mutate
<1> USE DEF BoundaryInvOf, Answered
<1>1. CASE \E f \in {"object", "dict"}, s \in Submissions : Submit(c, f, s)
  BY <1>0, <1>1 DEF Submit, engineVars, OnlyErrorsQuoteExceptions
<1>2. CASE \E raw \in Names \cup {Absent} : SubmitMalformed(c, raw)
  BY <1>0, <1>2 DEF SubmitMalformed, Denial, engineVars, OnlyErrorsQuoteExceptions, Explained
<1>3. CASE \E field \in {"id", "subject", "action"}, value \in Names : Mutate(c, field, value)
  BY <1>0, <1>3 DEF Mutate, engineVars, OnlyErrorsQuoteExceptions, Explained
<1> QED BY <1>1, <1>2, <1>3 DEF CallerStep

\* Every step keeps the invariant of every call.
LEMMA AnswerInvPreserved ==
  ASSUME TypeOK, LoopInv, AnswerInv, [Next]_vars
  PROVE  AnswerInv'
<1> SUFFICES ASSUME NEW d \in Calls
             PROVE  BoundaryInvOf(d)'
  BY DEF AnswerInv
<1>0. BoundaryInvOf(d)
  BY DEF AnswerInv
<1>1. CASE UNCHANGED vars
  <2>1. Standing(d)
    BY <1>1 DEF vars, engineVars, boundaryVars, Standing, Untouched
  <2> QED BY <1>0, <2>1, StandingKeepsBoundaryInv
<1>2. ASSUME NEW c \in Calls, CallStep(c) \/ CallerStep(c)
      PROVE  BoundaryInvOf(d)'
  <2>1. CASE d = c
    BY <1>0, <1>2, <2>1, CallStepBoundaryInv, CallerStepBoundaryInv
  <2>2. CASE d # c
    BY <1>0, <1>2, <2>2, OthersStanding, StandingKeepsBoundaryInv
  <2> QED BY <2>1, <2>2
<1> QED BY <1>1, <1>2 DEF Next

\* The invariant holds initially.
LEMMA AnswerInvInit == Init => AnswerInv
BY DEF Init, EngineInit, AnswerInv, BoundaryInvOf, OnlyErrorsQuoteExceptions, Answered

\* The engine's loop invariant holds while the boundary runs it.
LEMMA BoundaryLoopInv == Spec => []LoopInv
BY BoundaryRunsTheEngine, EngineLoopInvariant, PTL

\* The boundary invariant holds of every reachable state.
THEOREM AnswerInvariant == Spec => []AnswerInv
<1>1. TypeOK /\ LoopInv /\ AnswerInv /\ [Next]_vars => AnswerInv'
  BY AnswerInvPreserved
<1> QED BY <1>1, AnswerInvInit, TypeCorrect, BoundaryLoopInv, PTL DEF Spec

(***************************************************************************)
(* Every response is explained by what happened to its call, whatever      *)
(* callers do to their requests.                                           *)
(***************************************************************************)
THEOREM ResponsesAreExplained == Spec => []ResponseIsExplained
<1>1. AnswerInv => ResponseIsExplained
  BY DEF AnswerInv, BoundaryInvOf, ResponseIsExplained
<1> QED BY <1>1, AnswerInvariant, PTL

(***************************************************************************)
(* Fail closed: a grant is the engine's own, unanimous and credited to a   *)
(* rule that allowed.                                                      *)
(***************************************************************************)
THEOREM BoundaryFailsClosed == Spec => []FailClosed
<1>1. TypeOK /\ LoopInv /\ AnswerInv => FailClosed
  <2> SUFFICES ASSUME TypeOK, LoopInv, AnswerInv, NEW c \in Calls,
                      Answered(c), response[c].outcome = "allow"
               PROVE  /\ engine[c] = "returned" /\ ~decision[c].isError
                      /\ Answers(c) \subseteq {"allow", "not_applicable"}
                      /\ response[c].failure = "none"
                      /\ response[c].by \in Rules /\ verdict[c][response[c].by].answer = "allow"
    BY DEF FailClosed
  <2>1. EngineTypeOK /\ response[c] \in Response
    BY DEF TypeOK
  <2>2. /\ response[c].failure = "none" /\ engine[c] = "returned" /\ ~decision[c].isError
        /\ decision[c].outcome = "allow" /\ response[c].by = decision[c].rule
    BY <2>1 DEF AnswerInv, BoundaryInvOf, Explained, Response, Failures
  <2>3. Answers(c) \subseteq {"allow", "not_applicable"}
    BY <2>1, <2>2, GrantsUnanimously DEF GrantIsUnanimous, Grants
  <2>4. decision[c].rule \in Rules /\ verdict[c][decision[c].rule].answer = "allow"
    BY <2>1, <2>2, CreditIsTheFirst DEF CreditIsFirst
  <2> QED BY <2>2, <2>3, <2>4
<1> QED BY <1>1, TypeCorrect, BoundaryLoopInv, AnswerInvariant, PTL

(***************************************************************************)
(* A response never changes and is never taken back, whatever the audit    *)
(* write does.                                                             *)
(***************************************************************************)
THEOREM DecisionsOutliveAudit == Spec => DecisionOutlivesAudit
<1>1. TypeOK /\ [Next]_vars =>
        [\A c \in Calls : Answered(c) => response'[c] = response[c] /\ Answered(c)']_vars
  <2> SUFFICES ASSUME TypeOK, Next, NEW d \in Calls, Answered(d)
               PROVE  response'[d] = response[d] /\ Answered(d)'
    OBVIOUS
  <2>1. ASSUME NEW c \in Calls, CallStep(c) \/ CallerStep(c)
        PROVE  response'[d] = response[d] /\ Answered(d)'
    <3>1. CASE c # d
      BY <2>1, <3>1, OthersStanding DEF Standing, Answered
    <3>2. CASE c = d
      BY <2>1, <3>2 DEF TypeOK, Answered, CallStep, CallerStep, BuildSubject, SubjectFails,
         CallEngine, RunEngine, EngineRaised, EngineReturned, FallBack, WriteAudit, Return,
         Submit, SubmitMalformed, Mutate, boundaryVars
    <3> QED BY <3>1, <3>2
  <2> QED BY <2>1 DEF Next
<1> QED BY <1>1, TypeCorrect, PTL DEF Spec, DecisionOutlivesAudit
-----------------------------------------------------------------------------
\* What LogInvOf(d) reads is unchanged.
LogStanding(d) ==
  /\ Standing(d)
  /\ form'[d] = form[d] /\ request'[d] = request[d] /\ gap'[d] = gap[d]
  /\ subject'[d] = subject[d] /\ supplied'[d] = supplied[d] /\ asked'[d] = asked[d]
  /\ RecordsOf(d)' = RecordsOf(d)
  /\ \A i \in RecordsOf(d) : auditLog'[i] = auditLog[i]

\* An appended event is the one new record, and of no call but its own.
LEMMA AppendedRecord ==
  ASSUME auditLog \in Seq(Event), NEW e \in Event, auditLog' = Append(auditLog, e)
  PROVE  /\ RecordsOf(e.call)' = RecordsOf(e.call) \cup {Len(auditLog) + 1}
         /\ Len(auditLog) + 1 \in DOMAIN auditLog' /\ auditLog'[Len(auditLog) + 1] = e
         /\ \A i \in DOMAIN auditLog : auditLog'[i] = auditLog[i]
         /\ \A d \in Calls \ {e.call} : RecordsOf(d)' = RecordsOf(d)
<1>1. /\ Len(auditLog) \in Nat /\ DOMAIN auditLog = 1 .. Len(auditLog)
      /\ DOMAIN auditLog' = 1 .. Len(auditLog) + 1
      /\ auditLog'[Len(auditLog) + 1] = e
      /\ \A i \in 1 .. Len(auditLog) : auditLog'[i] = auditLog[i]
  OBVIOUS
<1>2. 1 .. Len(auditLog) + 1 = (1 .. Len(auditLog)) \cup {Len(auditLog) + 1}
  BY <1>1
<1>3. RecordsOf(e.call)' = RecordsOf(e.call) \cup {Len(auditLog) + 1}
  BY <1>1, <1>2 DEF RecordsOf
<1>4. \A d \in Calls \ {e.call} : RecordsOf(d)' = RecordsOf(d)
  BY <1>1, <1>2 DEF RecordsOf
<1> QED BY <1>1, <1>2, <1>3, <1>4

\* An event is about the call it was built for.
LEMMA EventOfItsCall ==
  ASSUME NEW c \in Calls
  PROVE  AuditEvent(c).call = c
BY DEF AuditEvent

\* A call of which nothing changes would be given the same event.
LEMMA SameEvent ==
  ASSUME NEW d \in Calls, engine'[d] = engine[d], decision'[d] = decision[d],
         response'[d] = response[d], request'[d] = request[d], supplied'[d] = supplied[d]
  PROVE  AuditEvent(d)' = AuditEvent(d)
<1>1. Trace(d)' = Trace(d)
  BY DEF Trace, HasTrace, NoTrace
<1>2. Matched(Trace(d))' = Matched(Trace(d))
  BY <1>1 DEF Matched
<1> QED BY <1>1, <1>2 DEF AuditEvent, AuditOutcome

\* A call of which nothing changes keeps its invariant.
LEMMA StandingKeepsLogInv ==
  ASSUME NEW d \in Calls, LogInvOf(d), LogStanding(d)
  PROVE  LogInvOf(d)'
<1>1. AuditEvent(d)' = AuditEvent(d)
  BY SameEvent DEF LogStanding, Standing, Untouched
<1>2. /\ phase'[d] = phase[d] /\ engine'[d] = engine[d] /\ response'[d] = response[d]
      /\ MayChange(d)' = MayChange(d) /\ SubjectOf(d)' = SubjectOf(d)
  BY DEF LogStanding, Standing, Untouched, MayChange, SubjectOf
<1>3. RequestKept(d)'
  BY <1>2 DEF LogInvOf, RequestKept, LogStanding, Accepted, Answered
<1>4. LossExplained(d)'
  BY <1>1, <1>2 DEF LogInvOf, LossExplained, LogStanding, EventConstructible
<1>5. RecordKept(d)'
  <2>1. \A i \in RecordsOf(d)' : UpToDate(d, auditLog[i])'
    BY <1>1, <1>2 DEF LogInvOf, RecordKept, LogStanding, UpToDate
  <2>2. IF Settled(d)' /\ gap'[d] = "none" THEN \E i \in DOMAIN auditLog' : RecordsOf(d)' = {i}
                                           ELSE RecordsOf(d)' = {}
    BY <1>2 DEF LogInvOf, RecordKept, LogStanding, Settled, RecordsOf
  <2> QED BY <2>1, <2>2 DEF RecordKept
<1> QED BY <1>3, <1>4, <1>5 DEF LogInvOf

\* A step of one call leaves every other call and its records standing.
LEMMA OthersLogStanding ==
  ASSUME TypeOK, NEW c \in Calls, NEW d \in Calls, c # d, CallStep(c) \/ CallerStep(c)
  PROVE  LogStanding(d)
<1>1. /\ form'[d] = form[d] /\ request'[d] = request[d] /\ gap'[d] = gap[d]
      /\ subject'[d] = subject[d] /\ supplied'[d] = supplied[d] /\ asked'[d] = asked[d]
  BY DEF TypeOK, CallStep, CallerStep, BuildSubject, SubjectFails, CallEngine, RunEngine,
     EngineRaised, EngineReturned, FallBack, WriteAudit, Return, Submit, SubmitMalformed, Mutate,
     Respond, boundaryVars
<1>2. RecordsOf(d)' = RecordsOf(d) /\ \A i \in RecordsOf(d) : auditLog'[i] = auditLog[i]
  <2>1. CASE auditLog' = auditLog
    BY <2>1 DEF RecordsOf
  <2>2. CASE auditLog' = Append(auditLog, AuditEvent(c))
    BY <2>2, EventType, AppendedRecord, EventOfItsCall DEF TypeOK, RecordsOf
  <2> QED
    BY <2>1, <2>2 DEF CallStep, CallerStep, BuildSubject, SubjectFails, CallEngine, RunEngine,
       EngineRaised, EngineReturned, FallBack, WriteAudit, Return, Submit, SubmitMalformed,
       Mutate, Respond, boundaryVars
<1> QED BY <1>1, <1>2, OthersStanding DEF LogStanding
-----------------------------------------------------------------------------
(***************************************************************************)
(* A step of a call's own thread.                                          *)
(***************************************************************************)
\* evaluate never assigns to its request or its arguments.
LEMMA ArgumentsStay ==
  ASSUME NEW c \in Calls, CallStep(c)
  PROVE  /\ form' = form /\ request' = request /\ supplied' = supplied
         /\ MayChange(c)' = MayChange(c) /\ SubjectOf(c)' = SubjectOf(c)
<1>1. form' = form /\ request' = request /\ supplied' = supplied
  BY DEF CallStep, BuildSubject, SubjectFails, CallEngine, RunEngine, EngineRaised,
     EngineReturned, FallBack, WriteAudit, Return, Respond, boundaryVars
<1> QED BY <1>1 DEF MayChange, SubjectOf

\* Until its audit write a call has lost nothing and is not in the log.
LEMMA NothingYet ==
  ASSUME NEW c \in Calls, LogInvOf(c),
         phase[c] \in {"idle", "received", "ready", "evaluating", "failing", "auditing"}
  PROVE  gap[c] = "none" /\ RecordsOf(c) = {}
BY DEF LogInvOf, LossExplained, RecordKept, Settled

\* A request that nobody can change stays valid, and so do its copies.
LEMMA RequestKeptStep ==
  ASSUME TypeOK, NEW c \in Calls, CallStep(c), BoundaryInvOf(c), LogInvOf(c)
  PROVE  RequestKept(c)'
<1>0. /\ engine \in [Calls -> {"idle", "running", "returned", "escaped"}]
      /\ phase \in [Calls -> Phases] /\ response \in [Calls -> Response]
      /\ subject \in [Calls -> Names \cup {Absent}] /\ asked \in [Calls -> Names]
      /\ gap \in [Calls -> {"none", "writer", "event", "unauditable"}]
  BY DEF TypeOK, EngineTypeOK
<1>1. /\ request'[c] = request[c] /\ MayChange(c)' = MayChange(c)
      /\ SubjectOf(c)' = SubjectOf(c)
  BY ArgumentsStay
<1> SUFFICES ASSUME Accepted(c)', ~MayChange(c)
             PROVE  /\ request[c] \in ValidRequest
                    /\ (phase'[c] = "ready" \/ engine'[c] # "idle") => subject'[c] = SubjectOf(c)
                    /\ engine'[c] # "idle" => asked'[c] = request[c].action
                    /\ Answered(c)' => response'[c].id = request[c].id
  BY <1>1 DEF RequestKept
<1>2. phase[c] # "idle" /\ gap[c] # "unauditable"
  BY <1>0 DEF LogInvOf, LossExplained, CallStep, BuildSubject, SubjectFails, CallEngine, RunEngine,
     EngineRaised, EngineReturned, FallBack, WriteAudit, Return
<1>3. /\ request[c] \in ValidRequest
      /\ (phase[c] = "ready" \/ engine[c] # "idle") => subject[c] = SubjectOf(c)
      /\ engine[c] # "idle" => asked[c] = request[c].action
      /\ Answered(c) => response[c].id = request[c].id
  BY <1>2 DEF LogInvOf, RequestKept, Accepted
<1>4. CASE BuildSubject(c)
  <2>1. /\ subject'[c] = SubjectOf(c) /\ engine'[c] = "idle" /\ phase'[c] = "ready"
    BY <1>0, <1>4 DEF BuildSubject, BoundaryInvOf, SubjectOf, engineVars
  <2> QED BY <1>3, <2>1 DEF Answered
<1>5. CASE SubjectFails(c)
  BY <1>0, <1>3, <1>5 DEF SubjectFails, Respond, Denial, BoundaryInvOf, engineVars, Answered
<1>6. CASE \E v \in [Rules -> Verdicts] : CallEngine(c, v)
  BY <1>0, <1>3, <1>6 DEF CallEngine, Answered
<1>7. CASE RunEngine(c)
  BY <1>3, <1>7 DEF RunEngine, boundaryVars, BoundaryInvOf, Answered
<1>8. CASE EngineRaised(c)
  BY <1>0, <1>3, <1>8 DEF EngineRaised, Respond, Denial, engineVars, Answered
<1>9. CASE EngineReturned(c)
  BY <1>0, <1>3, <1>9 DEF EngineReturned, Respond, Conclusion, engineVars, Answered
<1>10. CASE FallBack(c)
  BY <1>0, <1>3, <1>10 DEF FallBack, Denial, engineVars, Answered
<1>11. CASE WriteAudit(c) \/ Return(c)
  BY <1>0, <1>3, <1>11 DEF WriteAudit, Return, engineVars, Answered
<1> QED BY <1>4, <1>5, <1>6, <1>7, <1>8, <1>9, <1>10, <1>11 DEF CallStep

\* A step before the audit write, after which the call is still unsettled,
\* writes and loses nothing.
LEMMA UnsettledStep ==
  ASSUME NEW c \in Calls, LogInvOf(c), ~Settled(c),
         phase'[c] \in {"received", "ready", "evaluating", "failing", "auditing"},
         phase[c] \in {"idle", "received", "ready", "evaluating", "failing", "auditing"},
         gap' = gap, auditLog' = auditLog
  PROVE  LossExplained(c)' /\ RecordKept(c)'
<1>1. gap[c] = "none" /\ RecordsOf(c) = {} /\ RecordsOf(c)' = {}
  BY NothingYet DEF RecordsOf
<1>2. LossExplained(c)'
  BY <1>1 DEF LossExplained
<1>3. RecordKept(c)'
  BY <1>1 DEF RecordKept, Settled
<1> QED BY <1>2, <1>3

\* The outer handler finds the id of an untouched request and does not raise.
LEMMA FallBackStep ==
  ASSUME TypeOK, NEW c \in Calls, FallBack(c), LogInvOf(c)
  PROVE  LossExplained(c)' /\ RecordKept(c)'
<1>1. phase \in [Calls -> Phases] /\ gap' = gap /\ auditLog' = auditLog /\ phase[c] = "failing"
  BY DEF TypeOK, FallBack
<1>2. CASE phase'[c] = "auditing"
  BY <1>1, <1>2, UnsettledStep DEF Settled
<1>3. CASE phase'[c] # "auditing"
  <2>1. phase'[c] = "raised" /\ request[c].id = Blank
    BY <1>1, <1>3 DEF FallBack, Constructible, Denial
  <2>2. gap[c] = "none" /\ RecordsOf(c) = {} /\ RecordsOf(c)' = {}
    BY <1>1, NothingYet DEF RecordsOf
  <2>3. MayChange(c)
    <3>1. Accepted(c)
      BY <1>1, <2>2 DEF Accepted
    <3>2. request[c] \notin ValidRequest
      BY <2>1, SentinelsAssumption DEF ValidRequest
    <3> QED BY <3>1, <3>2 DEF LogInvOf, RequestKept
  <2>4. MayChange(c)' = MayChange(c)
    BY DEF FallBack, MayChange
  <2> QED BY <1>1, <2>1, <2>2, <2>3, <2>4 DEF LossExplained, RecordKept, Settled
<1> QED BY <1>2, <1>3

\* The audit write: one record of what was answered, or a reason why not.
LEMMA WriteAuditStep ==
  ASSUME TypeOK, NEW c \in Calls, WriteAudit(c), LogInvOf(c)
  PROVE  LossExplained(c)' /\ RecordKept(c)'
<1>1. /\ gap \in [Calls -> {"none", "writer", "event", "unauditable"}]
      /\ phase \in [Calls -> Phases] /\ auditLog \in Seq(Event)
      /\ phase[c] = "auditing" /\ phase'[c] = "audited"
      /\ AuditEvent(c) \in Event /\ AuditEvent(c).call = c
  BY EventType, EventOfItsCall DEF TypeOK, WriteAudit
<1>2. gap[c] = "none" /\ RecordsOf(c) = {}
  BY <1>1, NothingYet
<1>3. AuditEvent(c)' = AuditEvent(c) /\ MayChange(c)' = MayChange(c)
  <2>1. /\ engine' = engine /\ decision' = decision /\ response' = response
        /\ request' = request /\ supplied' = supplied /\ form' = form
    BY DEF WriteAudit, engineVars
  <2> QED BY <2>1, SameEvent DEF MayChange
<1>4. CASE auditLog' = Append(auditLog, AuditEvent(c)) /\ gap' = gap
  <2>1. PICK n \in DOMAIN auditLog' : RecordsOf(c)' = {n} /\ auditLog'[n] = AuditEvent(c)
    BY <1>1, <1>2, <1>4, AppendedRecord
  <2>2. UpToDate(c, auditLog[n])'
    BY <1>3, <2>1 DEF UpToDate
  <2>3. RecordKept(c)'
    BY <1>1, <1>2, <1>4, <2>1, <2>2 DEF RecordKept, Settled
  <2>4. LossExplained(c)'
    BY <1>1, <1>2, <1>4 DEF LossExplained
  <2> QED BY <2>3, <2>4
<1>5. CASE auditLog' = auditLog /\ gap' = [gap EXCEPT ![c] = "writer"]
  BY <1>1, <1>2, <1>5 DEF LossExplained, RecordKept, Settled, RecordsOf
<1>6. CASE /\ auditLog' = auditLog /\ gap' = [gap EXCEPT ![c] = "event"]
           /\ ~EventConstructible(AuditEvent(c))
  <2>1. ~EventConstructible(AuditEvent(c))'
    BY <1>3, <1>6 DEF EventConstructible
  <2>2. gap'[c] = "event" /\ RecordsOf(c)' = {}
    BY <1>1, <1>2, <1>6 DEF RecordsOf
  <2> QED BY <1>1, <2>1, <2>2 DEF LossExplained, RecordKept, Settled
<1> QED BY <1>4, <1>5, <1>6 DEF WriteAudit

\* The return hands out what is settled.
LEMMA ReturnStep ==
  ASSUME TypeOK, NEW c \in Calls, Return(c), LogInvOf(c)
  PROVE  LossExplained(c)' /\ RecordKept(c)'
<1>1. /\ phase \in [Calls -> Phases] /\ phase[c] = "audited" /\ phase'[c] = "returned"
      /\ gap' = gap /\ auditLog' = auditLog /\ engine' = engine
      /\ decision' = decision /\ response' = response /\ request' = request
      /\ supplied' = supplied /\ form' = form
  BY DEF TypeOK, Return, engineVars
<1>2. /\ AuditEvent(c)' = AuditEvent(c) /\ MayChange(c)' = MayChange(c)
      /\ RecordsOf(c)' = RecordsOf(c)
  BY <1>1, SameEvent DEF MayChange, RecordsOf
<1>3. LossExplained(c)'
  BY <1>1, <1>2 DEF LogInvOf, LossExplained, EventConstructible
<1>4. \A i \in RecordsOf(c)' : UpToDate(c, auditLog[i])'
  BY <1>1, <1>2 DEF LogInvOf, RecordKept, UpToDate
<1>5. RecordKept(c)'
  BY <1>1, <1>2, <1>4 DEF LogInvOf, RecordKept, Settled
<1> QED BY <1>3, <1>5

\* Every step of c's own thread keeps the log's invariant of c.
LEMMA CallStepLogInv ==
  ASSUME TypeOK, NEW c \in Calls, CallStep(c), BoundaryInvOf(c), LogInvOf(c)
  PROVE  LogInvOf(c)'
<1>1. RequestKept(c)'
  BY RequestKeptStep
<1>2. phase \in [Calls -> Phases]
  BY DEF TypeOK
<1>3. CASE \/ BuildSubject(c) \/ SubjectFails(c) \/ RunEngine(c)
           \/ EngineRaised(c) \/ EngineReturned(c)
           \/ \E v \in [Rules -> Verdicts] : CallEngine(c, v)
  <2>1. /\ phase[c] \in {"received", "ready", "evaluating"}
        /\ phase'[c] \in {"ready", "evaluating", "failing", "auditing"}
        /\ gap' = gap /\ auditLog' = auditLog
    BY <1>2, <1>3 DEF BuildSubject, SubjectFails, RunEngine, EngineRaised, EngineReturned,
       CallEngine, Respond, boundaryVars
  <2> QED BY <1>1, <2>1, UnsettledStep DEF LogInvOf, Settled
<1>4. CASE FallBack(c) \/ WriteAudit(c) \/ Return(c)
  BY <1>1, <1>4, FallBackStep, WriteAuditStep, ReturnStep DEF LogInvOf
<1> QED BY <1>3, <1>4 DEF CallStep
-----------------------------------------------------------------------------
(***************************************************************************)
(* A step of a caller.                                                     *)
(***************************************************************************)
\* An accepted request is valid, and nothing has been made of it yet.
LEMMA SubmitStep ==
  ASSUME TypeOK, NEW c \in Calls, NEW f \in {"object", "dict"}, NEW s \in Submissions,
         Submit(c, f, s), BoundaryInvOf(c), LogInvOf(c)
  PROVE  LogInvOf(c)'
<1>1. /\ phase[c] = "idle" /\ phase'[c] = "received" /\ gap' = gap /\ auditLog' = auditLog
      /\ request'[c] = s.request /\ engine'[c] = "idle"
  BY DEF TypeOK, Submit, BoundaryInvOf, engineVars
<1>2. s.request \in ValidRequest
  BY SubmissionsAssumption
<1>3. RequestKept(c)'
  BY <1>1, <1>2 DEF RequestKept, Answered
<1> QED BY <1>1, <1>3, UnsettledStep DEF LogInvOf, Settled

\* Input that is not a request ends at once, without a record.
LEMMA SubmitMalformedStep ==
  ASSUME TypeOK, NEW c \in Calls, NEW raw \in Names \cup {Absent}, SubmitMalformed(c, raw),
         BoundaryInvOf(c), LogInvOf(c)
  PROVE  LogInvOf(c)'
<1>1. /\ phase[c] = "idle" /\ phase'[c] \in {"returned", "raised"} /\ engine'[c] = "idle"
      /\ gap'[c] = "unauditable" /\ auditLog' = auditLog
  BY DEF TypeOK, SubmitMalformed, BoundaryInvOf, engineVars
<1>2. RecordsOf(c)' = {}
  BY <1>1, NothingYet DEF RecordsOf
<1> QED BY <1>1, <1>2 DEF LogInvOf, RequestKept, Accepted, LossExplained, RecordKept, Settled

\* An assignment to the request shows in no part of a record but the three
\* that are read from it again.
LEMMA MutateStep ==
  ASSUME TypeOK, NEW c \in Calls, NEW field \in {"id", "subject", "action"},
         NEW value \in Names, Mutate(c, field, value), LogInvOf(c)
  PROVE  LogInvOf(c)'
<1>1. /\ phase' = phase /\ engine' = engine /\ decision' = decision /\ response' = response
      /\ supplied' = supplied /\ form' = form /\ gap' = gap /\ auditLog' = auditLog
      /\ MayChange(c)
  BY DEF Mutate, engineVars
<1>2. MayChange(c)' /\ RecordsOf(c)' = RecordsOf(c) /\ Settled(c)' = Settled(c)
  BY <1>1 DEF MayChange, RecordsOf, Settled
<1>3. RequestKept(c)' /\ LossExplained(c)'
  BY <1>1, <1>2 DEF LogInvOf, RequestKept, LossExplained
<1>4. Trace(c)' = Trace(c) /\ Matched(Trace(c))' = Matched(Trace(c))
  BY <1>1 DEF Trace, HasTrace, NoTrace, Matched
<1>5. ASSUME NEW e, UpToDate(c, e)
      PROVE  UpToDate(c, e)'
  <2>1. \A f \in {"call", "outcome", "by", "text", "failure", "matched", "trace"} :
          AuditEvent(c)'[f] = AuditEvent(c)[f]
    BY <1>1, <1>4 DEF AuditEvent, AuditOutcome
  <2> QED BY <1>2, <1>5, <2>1 DEF UpToDate
<1>6. \A i \in RecordsOf(c)' : UpToDate(c, auditLog[i])'
  BY <1>1, <1>2, <1>5 DEF LogInvOf, RecordKept
<1>7. RecordKept(c)'
  BY <1>1, <1>2, <1>6 DEF LogInvOf, RecordKept
<1> QED BY <1>3, <1>7 DEF LogInvOf

\* Every step keeps the log's invariant of every call.
LEMMA LogInvPreserved ==
  ASSUME TypeOK, AnswerInv, LogInv, [Next]_vars
  PROVE  LogInv'
<1> SUFFICES ASSUME NEW d \in Calls
             PROVE  LogInvOf(d)'
  BY DEF LogInv
<1>0. LogInvOf(d) /\ BoundaryInvOf(d)
  BY DEF LogInv, AnswerInv
<1>1. CASE UNCHANGED vars
  <2>1. LogStanding(d)
    BY <1>1 DEF vars, engineVars, boundaryVars, LogStanding, Standing, Untouched, RecordsOf
  <2> QED BY <1>0, <2>1, StandingKeepsLogInv
<1>2. ASSUME NEW c \in Calls, CallStep(c) \/ CallerStep(c)
      PROVE  LogInvOf(d)'
  <2>1. CASE d # c
    BY <1>0, <1>2, <2>1, OthersLogStanding, StandingKeepsLogInv
  <2>2. CASE d = c /\ CallStep(c)
    BY <1>0, <2>2, CallStepLogInv
  <2>3. CASE d = c /\ CallerStep(c)
    BY <1>0, <2>3, SubmitStep, SubmitMalformedStep, MutateStep DEF CallerStep
  <2> QED BY <1>2, <2>1, <2>2, <2>3
<1> QED BY <1>1, <1>2 DEF Next

\* The log's invariant holds initially.
LEMMA LogInvInit == Init => LogInv
<1> SUFFICES ASSUME Init, NEW c \in Calls
             PROVE  LogInvOf(c)
  BY DEF LogInv
<1>1. /\ phase[c] = "idle" /\ gap[c] = "none" /\ auditLog = <<>>
  BY DEF Init
<1>2. RecordsOf(c) = {}
  BY <1>1 DEF RecordsOf
<1> QED BY <1>1, <1>2 DEF LogInvOf, RequestKept, Accepted, LossExplained, RecordKept, Settled

\* The log's invariant holds of every reachable state.
LEMMA LogInvariant == Spec => []LogInv
<1>1. TypeOK /\ AnswerInv /\ LogInv /\ [Next]_vars => LogInv'
  BY LogInvPreserved
<1> QED BY <1>1, LogInvInit, TypeCorrect, AnswerInvariant, PTL DEF Spec

(***************************************************************************)
(* The boundary's invariant holds of every reachable state: every answer   *)
(* rests on where the engine was left, and the log keeps the answers.      *)
(***************************************************************************)
THEOREM BoundaryInvariant == Spec => []BoundaryInv
BY AnswerInvariant, LogInvariant, PTL DEF BoundaryInv
-----------------------------------------------------------------------------
(***************************************************************************)
(* What the invariant says of a record, one lemma per property.            *)
(***************************************************************************)
\* A record is up to date with its call, which is settled.
LEMMA RecordOfSettledCall ==
  ASSUME TypeOK, AnswerInv, LogInv, NEW i \in DOMAIN auditLog
  PROVE  /\ auditLog[i].call \in Calls
         /\ UpToDate(auditLog[i].call, auditLog[i])
         /\ Settled(auditLog[i].call) /\ gap[auditLog[i].call] = "none"
         /\ engine[auditLog[i].call] # "running"
<1> DEFINE c == auditLog[i].call
<1>1. c \in Calls
  <2>1. auditLog[i] \in Event
    BY DEF TypeOK
  <2> QED BY <2>1 DEF Event
<1>2. i \in RecordsOf(c)
  BY DEF RecordsOf
<1> HIDE DEF c
<1>3. RecordKept(c) /\ BoundaryInvOf(c)
  BY <1>1 DEF LogInv, LogInvOf, AnswerInv
<1>4. Settled(c) /\ gap[c] = "none"
  BY <1>2, <1>3 DEF RecordKept
<1>5. UpToDate(c, auditLog[i]) /\ engine[c] # "running"
  BY <1>2, <1>3, <1>4 DEF RecordKept, BoundaryInvOf, Settled
<1> QED BY <1>1, <1>4, <1>5 DEF c

\* A walk over the first n rules asked them all, or left some out.
LEMMA PrefixOfRules ==
  ASSUME NEW n \in Nat, n <= NumRules
  PROVE  1 .. n \subseteq Rules /\ ((Rules \ (1 .. n) # {}) <=> (n < NumRules))
<1> USE NumRulesAssumption DEF Rules
<1>1. 1 .. n \subseteq Rules
  OBVIOUS
<1>2. ASSUME n < NumRules
      PROVE  Rules \ (1 .. n) # {}
  <2>1. NumRules \in Rules /\ NumRules \notin 1 .. n
    BY <1>2
  <2> QED BY <2>1
<1>3. ASSUME n = NumRules
      PROVE  Rules \ (1 .. n) = {}
  BY <1>3
<1> QED BY <1>1, <1>2, <1>3

\* The trace that is written is the engine's walk, and what is said of it is so.
LEMMA TraceTellsTheWalk ==
  ASSUME TypeOK, LoopInv, NEW c \in Calls
  PROVE  LET t == Trace(c)
             walked == 1 .. Len(t.entries)
         IN /\ engine[c] = "returned" => t.entries = decision[c].evaluations
            /\ engine[c] # "returned" => t = NoTrace
            /\ walked \subseteq Rules
            /\ walked # {} => (t.shortCircuited <=> (Rules \ walked # {}))
            /\ \A k \in walked : Reports(c, k, t.entries[k])
            /\ Matched(t) = {k \in walked : verdict[c][k].answer # "not_applicable"}
<1> USE NumRulesAssumption
<1>1. EngineTypeOK /\ decision[c] \in Decision
  BY DEF TypeOK, EngineTypeOK
<1>2. CASE ~HasTrace(c)
  <2>1. Trace(c) = NoTrace /\ NoTrace.entries = <<>> /\ Len(<<>>) = 0 /\ DOMAIN <<>> = {}
    BY <1>2 DEF Trace, NoTrace
  <2>2. engine[c] = "returned" => decision[c].evaluations = <<>>
    BY <1>2 DEF HasTrace
  <2>3. Matched(NoTrace) = {}
    BY <2>1 DEF Matched
  <2> QED BY <2>1, <2>2, <2>3
<1>3. CASE HasTrace(c)
  <2> DEFINE walk == decision[c].evaluations
             n == Len(walk)
  <2>1. /\ engine[c] = "returned" /\ walk # <<>> /\ walk \in Seq(Entry)
        /\ Trace(c).entries = walk
        /\ Trace(c).shortCircuited <=> (decision[c].outcome = "deny" /\ n < NumRules)
    BY <1>1, <1>3 DEF HasTrace, Trace, Decision
  <2>2. /\ \A k \in 1 .. n : Reports(c, k, walk[k])
        /\ IF decision[c].outcome = "deny" THEN n > 0 /\ decision[c].rule = n ELSE n = NumRules
    BY <1>1, <2>1, WalkIsTheTrace DEF TraceIsTheWalk
  <2>3. n \in Nat /\ n > 0 /\ n <= NumRules /\ DOMAIN walk = 1 .. n
    BY <1>1, <2>1, <2>2 DEF Decision, Rules
  <2> HIDE DEF walk
  <2>4. 1 .. n \subseteq Rules /\ ((Rules \ (1 .. n) # {}) <=> (n < NumRules))
    BY <2>3, PrefixOfRules
  <2>5. Trace(c).shortCircuited <=> (Rules \ (1 .. n) # {})
    <3>1. decision[c].outcome # "deny" => n = NumRules
      BY <2>2
    <3>2. decision[c].outcome # "deny" => ~(n < NumRules)
      BY <3>1
    <3> HIDE DEF n
    <3> QED BY <2>1, <2>4, <3>2
  <2>6. Matched(Trace(c)) = {walk[k].rule : k \in {j \in 1 .. n : walk[j].outcome # "not_applicable"}}
    BY <2>1, <2>3 DEF Matched
  <2>7. \A k \in 1 .. n :
          /\ walk[k].rule = k
          /\ walk[k].outcome # "not_applicable" <=> verdict[c][k].answer # "not_applicable"
    BY <2>2 DEF Reports, Said
  <2>8. Matched(Trace(c)) = {k \in 1 .. n : verdict[c][k].answer # "not_applicable"}
    <3> HIDE DEF n
    <3>1. ASSUME NEW k \in Matched(Trace(c))
          PROVE  k \in 1 .. n /\ verdict[c][k].answer # "not_applicable"
      <4>1. PICK j \in 1 .. n : walk[j].rule = k /\ walk[j].outcome # "not_applicable"
        BY <2>6
      <4>2. walk[j].rule = j /\ verdict[c][j].answer # "not_applicable"
        BY <2>7, <4>1
      <4>3. j = k
        BY <4>1, <4>2
      <4> QED BY <4>2, <4>3
    <3>2. ASSUME NEW k \in 1 .. n, verdict[c][k].answer # "not_applicable"
          PROVE  k \in Matched(Trace(c))
      <4>1. walk[k].rule = k /\ walk[k].outcome # "not_applicable"
        BY <2>7, <3>2
      <4> QED BY <2>6, <4>1
    <3> QED BY <3>1, <3>2
  <2> QED BY <2>1, <2>2, <2>4, <2>5, <2>8 DEF walk
<1> QED BY <1>2, <1>3

\* What a record quotes from the response.
LEMMA RecordQuotesResponse ==
  ASSUME TypeOK, AnswerInv, NEW c \in Calls, Settled(c)
  PROVE  LET o == AuditOutcome(response[c])
         IN /\ (o = "allowed") <=> (response[c].outcome = "allow")
            /\ (o = "error") <=> (response[c].failure \in {"policy_error", "internal_error"})
<1>1. response[c].failure # "none" => response[c].outcome = "deny"
  BY DEF AnswerInv, BoundaryInvOf, Answered, Settled, Explained
<1> QED BY <1>1 DEF AuditOutcome

\* A record tells its call's story.
LEMMA RecordsTell ==
  ASSUME TypeOK, LoopInv, AnswerInv, LogInv
  PROVE  RecordTellsTheCall
<1> SUFFICES ASSUME NEW i \in DOMAIN auditLog
             PROVE  LET e == auditLog[i]
                        c == e.call
                        r == response[c]
                        Opinion(k) == verdict[c][k].answer # "not_applicable"
                        walked == 1 .. Len(e.trace.entries)
                    IN /\ e.by = r.by /\ e.text = r.text /\ e.failure = r.failure
                       /\ (e.outcome = "allowed") <=> (r.outcome = "allow")
                       /\ (e.outcome = "error") <=> (r.failure \in {"policy_error", "internal_error"})
                       /\ (engine[c] = "returned") => e.trace.entries = decision[c].evaluations
                       /\ (engine[c] # "returned") => e.trace = NoTrace
                       /\ walked # {} => (e.trace.shortCircuited <=> (Rules \ walked # {}))
                       /\ e.matched = {k \in walked : Opinion(k)}
  BY DEF RecordTellsTheCall
<1> DEFINE e == auditLog[i]
           c == e.call
<1>1. c \in Calls /\ UpToDate(c, e) /\ Settled(c)
  BY RecordOfSettledCall
<1> HIDE DEF c
<1>2. /\ e.by = response[c].by /\ e.text = response[c].text /\ e.failure = response[c].failure
      /\ e.outcome = AuditOutcome(response[c])
      /\ e.matched = Matched(Trace(c)) /\ e.trace = Trace(c)
  BY <1>1 DEF UpToDate, AuditEvent
<1> HIDE DEF e
<1>3. /\ (e.outcome = "allowed") <=> (response[c].outcome = "allow")
      /\ (e.outcome = "error") <=> (response[c].failure \in {"policy_error", "internal_error"})
  BY <1>1, <1>2, RecordQuotesResponse
<1>4. LET walked == 1 .. Len(e.trace.entries)
      IN /\ (engine[c] = "returned") => e.trace.entries = decision[c].evaluations
         /\ (engine[c] # "returned") => e.trace = NoTrace
         /\ walked # {} => (e.trace.shortCircuited <=> (Rules \ walked # {}))
         /\ e.matched = {k \in walked : verdict[c][k].answer # "not_applicable"}
  BY <1>1, <1>2, TraceTellsTheWalk
<1> QED BY <1>2, <1>3, <1>4 DEF c, e

\* A record names what the rules were asked about.
LEMMA RecordsName ==
  ASSUME TypeOK, AnswerInv, LogInv
  PROVE  RecordNamesWhatWasAsked
<1> SUFFICES ASSUME NEW i \in DOMAIN auditLog, ~MayChange(auditLog[i].call)
             PROVE  LET e == auditLog[i]
                        c == e.call
                    IN /\ e.id = response[c].id
                       /\ engine[c] # "idle" => e.subject = subject[c] /\ e.action = asked[c]
  BY DEF RecordNamesWhatWasAsked
<1> DEFINE c == auditLog[i].call
<1>1. c \in Calls /\ UpToDate(c, auditLog[i]) /\ Settled(c) /\ gap[c] = "none"
  BY RecordOfSettledCall
<1>2. auditLog[i] = AuditEvent(c)
  BY <1>1 DEF UpToDate
<1> HIDE DEF c
<1>3. Accepted(c) /\ Answered(c) /\ RequestKept(c) /\ ~MayChange(c)
  BY <1>1 DEF Accepted, Answered, Settled, LogInv, LogInvOf, c
<1>4. /\ AuditEvent(c).id = response[c].id
      /\ engine[c] # "idle" => AuditEvent(c).subject = subject[c] /\ AuditEvent(c).action = asked[c]
  BY <1>3 DEF RequestKept, AuditEvent, SubjectOf
<1> QED BY <1>2, <1>4 DEF c

\* A call has one record or a reason for having none.
LEMMA RecordsAccounted ==
  ASSUME TypeOK, LoopInv, AnswerInv, LogInv
  PROVE  AuditAccounting
<1> SUFFICES ASSUME NEW c \in Calls
             PROVE  /\ Cardinality(RecordsOf(c)) =
                          IF phase[c] \in {"audited", "returned"} /\ gap[c] = "none" THEN 1 ELSE 0
                    /\ gap[c] = "unauditable" => engine[c] = "idle" /\ phase[c] \in {"returned", "raised"}
                    /\ gap[c] = "event" /\ ~MayChange(c) =>
                         \E k \in Rules : verdict[c][k].text = "not_a_string"
  BY DEF AuditAccounting
<1>0. RequestKept(c) /\ LossExplained(c) /\ RecordKept(c)
  BY DEF LogInv, LogInvOf
<1>1. Cardinality(RecordsOf(c)) =
        IF phase[c] \in {"audited", "returned"} /\ gap[c] = "none" THEN 1 ELSE 0
  BY <1>0, FS_EmptySet, FS_Singleton DEF RecordKept, Settled
<1>2. ASSUME gap[c] = "event", ~MayChange(c)
      PROVE  \E k \in Rules : verdict[c][k].text = "not_a_string"
  <2>1. ~EventConstructible(AuditEvent(c)) /\ Accepted(c)
    BY <1>0, <1>2 DEF LossExplained, Accepted
  <2>2. AuditEvent(c).action # Blank
    BY <1>0, <1>2, <2>1, SentinelsAssumption DEF RequestKept, ValidRequest, AuditEvent
  <2>3. PICK k \in DOMAIN Trace(c).entries : Trace(c).entries[k].text = "not_a_string"
    BY <2>1, <2>2 DEF EventConstructible, AuditEvent
  <2>4. k \in 1 .. Len(Trace(c).entries)
    BY TraceType
  <2>5. k \in Rules /\ Reports(c, k, Trace(c).entries[k])
    BY <2>4, TraceTellsTheWalk
  <2> QED BY <2>3, <2>5 DEF Reports, Worded
<1> QED BY <1>0, <1>1, <1>2 DEF LossExplained

\* Only input that is not a request makes an undisturbed call raise.
LEMMA OnlyMalformedRaises ==
  ASSUME LogInv
  PROVE  AcceptedRequestsAreAnswered
BY DEF LogInv, LogInvOf, LossExplained, AcceptedRequestsAreAnswered

(***************************************************************************)
(* In every reachable state every record tells its call's story: the       *)
(* response, the whole walk, which rules had an opinion and whether some   *)
(* rule was never asked.                                                   *)
(***************************************************************************)
THEOREM RecordsTellTheCall == Spec => []RecordTellsTheCall
BY RecordsTell, TypeCorrect, BoundaryLoopInv, AnswerInvariant, LogInvariant, PTL

(***************************************************************************)
(* Of a request that nobody can change, every record names the subject and *)
(* action the rules were asked about and the id of the response.           *)
(***************************************************************************)
THEOREM RecordsNameWhatWasAsked == Spec => []RecordNamesWhatWasAsked
BY RecordsName, TypeCorrect, AnswerInvariant, LogInvariant, PTL

(***************************************************************************)
(* At most one record per call, none before the answer, and for every      *)
(* answer without a record one of the three reasons.                       *)
(***************************************************************************)
THEOREM EveryAnswerIsAccounted == Spec => []AuditAccounting
BY RecordsAccounted, TypeCorrect, BoundaryLoopInv, AnswerInvariant, LogInvariant, PTL

\* An accepted request that nobody changes is answered, whatever rules, reasons
\* and the writer do.
THEOREM AcceptedAreAnswered == Spec => []AcceptedRequestsAreAnswered
BY OnlyMalformedRaises, LogInvariant, PTL
-----------------------------------------------------------------------------
(***************************************************************************)
(* Refinement: every step of the boundary is a step of AuditedGate or      *)
(* leaves the gate alone.                                                  *)
(***************************************************************************)
\* Initial states map to initial states.
LEMMA InitOpensGate == Init => Gate!Init
<1> SUFFICES ASSUME Init
             PROVE  Gate!Init
  OBVIOUS
<1>1. /\ \A c \in Calls : engine[c] = "idle" /\ phase[c] = "idle"
      /\ auditLog = <<>> /\ DOMAIN auditLog = {}
  BY DEF Init, EngineInit
<1>2. GatePermits = [c \in Calls |-> FALSE]
  BY <1>1 DEF GatePermits, PolicyPermits
<1>3. GateDecided = [c \in Calls |-> "none"]
  BY <1>1 DEF GateDecided, Decided, Answered
<1>4. GateSettled = [c \in Calls |-> FALSE] /\ GateDelivered = [c \in Calls |-> FALSE]
  <2>1. \A c \in Calls : ~Settled(c) /\ phase[c] # "returned"
    BY <1>1 DEF Settled
  <2>2. ASSUME NEW c \in Calls
        PROVE  Settled(c) = FALSE /\ (phase[c] = "returned") = FALSE
    <3>1. Settled(c) = FALSE
      BY <2>1 DEF Settled
    <3>2. (phase[c] = "returned") = FALSE
      BY <2>1, Zenon
    <3> QED BY <3>1, <3>2
  <2> QED BY <2>2, Zenon DEF GateSettled, GateDelivered
<1>5. GateLog = <<>>
  BY <1>1 DEF GateLog
<1> QED BY <1>2, <1>3, <1>4, <1>5 DEF Gate!Init

\* A step of c moves the gate of c at most.
LEMMA GateMovesAtOneCall ==
  ASSUME TypeOK, NEW c \in Calls, CallStep(c) \/ CallerStep(c)
  PROVE  /\ GatePermits' = [GatePermits EXCEPT ![c] = PolicyPermits(c)']
         /\ GateDecided' = [GateDecided EXCEPT ![c] = Decided(c)']
         /\ GateSettled' = [GateSettled EXCEPT ![c] = Settled(c)']
         /\ GateDelivered' = [GateDelivered EXCEPT ![c] = (phase'[c] = "returned")]
<1>1. ASSUME NEW d \in Calls, d # c
      PROVE  /\ PolicyPermits(d)' = PolicyPermits(d) /\ Decided(d)' = Decided(d)
             /\ Settled(d)' = Settled(d) /\ phase'[d] = phase[d]
  <2>1. /\ engine'[d] = engine[d] /\ verdict'[d] = verdict[d]
        /\ phase'[d] = phase[d] /\ response'[d] = response[d]
    BY <1>1, OthersStanding DEF Standing, Untouched
  <2>2. Answers(d)' = Answers(d)
    BY <2>1 DEF Answers
  <2>3. PolicyPermits(d)' = PolicyPermits(d)
    BY <2>1, <2>2, Zenon DEF PolicyPermits
  <2>4. Decided(d)' = Decided(d) /\ Settled(d)' = Settled(d)
    BY <2>1, Zenon DEF Decided, Answered, Settled
  <2> QED BY <2>1, <2>3, <2>4
<1> QED BY <1>1 DEF GatePermits, GateDecided, GateSettled, GateDelivered

\* What a step of c does not change for c it changes for nobody.
LEMMA GatePartsStand ==
  ASSUME TypeOK, NEW c \in Calls, CallStep(c) \/ CallerStep(c)
  PROVE  /\ PolicyPermits(c)' = PolicyPermits(c) => GatePermits' = GatePermits
         /\ Decided(c)' = Decided(c) => GateDecided' = GateDecided
         /\ (Settled(c)' <=> Settled(c)) => GateSettled' = GateSettled
         /\ (phase'[c] = "returned" <=> phase[c] = "returned") => GateDelivered' = GateDelivered
         /\ auditLog' = auditLog => GateLog' = GateLog
<1>1. PolicyPermits(c)' = PolicyPermits(c) => GatePermits' = GatePermits
  BY GateMovesAtOneCall DEF GatePermits
<1>2. Decided(c)' = Decided(c) => GateDecided' = GateDecided
  BY GateMovesAtOneCall DEF GateDecided
<1>3. ASSUME Settled(c)' <=> Settled(c)
      PROVE  GateSettled' = GateSettled
  <2>1. Settled(c)' = Settled(c)
    BY <1>3 DEF Settled
  <2> QED BY <2>1, GateMovesAtOneCall DEF GateSettled
<1>4. ASSUME phase'[c] = "returned" <=> phase[c] = "returned"
      PROVE  GateDelivered' = GateDelivered
  <2>1. (phase'[c] = "returned") = (phase[c] = "returned")
    BY <1>4, Zenon
  <2> QED BY <2>1, GateMovesAtOneCall DEF GateDelivered
<1>5. auditLog' = auditLog => GateLog' = GateLog
  BY DEF GateLog
<1> QED BY <1>1, <1>2, <1>3, <1>4, <1>5

\* Asking the engine is the only step after which the policy's answer differs.
LEMMA CallEngineConsults ==
  ASSUME TypeOK, NEW c \in Calls, NEW v \in [Rules -> Verdicts], CallEngine(c, v)
  PROVE  Gate!Consult(c)
<1>1. CallStep(c)
  BY DEF CallStep
<1>2. /\ phase[c] = "ready" /\ phase'[c] = "evaluating" /\ auditLog' = auditLog
  BY DEF CallEngine, TypeOK
<1>3. /\ Decided(c) = "none" /\ Decided(c)' = "none"
      /\ ~Settled(c) /\ ~Settled(c)' /\ phase[c] # "returned" /\ phase'[c] # "returned"
  BY <1>2 DEF Decided, Answered, Settled
<1>4. GateDecided[c] = "none"
  BY <1>3 DEF GateDecided
<1>5. GateDecided' = GateDecided /\ GateSettled' = GateSettled /\ GateDelivered' = GateDelivered
  BY <1>1, <1>3, GatePartsStand
<1>6. GateLog' = GateLog
  BY <1>1, <1>2, GatePartsStand
<1>7. \E p \in BOOLEAN : GatePermits' = [GatePermits EXCEPT ![c] = p]
  <2>1. PolicyPermits(c)' \in BOOLEAN
    BY DEF PolicyPermits
  <2> QED BY <1>1, <2>1, GateMovesAtOneCall
<1> QED BY <1>4, <1>5, <1>6, <1>7 DEF Gate!Consult

\* The gate of c sees nothing of a step inside the engine, or of one that
\* leaves it alone.
LEMMA PolicyStays ==
  ASSUME TypeOK, NEW c \in Calls, BoundaryInvOf(c),
         RunEngine(c) \/ UNCHANGED engineVars
  PROVE  PolicyPermits(c)' = PolicyPermits(c)
<1>1. verdict' = verdict /\ (engine'[c] # "idle" <=> engine[c] # "idle")
  <2>1. CASE RunEngine(c)
    <3>1. verdict' = verdict /\ engine'[c] # "idle"
      BY <2>1 DEF RunEngine, TypeOK, EngineTypeOK, EngineStep, RuleRaises, RuleMalformed, RuleDenies,
         RuleAllows, RuleNotApplicable, ReturnAllow, ReturnNotApplicable, Returns, Reaches
    <3> QED BY <2>1, <3>1 DEF RunEngine, BoundaryInvOf
  <2>2. CASE UNCHANGED engineVars
    BY <2>2 DEF engineVars
  <2> QED BY <2>1, <2>2
<1>2. Answers(c)' = Answers(c)
  BY <1>1 DEF Answers
<1> QED BY <1>1, <1>2, Zenon DEF PolicyPermits

\* Building the response is the decision; a grant is one the policy permits.
LEMMA AnswerDecides ==
  ASSUME TypeOK, FailClosed', NEW c \in Calls, CallStep(c), BoundaryInvOf(c),
         UNCHANGED engineVars, UNCHANGED auditLog, ~Answered(c), phase'[c] = "auditing"
  PROVE  Gate!Decide(c)
<1>1. PolicyPermits(c)' = PolicyPermits(c)
  BY PolicyStays
<1>2. Decided(c) = "none" /\ Decided(c)' \in {"grant", "refuse"}
  BY DEF Decided, Answered
<1>3. /\ ~Settled(c) /\ ~Settled(c)' /\ phase[c] # "returned" /\ phase'[c] # "returned"
  BY DEF Answered, Settled
<1>4. Decided(c)' = "grant" => PolicyPermits(c)
  <2> SUFFICES ASSUME Decided(c)' = "grant"
               PROVE  PolicyPermits(c)'
    BY <1>1
  <2>1. Answered(c)' /\ response'[c].outcome = "allow"
    BY DEF Decided
  <2>2. /\ engine'[c] = "returned" /\ Answers(c)' \subseteq {"allow", "not_applicable"}
        /\ response'[c].by \in Rules /\ verdict'[c][response'[c].by].answer = "allow"
    BY <2>1 DEF FailClosed
  <2>3. "allow" \in Answers(c)'
    BY <2>2 DEF Answers
  <2> QED BY <2>2, <2>3 DEF PolicyPermits
<1>5. GatePermits' = GatePermits /\ (PolicyPermits(c) => GatePermits[c])
  BY <1>1, GatePartsStand DEF GatePermits
<1>6. GateSettled' = GateSettled /\ GateDelivered' = GateDelivered /\ GateLog' = GateLog
  BY <1>3, GatePartsStand
<1>7. GateDecided[c] = "none" /\ GateDecided' = [GateDecided EXCEPT ![c] = Decided(c)']
  BY <1>2, GateMovesAtOneCall DEF GateDecided
<1> QED BY <1>2, <1>4, <1>5, <1>6, <1>7 DEF Gate!Decide

\* The audit write settles the decision, with a record of it or without one.
LEMMA WriteAuditSettles ==
  ASSUME TypeOK, AnswerInv, NEW c \in Calls, WriteAudit(c)
  PROVE  Gate!Settle(c)
<1>1. /\ CallStep(c) /\ phase[c] = "auditing" /\ phase'[c] = "audited"
      /\ UNCHANGED engineVars /\ response' = response /\ auditLog \in Seq(Event)
      /\ BoundaryInvOf(c)
  BY DEF WriteAudit, TypeOK, CallStep, AnswerInv
<1>2. /\ Decided(c) # "none" /\ Decided(c)' = Decided(c)
      /\ ~Settled(c) /\ Settled(c)' /\ phase[c] # "returned" /\ phase'[c] # "returned"
  BY <1>1 DEF Decided, Answered, Settled
<1>3. GatePermits' = GatePermits
  BY <1>1, PolicyStays, GatePartsStand
<1>4. GateDecided' = GateDecided /\ GateDecided[c] # "none" /\ GateDecided[c] = Decided(c)
  BY <1>1, <1>2, GatePartsStand DEF GateDecided
<1>5. ~GateSettled[c] /\ GateSettled' = [GateSettled EXCEPT ![c] = TRUE]
  BY <1>1, <1>2, GateMovesAtOneCall DEF GateSettled
<1>6. GateDelivered' = GateDelivered
  BY <1>1, <1>2, GatePartsStand
<1>7. \/ GateLog' = Append(GateLog, [call |-> c, grant |-> GateDecided[c] = "grant"])
      \/ GateLog' = GateLog
  <2>1. CASE auditLog' = auditLog
    BY <2>1 DEF GateLog
  <2>2. CASE auditLog' = Append(auditLog, AuditEvent(c))
    <3>1. (AuditEvent(c).outcome = "allowed") <=> (GateDecided[c] = "grant")
      <4>1. response[c].failure # "none" => response[c].outcome = "deny"
        BY <1>1 DEF BoundaryInvOf, Answered, Explained
      <4>2. (AuditEvent(c).outcome = "allowed") <=> (response[c].outcome = "allow")
        BY <4>1 DEF AuditEvent, AuditOutcome
      <4> QED BY <4>2, <1>1, <1>4 DEF Decided, Answered
    <3>2. (AuditEvent(c).outcome = "allowed") = (GateDecided[c] = "grant")
      BY <3>1, Zenon
    <3>3. GateLog' = Append(GateLog, [call |-> c, grant |-> AuditEvent(c).outcome = "allowed"])
      BY <1>1, <2>2, EventOfItsCall DEF GateLog
    <3> QED BY <3>2, <3>3, Zenon
  <2> QED BY <2>1, <2>2 DEF WriteAudit
<1> QED BY <1>3, <1>4, <1>5, <1>6, <1>7 DEF Gate!Settle

\* The return delivers.
LEMMA ReturnDelivers ==
  ASSUME TypeOK, NEW c \in Calls, BoundaryInvOf(c), Return(c)
  PROVE  Gate!Deliver(c)
<1>1. /\ CallStep(c) /\ phase[c] = "audited" /\ phase'[c] = "returned"
      /\ UNCHANGED engineVars /\ response' = response /\ auditLog' = auditLog
  BY DEF Return, TypeOK, CallStep
<1>2. Decided(c)' = Decided(c) /\ Settled(c) /\ Settled(c)'
  BY <1>1 DEF Decided, Answered, Settled
<1>3. /\ GatePermits' = GatePermits /\ GateDecided' = GateDecided
      /\ GateSettled' = GateSettled /\ GateLog' = GateLog
  BY <1>1, <1>2, PolicyStays, GatePartsStand
<1>4. GateSettled[c]
  BY <1>2 DEF GateSettled
<1>5. ~GateDelivered[c] /\ GateDelivered' = [GateDelivered EXCEPT ![c] = TRUE]
  BY <1>1, GateMovesAtOneCall DEF GateDelivered
<1> QED BY <1>3, <1>4, <1>5 DEF Gate!Deliver

\* Input that is not a request is refused without a record, if it gets an
\* answer at all.
LEMMA MalformedIsRejected ==
  ASSUME TypeOK, NEW c \in Calls, BoundaryInvOf(c), phase'[c] = "returned",
         NEW raw \in Names \cup {Absent}, SubmitMalformed(c, raw)
  PROVE  Gate!Reject(c)
<1>1. /\ CallerStep(c) /\ phase[c] = "idle" /\ response'[c].outcome = "deny"
      /\ UNCHANGED engineVars /\ auditLog' = auditLog
  BY DEF SubmitMalformed, TypeOK, CallerStep, Denial
<1>2. Decided(c) = "none" /\ Decided(c)' = "refuse" /\ Settled(c)'
  BY <1>1 DEF Decided, Answered, Settled
<1>3. GatePermits' = GatePermits /\ GateLog' = GateLog
  BY <1>1, PolicyStays, GatePartsStand
<1>4. GateDecided[c] = "none" /\ GateDecided' = [GateDecided EXCEPT ![c] = "refuse"]
  BY <1>1, <1>2, GateMovesAtOneCall DEF GateDecided
<1>5. GateSettled' = [GateSettled EXCEPT ![c] = TRUE]
  BY <1>1, <1>2, GateMovesAtOneCall
<1>6. GateDelivered' = [GateDelivered EXCEPT ![c] = TRUE]
  BY <1>1, GateMovesAtOneCall
<1> QED BY <1>3, <1>4, <1>5, <1>6 DEF Gate!Reject

\* The gate of c sees nothing of a step in which nothing is asked, answered,
\* written or returned.
LEMMA QuietStep ==
  ASSUME TypeOK, NEW c \in Calls, CallStep(c) \/ CallerStep(c), BoundaryInvOf(c),
         RunEngine(c) \/ UNCHANGED engineVars, auditLog' = auditLog,
         \/ phase'[c] = phase[c] /\ response'[c] = response[c]
         \/ ~Answered(c) /\ ~Answered(c)'
  PROVE  UNCHANGED Gate!gateVars
<1>1. /\ Decided(c)' = Decided(c) /\ (Settled(c)' <=> Settled(c))
      /\ (phase'[c] = "returned" <=> phase[c] = "returned")
  BY DEF Decided, Answered, Settled
<1>2. PolicyPermits(c)' = PolicyPermits(c)
  BY PolicyStays
<1> QED BY <1>1, <1>2, GatePartsStand DEF Gate!gateVars

\* Every step of a call's own thread is a step of the gate or invisible to it.
LEMMA CallStepRefines ==
  ASSUME TypeOK, AnswerInv, FailClosed', NEW c \in Calls, CallStep(c)
  PROVE  [Gate!Next]_(Gate!gateVars)
<1>0. BoundaryInvOf(c) /\ phase \in [Calls -> Phases]
  BY DEF AnswerInv, TypeOK
<1>1. CASE BuildSubject(c) \/ RunEngine(c)
  <2>1. /\ RunEngine(c) \/ UNCHANGED engineVars
        /\ auditLog' = auditLog /\ ~Answered(c) /\ ~Answered(c)'
    BY <1>0, <1>1 DEF BuildSubject, RunEngine, boundaryVars, Answered
  <2> QED BY <1>0, <2>1, QuietStep
<1>2. CASE SubjectFails(c) \/ EngineRaised(c) \/ EngineReturned(c) \/ FallBack(c)
  <2>1. /\ UNCHANGED engineVars /\ UNCHANGED auditLog /\ ~Answered(c)
        /\ phase'[c] \in {"auditing", "failing", "raised"}
    BY <1>0, <1>2 DEF SubjectFails, EngineRaised, EngineReturned, FallBack, Respond, Answered
  <2>2. CASE phase'[c] = "auditing"
    BY <1>0, <2>1, <2>2, AnswerDecides DEF Gate!Next
  <2>3. CASE phase'[c] # "auditing"
    <3>1. ~Answered(c)'
      BY <2>1, <2>3 DEF Answered
    <3> QED BY <1>0, <2>1, <3>1, QuietStep
  <2> QED BY <2>2, <2>3
<1>3. CASE \E v \in [Rules -> Verdicts] : CallEngine(c, v)
  BY <1>3, CallEngineConsults DEF Gate!Next
<1>4. CASE WriteAudit(c)
  BY <1>4, WriteAuditSettles DEF Gate!Next
<1>5. CASE Return(c)
  BY <1>0, <1>5, ReturnDelivers DEF Gate!Next
<1> QED BY <1>1, <1>2, <1>3, <1>4, <1>5 DEF CallStep

\* Every step of a caller is a refusal without a record or invisible to the gate.
LEMMA CallerStepRefines ==
  ASSUME TypeOK, AnswerInv, NEW c \in Calls, CallerStep(c)
  PROVE  [Gate!Next]_(Gate!gateVars)
<1>0. BoundaryInvOf(c) /\ phase \in [Calls -> Phases] /\ UNCHANGED engineVars /\ auditLog' = auditLog
  BY DEF AnswerInv, TypeOK, CallerStep, Submit, SubmitMalformed, Mutate
<1>1. ASSUME NEW raw \in Names \cup {Absent}, SubmitMalformed(c, raw)
      PROVE  [Gate!Next]_(Gate!gateVars)
  <2>1. phase[c] = "idle" /\ phase'[c] \in {"returned", "raised"}
    BY <1>0, <1>1 DEF SubmitMalformed
  <2>2. CASE phase'[c] = "returned"
    BY <1>0, <1>1, <2>2, MalformedIsRejected DEF Gate!Next
  <2>3. CASE phase'[c] = "raised"
    BY <1>0, <2>1, <2>3, QuietStep DEF Answered
  <2> QED BY <2>1, <2>2, <2>3
<1>2. CASE \E f \in {"object", "dict"}, s \in Submissions : Submit(c, f, s)
  <2>1. ~Answered(c) /\ ~Answered(c)'
    BY <1>0, <1>2 DEF Submit, Answered
  <2> QED BY <1>0, <2>1, QuietStep
<1>3. CASE \E field \in {"id", "subject", "action"}, value \in Names : Mutate(c, field, value)
  <2>1. phase' = phase /\ response' = response
    BY <1>3 DEF Mutate
  <2> QED BY <1>0, <2>1, QuietStep
<1> QED BY <1>1, <1>2, <1>3 DEF CallerStep

(***************************************************************************)
(* The boundary implements AuditedGate: whatever rules, writers and        *)
(* callers do, a grant is one the policy permits, decisions are final, and *)
(* what is written is the decision, once, before it is delivered.          *)
(***************************************************************************)
THEOREM BoundaryRefinesAuditedGate == Spec => ImplementsAuditedGate
<1>1. TypeOK /\ AnswerInv /\ FailClosed' /\ [Next]_vars => [Gate!Next]_(Gate!gateVars)
  <2> SUFFICES ASSUME TypeOK, AnswerInv, FailClosed', [Next]_vars
               PROVE  [Gate!Next]_(Gate!gateVars)
    OBVIOUS
  <2>1. CASE UNCHANGED vars
    BY <2>1 DEF vars, engineVars, boundaryVars, Gate!gateVars, GatePermits, GateDecided,
       GateSettled, GateLog, GateDelivered, PolicyPermits, Answers, Decided, Answered, Settled
  <2>2. CASE Next
    BY <2>2, CallStepRefines, CallerStepRefines DEF Next
  <2> QED BY <2>1, <2>2
<1> QED BY <1>1, InitOpensGate, TypeCorrect, AnswerInvariant, BoundaryFailsClosed, PTL
        DEF Spec, ImplementsAuditedGate, Gate!Spec
=============================================================================
