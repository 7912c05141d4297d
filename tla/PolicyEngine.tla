---------------------------- MODULE PolicyEngine -----------------------------
(***************************************************************************)
(* The v0.1 policy engine (src/src/basis_core/policy/engine.py): one walk  *)
(* over an immutable list of rules per call, deny-overrides, fail-closed.  *)
(* Calls of several threads run on one engine; each step of a loop is one  *)
(* action, so the calls interleave at every rule.                          *)
(*                                                                         *)
(* The answer of every rule to a call is fixed when the call is made       *)
(* (rules are stateless, docs/extension-contracts.md) but the engine only  *)
(* learns it when the loop reaches the rule.                               *)
(***************************************************************************)
EXTENDS Integers, Sequences

CONSTANTS
  Calls,      \* the evaluations, possibly of several threads
  NumRules,   \* length of the registered rule list
  Verdicts    \* the answers rules may give, a subset of AllVerdicts

Outcomes == {"allow", "deny", "not_applicable"}

\* What a rule put in its Decision's text fields.  Decision is a plain class:
\* nothing stops a rule from leaving them blank or not a string.
Texts == {"ok", "blank", "not_a_string"}

\* "raises": rule.evaluate raised.  "malformed": it returned something that
\* has no evaluated_by/outcome.value/reason, such as None.
AllVerdicts == [answer : Outcomes \cup {"raises", "malformed"}, text : Texts]

ASSUME NumRulesAssumption == NumRules \in Nat
ASSUME VerdictsAssumption == Verdicts \subseteq AllVerdicts

Rules == 1 .. NumRules

\* "exception" is text made from str(exc): always a string, never blank.
EngineTexts == Texts \cup {"exception"}

Entry == [rule : Rules, outcome : Outcomes, text : EngineTexts]

\* rule = 0 names the engine itself (evaluated_by="PolicyEngine").
Decision == [outcome : Outcomes, rule : Rules \cup {0}, text : EngineTexts,
             evaluations : Seq(Entry), isError : BOOLEAN]

NoDecision == [outcome |-> "not_applicable", rule |-> 0, text |-> "blank",
               evaluations |-> <<>>, isError |-> FALSE]

VARIABLES
  engine,       \* engine[c]: where call c is in PolicyEngine.evaluate
  verdict,      \* verdict[c][r]: what rule r answers to call c
  position,     \* position[c]: the rule the loop looks at next
  evaluations,  \* evaluations[c]: the per-rule records appended so far
  firstAllow,   \* firstAllow[c]: the rule of first_allow, 0 for None
  decision      \* decision[c]: what evaluate returned

engineVars == <<engine, verdict, position, evaluations, firstAllow, decision>>

EngineTypeOK ==
  /\ engine \in [Calls -> {"idle", "running", "returned", "escaped"}]
  /\ verdict \in [Calls -> [Rules -> AllVerdicts]]
  /\ position \in [Calls -> 1 .. NumRules + 1]
  /\ evaluations \in [Calls -> Seq(Entry)]
  /\ firstAllow \in [Calls -> Rules \cup {0}]
  /\ decision \in [Calls -> Decision]

NoVerdict == [r \in Rules |-> [answer |-> "not_applicable", text |-> "ok"]]

EngineInit ==
  /\ engine = [c \in Calls |-> "idle"]
  /\ verdict = [c \in Calls |-> NoVerdict]
  /\ position = [c \in Calls |-> 1]
  /\ evaluations = [c \in Calls |-> <<>>]
  /\ firstAllow = [c \in Calls |-> 0]
  /\ decision = [c \in Calls |-> NoDecision]
-----------------------------------------------------------------------------
\* evaluate is entered; v is what each registered rule will answer.
Evaluate(c, v) ==
  /\ engine[c] = "idle"
  /\ engine' = [engine EXCEPT ![c] = "running"]
  /\ verdict' = [verdict EXCEPT ![c] = v]
  /\ UNCHANGED <<position, evaluations, firstAllow, decision>>

\* The loop of c has reached a rule whose answer is a.
Reaches(c, a) ==
  /\ engine[c] = "running"
  /\ position[c] \in Rules
  /\ verdict[c][position[c]].answer = a

\* The record the loop appends for the rule at hand.
Record(c, o, t) == [rule |-> position[c], outcome |-> o, text |-> t]

Recorded(c, o, t) == Append(evaluations[c], Record(c, o, t))

Text(c) == verdict[c][position[c]].text

\* evaluate returns d; the rest of the loop is never run.
Returns(c, d) ==
  /\ engine' = [engine EXCEPT ![c] = "returned"]
  /\ decision' = [decision EXCEPT ![c] = d]
  /\ evaluations' = [evaluations EXCEPT ![c] = d.evaluations]
  /\ UNCHANGED <<verdict, position, firstAllow>>

\* A plausible bug: the handler logs the exception and goes on to the next rule.
RuleRaises_Skipped(c) ==
  /\ Reaches(c, "raises")
  /\ evaluations' = [evaluations EXCEPT ![c] = Recorded(c, "deny", "exception")]
  /\ position' = [position EXCEPT ![c] = @ + 1]
  /\ UNCHANGED <<engine, verdict, firstAllow, decision>>

\* The rule raised: a deny record with the exception's text, and a DENY
\* marked is_error.
RuleRaises(c) ==
  /\ Reaches(c, "raises")
  /\ Returns(c, [outcome |-> "deny", rule |-> position[c], text |-> "exception",
                 evaluations |-> Recorded(c, "deny", "exception"), isError |-> TRUE])

\* Reading decision.evaluated_by / .outcome.value / .reason raises outside the
\* try: the exception leaves evaluate, and no trace leaves with it.
RuleMalformed(c) ==
  /\ Reaches(c, "malformed")
  /\ engine' = [engine EXCEPT ![c] = "escaped"]
  /\ UNCHANGED <<verdict, position, evaluations, firstAllow, decision>>

\* A plausible bug: the record is appended only when the loop goes on.
RuleDenies_Unrecorded(c) ==
  /\ Reaches(c, "deny")
  /\ Returns(c, [outcome |-> "deny", rule |-> position[c], text |-> Text(c),
                 evaluations |-> evaluations[c], isError |-> FALSE])

\* DENY overrides: stop at once, with the trace so far.
RuleDenies(c) ==
  /\ Reaches(c, "deny")
  /\ Returns(c, [outcome |-> "deny", rule |-> position[c], text |-> Text(c),
                 evaluations |-> Recorded(c, "deny", Text(c)), isError |-> FALSE])

\* A plausible bug: ALLOW returns as DENY does.
RuleAllows_ShortCircuits(c) ==
  /\ Reaches(c, "allow")
  /\ Returns(c, [outcome |-> "allow", rule |-> position[c], text |-> Text(c),
                 evaluations |-> Recorded(c, "allow", Text(c)), isError |-> FALSE])

\* A plausible bug: the last ALLOW is kept instead of the first.
RuleAllows_KeepsLast(c) ==
  /\ Reaches(c, "allow")
  /\ evaluations' = [evaluations EXCEPT ![c] = Recorded(c, "allow", Text(c))]
  /\ firstAllow' = [firstAllow EXCEPT ![c] = position[c]]
  /\ position' = [position EXCEPT ![c] = @ + 1]
  /\ UNCHANGED <<engine, verdict, decision>>

\* ALLOW does not short-circuit: remember the first one and go on.
RuleAllows(c) ==
  /\ Reaches(c, "allow")
  /\ evaluations' = [evaluations EXCEPT ![c] = Recorded(c, "allow", Text(c))]
  /\ firstAllow' = [firstAllow EXCEPT ![c] = IF @ = 0 THEN position[c] ELSE @]
  /\ position' = [position EXCEPT ![c] = @ + 1]
  /\ UNCHANGED <<engine, verdict, decision>>

\* A plausible bug: the loop is not advanced past a rule without an opinion.
RuleNotApplicable_Stays(c) ==
  /\ Reaches(c, "not_applicable")
  /\ UNCHANGED engineVars

RuleNotApplicable(c) ==
  /\ Reaches(c, "not_applicable")
  /\ evaluations' = [evaluations EXCEPT ![c] = Recorded(c, "not_applicable", Text(c))]
  /\ position' = [position EXCEPT ![c] = @ + 1]
  /\ UNCHANGED <<engine, verdict, firstAllow, decision>>

\* The list is exhausted and some rule allowed.
ReturnAllow(c) ==
  /\ engine[c] = "running"
  /\ position[c] = NumRules + 1
  /\ firstAllow[c] # 0
  /\ Returns(c, [outcome |-> "allow", rule |-> firstAllow[c],
                 text |-> verdict[c][firstAllow[c]].text,
                 evaluations |-> evaluations[c], isError |-> FALSE])

\* The list is exhausted and no rule had an opinion: default deny is left to
\* the enforcement point.
ReturnNotApplicable(c) ==
  /\ engine[c] = "running"
  /\ position[c] = NumRules + 1
  /\ firstAllow[c] = 0
  /\ Returns(c, [outcome |-> "not_applicable", rule |-> 0, text |-> "ok",
                 evaluations |-> evaluations[c], isError |-> FALSE])

\* One step of the evaluation of c that is under way.
EngineStep(c) ==
  \/ RuleRaises(c)
  \/ RuleMalformed(c)
  \/ RuleDenies(c)
  \/ RuleAllows(c)
  \/ RuleNotApplicable(c)
  \/ ReturnAllow(c)
  \/ ReturnNotApplicable(c)

EngineNext ==
  \E c \in Calls : (\E v \in [Rules -> Verdicts] : Evaluate(c, v)) \/ EngineStep(c)

EngineSpec == EngineInit /\ [][EngineNext]_engineVars

\* A rule returns or raises (docs/extension-contracts.md); the loop is the
\* caller's own thread, so a call under way keeps taking steps.
FairEngineSpec ==
  EngineSpec /\ \A c \in Calls : WF_engineVars(EngineStep(c))
-----------------------------------------------------------------------------
Answers(c) == {verdict[c][r].answer : r \in Rules}

\* What the trace says of rule r: an exception is recorded as a denial.
Said(c, r) == IF verdict[c][r].answer = "raises" THEN "deny" ELSE verdict[c][r].answer

\* The text it gives for it: the exception's, or the rule's own reason.
Worded(c, r) == IF verdict[c][r].answer = "raises" THEN "exception" ELSE verdict[c][r].text

\* Entry e reports rule r as it answered.
Reports(c, r, e) == e.rule = r /\ e.outcome = Said(c, r) /\ e.text = Worded(c, r)

Concluded(c) == engine[c] \in {"returned", "escaped"}

Grants(c) == engine[c] = "returned" /\ decision[c].outcome = "allow"

(***************************************************************************)
(* Deny overrides: an ALLOW decision means that every registered rule was  *)
(* asked, none denied, raised or answered nonsense, and one allowed (the   *)
(* loop at engine.py 285-350, where ALLOW must not stop it).               *)
(***************************************************************************)
GrantIsUnanimous ==
  \A c \in Calls : Grants(c) =>
    /\ Answers(c) \subseteq {"allow", "not_applicable"}
    /\ "allow" \in Answers(c)

(***************************************************************************)
(* Reordering rules cannot turn a refusal into a grant: two calls whose    *)
(* rules give the same set of answers, in any order and number, are either *)
(* both granted or both refused (docs/evaluation-semantics.md line 23).    *)
(***************************************************************************)
OrderCannotGrant ==
  \A c, d \in Calls :
    (Concluded(c) /\ Concluded(d) /\ Answers(c) = Answers(d)) => (Grants(c) <=> Grants(d))

(***************************************************************************)
(* A decision's trace is the exact walk: entry i is rule i with what it    *)
(* said and why, no rule is missing before the last entry, a walk that ended early *)
(* ended with the rule the decision is credited to, and any other walk     *)
(* covers the whole list (engine.py 282-367, evaluated_rules).             *)
(***************************************************************************)
TraceIsTheWalk ==
  \A c \in Calls : engine[c] = "returned" =>
    LET walk == decision[c].evaluations
    IN /\ \A i \in 1 .. Len(walk) : Reports(c, i, walk[i])
       /\ IF decision[c].outcome = "deny"
            THEN Len(walk) > 0 /\ decision[c].rule = Len(walk)
            ELSE Len(walk) = NumRules

(***************************************************************************)
(* Credit: an ALLOW is attributed to the lowest-numbered rule that allowed *)
(* (first_allow, engine.py 334), a DENY to the lowest-numbered rule that   *)
(* denied or raised, and is_error says which of the two it was.            *)
(***************************************************************************)
CreditIsFirst ==
  \A c \in Calls : engine[c] = "returned" =>
    LET by == decision[c].rule
        First(A) == by \in Rules /\ verdict[c][by].answer \in A
                      /\ \A r \in 1 .. by - 1 : verdict[c][r].answer \notin A
    IN CASE decision[c].outcome = "allow" -> First({"allow"}) /\ ~decision[c].isError
         [] decision[c].outcome = "deny" ->
              /\ First({"deny", "raises"})
              /\ decision[c].isError <=> (verdict[c][by].answer = "raises")
         [] OTHER -> by = 0 /\ ~decision[c].isError

(***************************************************************************)
(* The invariant of the loop, from which the four properties above follow: *)
(* what the loop has passed, what first_allow remembers, what the trace    *)
(* holds, and where the loop was left.                                     *)
(***************************************************************************)
Passed(c) == 1 .. position[c] - 1

NothingStopped(c) ==
  \A r \in Passed(c) : verdict[c][r].answer \in {"allow", "not_applicable"}

FirstAllowRemembered(c) ==
  IF firstAllow[c] = 0
    THEN \A r \in Passed(c) : verdict[c][r].answer = "not_applicable"
    ELSE /\ firstAllow[c] \in Passed(c)
         /\ verdict[c][firstAllow[c]].answer = "allow"
         /\ \A r \in 1 .. firstAllow[c] - 1 : verdict[c][r].answer = "not_applicable"

Stopped(c) == engine[c] = "returned" /\ decision[c].outcome = "deny"

WalkRecorded(c) ==
  /\ Len(evaluations[c]) = IF Stopped(c) THEN position[c] ELSE position[c] - 1
  /\ \A i \in 1 .. Len(evaluations[c]) : Reports(c, i, evaluations[c][i])

ExitExplained(c) ==
  /\ engine[c] = "idle" => position[c] = 1
  /\ engine[c] = "escaped" => position[c] \in Rules /\ verdict[c][position[c]].answer = "malformed"
  /\ engine[c] = "returned" =>
       /\ decision[c].evaluations = evaluations[c]
       /\ IF decision[c].outcome = "deny"
            THEN /\ position[c] \in Rules
                 /\ decision[c].rule = position[c]
                 /\ verdict[c][position[c]].answer = IF decision[c].isError THEN "raises" ELSE "deny"
            ELSE /\ position[c] = NumRules + 1
                 /\ decision[c].rule = firstAllow[c]
                 /\ (firstAllow[c] # 0) <=> (decision[c].outcome = "allow")
                 /\ ~decision[c].isError

LoopInvOf(c) ==
  NothingStopped(c) /\ FirstAllowRemembered(c) /\ WalkRecorded(c) /\ ExitExplained(c)

LoopInv == \A c \in Calls : LoopInvOf(c)

\* Every evaluation that is entered ends (the loop is finite whatever the
\* rules answer), by a decision or by an escaping exception.
EvaluationEnds == \A c \in Calls : (engine[c] = "running") ~> Concluded(c)

(***************************************************************************)
(* The engine implements DenyOverrides: the loop's steps stutter, and the  *)
(* step that leaves it concludes from the set of answers.                  *)
(***************************************************************************)
AbstractOutcome ==
  [c \in Calls |-> CASE engine[c] = "idle" -> "unasked"
                     [] engine[c] = "running" -> "pending"
                     [] engine[c] = "escaped" -> "escaped"
                     [] OTHER -> IF decision[c].isError THEN "error"
                                                        ELSE decision[c].outcome]

AbstractAnswers ==
  [c \in Calls |-> IF engine[c] = "idle" THEN {} ELSE Answers(c)]

Abstract == INSTANCE DenyOverrides WITH answers <- AbstractAnswers,
                                        outcome <- AbstractOutcome

ImplementsDenyOverrides == Abstract!Spec
=============================================================================
