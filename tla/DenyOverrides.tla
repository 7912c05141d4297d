---------------------------- MODULE DenyOverrides ----------------------------
(***************************************************************************)
(* What the v0.1 policy engine promises, with no rule list, no order and   *)
(* no loop.  A call is answered from the SET of answers its rules would    *)
(* give: nothing here can depend on the order in which rules were          *)
(* registered, on how many there are, or on another call.                  *)
(*                                                                         *)
(* PolicyEngine implements this specification step for step.               *)
(***************************************************************************)
EXTENDS FiniteSets

CONSTANT Calls      \* the evaluations, possibly of several threads

VARIABLES
  answers,          \* answers[c]: every answer some rule would give to c
  outcome           \* outcome[c]: what the engine told the caller of c

abstractVars == <<answers, outcome>>

RuleAnswers == {"allow", "deny", "not_applicable", "raises", "malformed"}

Conclusions == {"allow", "deny", "not_applicable", "error", "escaped"}

(***************************************************************************)
(* The conclusions that a set of answers permits.  ALLOW needs unanimity   *)
(* of the rules that have an opinion; a denial, a rule exception or a      *)
(* malformed answer each needs one rule behind it.                         *)
(***************************************************************************)
Permitted(A) ==
  { o \in Conclusions :
      \/ o = "allow" /\ "allow" \in A /\ A \subseteq {"allow", "not_applicable"}
      \/ o = "not_applicable" /\ A \subseteq {"not_applicable"}
      \/ o = "deny" /\ "deny" \in A
      \/ o = "error" /\ "raises" \in A
      \/ o = "escaped" /\ "malformed" \in A }

Init ==
  /\ answers = [c \in Calls |-> {}]
  /\ outcome = [c \in Calls |-> "unasked"]

Ask(c) ==
  /\ outcome[c] = "unasked"
  /\ \E A \in SUBSET RuleAnswers : answers' = [answers EXCEPT ![c] = A]
  /\ outcome' = [outcome EXCEPT ![c] = "pending"]

Conclude(c) ==
  /\ outcome[c] = "pending"
  /\ \E o \in Permitted(answers[c]) : outcome' = [outcome EXCEPT ![c] = o]
  /\ UNCHANGED answers

Next == \E c \in Calls : Ask(c) \/ Conclude(c)

Spec == Init /\ [][Next]_abstractVars
=============================================================================
