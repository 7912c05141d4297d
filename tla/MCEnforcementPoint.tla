-------------------------- MODULE MCEnforcementPoint -------------------------
(***************************************************************************)
(* TLC instances of EnforcementPoint.                                      *)
(***************************************************************************)
EXTENDS EnforcementPoint, TLC

CONSTANTS v1, v2

Verdict(a, t) == [answer |-> a, text |-> t]

\* One of each answer, plus the two texts that break a response or an event.
FewVerdicts ==
  {Verdict("allow", "ok"), Verdict("deny", "ok"), Verdict("raises", "ok"),
   Verdict("malformed", "ok"), Verdict("allow", "blank"),
   Verdict("not_applicable", "not_a_string")}

ValidV1 == [id |-> v1, subject |-> v1, action |-> v1]

\* The other ways to break a response, for one call.
SomeVerdicts == FewVerdicts \cup {Verdict("deny", "blank"), Verdict("allow", "not_a_string")}

\* With and without a subject argument, which need not be the request's.
MCSubmissions == {[request |-> ValidV1, subject |-> s] : s \in {Absent, v2}}

WithoutSubject == [request |-> ValidV1, subject |-> Absent]
OneSubmission == {WithoutSubject}

\* All calls have ended.
Terminated == (\A c \in Calls : phase[c] \in {"returned", "raised"}) /\ UNCHANGED vars

MCSpec == Init /\ [][Next \/ Terminated]_vars
MCFairSpec == MCSpec /\ \A c \in Calls : WF_vars(CallStep(c))
=============================================================================
