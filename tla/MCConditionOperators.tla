------------------------- MODULE MCConditionOperators ------------------------
(***************************************************************************)
(* TLC instance of ConditionEvaluation: every combination of a small       *)
(* vocabulary of paths, operators, expected values and requests.           *)
(***************************************************************************)
EXTENDS ConditionEvaluation, TLC

Num(n) == Scalar("number", n)
Txt(n) == Scalar("string", n)
Bool(n) == Scalar("boolean", n)

Atoms == {Num(0), Num(1), Txt(0), Txt(1), Bool(0), Bool(1)}

\* Expected values as authored, those that the validator refuses included.
AuthoredForms ==
  {[form |-> "null", items |-> <<>>], [form |-> "array", items |-> <<>>]}
    \cup {[form |-> "scalar", items |-> <<a>>] : a \in Atoms}
    \cup {[form |-> "array", items |-> <<a, b>>] : a, b \in Atoms}

MCExpectedValues == {e \in AuthoredForms : ExpectedValueValid(e)}

\* A path of every kind that _resolve_field_path distinguishes.
MCPaths ==
  {<<"resource_type">>, <<"resource_type", "x">>, <<"subject_roles">>, <<"evaluation_time">>,
   <<"subject_attrs">>, <<"subject_attrs", "k">>, <<"subject_attrs", "k", "x">>,
   <<"risk_context">>, <<"risk_context", "score">>, <<"risk_context", "x">>,
   <<"risk_context", "score", "x">>, <<"identity_evidence_reference", "x">>, <<"x">>}

MCOperators == SupportedOperators \cup {"starts_with"}

Roles == [family |-> "array", value |-> 0]
Time == [family |-> "timestamp", value |-> 0]

\* Requests that populate more and more of what the paths name.
Bare == [request_id |-> Txt(2), subject_id |-> Txt(3), subject_roles |-> Roles, action |-> Txt(4)]
FieldSets == {Bare}
  \cup {[evaluation_time |-> Time, resource_type |-> Txt(n)] @@ Bare : n \in 0 .. 1}
ContextSets == {<<>>, [risk_context |-> [classification |-> Txt(0)]]}
  \cup {[risk_context |-> [score |-> Num(n)]] : n \in 0 .. 2}
AttrSets == {<<>>, [k |-> Txt(0)], [k |-> Txt(1)]}

AllRequests == [fields : FieldSets, contexts : ContextSets, attrs : AttrSets]
MCRequests == {r \in AllRequests : RequestConstructible(r)}
=============================================================================
