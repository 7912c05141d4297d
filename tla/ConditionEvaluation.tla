-------------------------- MODULE ConditionEvaluation -------------------------
(***************************************************************************)
(* One condition is evaluated against one request (evaluate_condition,     *)
(* src/src/basis_core/policy/operation_aware/operators.py), and compared   *)
(* with what the same condition, or a sibling of it, says of this and      *)
(* other requests.                                                         *)
(***************************************************************************)
EXTENDS ConditionOperators

CONSTANTS
  Paths,           \* the field paths that conditions name
  Operators,       \* the operators they name, supported or not
  ExpectedValues,  \* the expected values that the validator lets through
  Requests         \* the requests they are evaluated against

ASSUME PathsAssumption == \A p \in Paths : p \in Seq(STRING) /\ p # <<>>
ASSUME ExpectedValuesAssumption ==
  \A e \in ExpectedValues : e \in ExpectedForms /\ ExpectedValueValid(e)
ASSUME RequestsAssumption ==
  \A r \in Requests :
    /\ RequestConstructible(r)
    /\ \A f \in DOMAIN r.fields : r.fields[f] \in ValuesOfFields
    /\ \A x \in DOMAIN r.contexts : \A leaf \in DOMAIN r.contexts[x] :
         r.contexts[x][leaf] \in ValuesOfFields
    /\ \A a \in DOMAIN r.attrs : r.attrs[a] \in ValuesOfFields

VARIABLES
  path, operator, expected,  \* the condition
  request,                   \* the request
  result                     \* "pending", then the ConditionResult

inputs == <<path, operator, expected, request>>
vars == <<inputs, result>>

Ask(op, e, r) ==
  EvaluateCondition([condition_id |-> 1, path |-> path, operator |-> op, expected |-> e], r)

Init ==
  /\ path \in Paths /\ operator \in Operators
  /\ expected \in ExpectedValues
  /\ request \in Requests
  /\ result = "pending"

Evaluate ==
  /\ result = "pending"
  /\ result' = Ask(operator, expected, request)
  /\ UNCHANGED inputs

Next == Evaluate \/ (result # "pending" /\ UNCHANGED vars)

Spec == Init /\ [][Next]_vars

\* The invariant behind the properties: the result is that of the inputs.
EvaluatedAsAsked ==
  /\ path \in Paths /\ operator \in Operators
  /\ expected \in ExpectedValues /\ request \in Requests
  /\ result \in {"pending", Ask(operator, expected, request)}
-----------------------------------------------------------------------------
Resolution == ResolveFieldPath(request, path)

Opposites == {<<"equals", "not_equals">>, <<"in", "not_in">>,
              <<"greater_than", "less_than_or_equal">>, <<"less_than", "greater_than_or_equal">>}

(***************************************************************************)
(* Opposite operators are errors together, and otherwise give opposite     *)
(* answers about a present field; about an absent one all say no_match, so *)
(* that no condition but not_exists can be met by leaving a field out      *)
(* (operators.py 510-656).                                                 *)
(***************************************************************************)
OppositesDisagree ==
  result # "pending" =>
    /\ \A pair \in Opposites : operator \in {pair[1], pair[2]} =>
         LET first == Ask(pair[1], expected, request)
             second == Ask(pair[2], expected, request)
         IN /\ (first = "error") <=> (second = "error")
            /\ (Resolution.status = "present" /\ first # "error") => first # second
    /\ Resolution.status = "absent" => ((result = "match") <=> (operator = "not_exists"))

(***************************************************************************)
(* A match stays in its family: whatever an author wrote and the validator *)
(* let through, equals and in match only a value of the actual value's own *)
(* family, although Python finds True equal to 1 (operators.py 544-562,    *)
(* which looks at the first item only, and condition.py 174-217).          *)
(***************************************************************************)
MatchStaysInFamily ==
  (result = "match" /\ operator \in {"equals", "in"}) =>
    \E i \in DOMAIN expected.items :
      /\ expected.items[i] = Resolution.value
      /\ \A j \in DOMAIN expected.items : expected.items[j].family = Resolution.value.family

\* The paths that name something a request may have: a top-level field, a
\* context or one of its leaves, the subject's attributes or one of them.
Declared(p) ==
  \/ Len(p) = 1 /\ p[1] \in TopLevelFields \cup DOMAIN ContextLeaves \cup {"subject_attrs"}
  \/ Len(p) = 2 /\ p[1] \in DOMAIN ContextLeaves /\ p[2] \in ContextLeaves[p[1]]
  \/ Len(p) = 2 /\ p[1] = "subject_attrs"

(***************************************************************************)
(* Errors are about the policy and the shape of the request, never about   *)
(* its values: if a path resolves in two requests to the same status and   *)
(* family, the condition is an error for both or for neither; and a path   *)
(* nobody declared is an error for every operator and every request        *)
(* (operators.py 358-431 and 693-760).                                     *)
(***************************************************************************)
ErrorsAreAboutShape ==
  result # "pending" =>
    /\ \A r \in Requests :
         LET other == ResolveFieldPath(r, path)
         IN ( /\ other.status = Resolution.status
              /\ other.value.family = Resolution.value.family )
            => ((result = "error") <=> (Ask(operator, expected, r) = "error"))
    /\ ~Declared(path) => result = "error"
=============================================================================
