-------------------------- MODULE ConditionOperators -------------------------
(***************************************************************************)
(* Conditions of operation-aware policy rules: how a field path is         *)
(* resolved against a request, what the ten operators answer, and how the  *)
(* answers of one rule's conditions are put together                       *)
(* (src/src/basis_core/policy/operation_aware/operators.py, condition.py). *)
(*                                                                         *)
(* A value is a family and a number standing for the value in it.  An      *)
(* optional part of a request that is None is outside a DOMAIN.            *)
(***************************************************************************)
EXTENDS Integers, Sequences

ScalarFamilies == {"string", "number", "boolean"}
OtherFamilies == {"timestamp", "array", "structured_object"}

Scalars == [family : ScalarFamilies, value : Nat]
ValuesOfFields == [family : ScalarFamilies \cup OtherFamilies, value : Nat]

Scalar(f, v) == [family |-> f, value |-> v]

\* Python's ==, for which True is 1 and False is 0.
PyEqual(a, b) ==
  /\ a.value = b.value
  /\ a.family = b.family \/ {a.family, b.family} = {"boolean", "number"}

\* An expected_value: null, one scalar or an array of scalars.
ExpectedForms == [form : {"null", "scalar", "array"}, items : Seq(Scalars)]

\* A plausible bug: the array's items are checked one by one, never together.
ExpectedValueValid_Mixed(e) ==
  /\ e.form = "null" => e.items = <<>>
  /\ e.form = "scalar" => Len(e.items) = 1

\* What PolicyCondition's validator admits: arrays are homogeneous, and may be
\* empty.
ExpectedValueValid(e) ==
  /\ e.form = "null" => e.items = <<>>
  /\ e.form = "scalar" => Len(e.items) = 1
  /\ \A i, j \in DOMAIN e.items : e.items[i].family = e.items[j].family
-----------------------------------------------------------------------------
(***************************************************************************)
(* The request as paths see it: [fields, contexts, attrs].  A path is the  *)
(* sequence of its dotted segments.                                        *)
(***************************************************************************)
TopLevelFields ==
  {"request_id", "correlation_id", "subject_id", "subject_roles", "identity_source",
   "authority_mode", "action", "resource", "resource_type", "operation_intent",
   "evaluation_time", "expected_policy_version"}

ContextLeaves ==
  [location            |-> {"site_id", "building_id", "zone_id", "area_id"},
   device              |-> {"device_id", "device_class"},
   protocol_context    |-> {"protocol", "operation"},
   safety_context      |-> {"mode", "classification", "constraint_ids"},
   environment_context |-> {"mode", "condition_ids"},
   risk_context        |-> {"classification", "score"}]

EvidenceRoots == {"identity_evidence_reference", "adapter_evidence_reference"}

FieldFamily(field) ==
  CASE field = "subject_roles" -> "array" [] field = "evaluation_time" -> "timestamp"
    [] OTHER -> "string"

LeafFamily(leaf) ==
  CASE leaf = "score" -> "number" [] leaf \in {"constraint_ids", "condition_ids"} -> "array"
    [] OTHER -> "string"

\* What OperationAwareDecisionRequest and its context objects admit: nothing
\* in a request is a boolean, and the two lists of ids are never None.
RequestConstructible(r) ==
  /\ {"request_id", "subject_id", "subject_roles", "action"} \subseteq DOMAIN r.fields
  /\ DOMAIN r.fields \subseteq TopLevelFields
  /\ \A f \in DOMAIN r.fields : r.fields[f].family = FieldFamily(f)
  /\ DOMAIN r.contexts \subseteq DOMAIN ContextLeaves
  /\ \A x \in DOMAIN r.contexts :
       /\ DOMAIN r.contexts[x] \subseteq ContextLeaves[x]
       /\ ContextLeaves[x] \cap {"constraint_ids", "condition_ids"} \subseteq DOMAIN r.contexts[x]
       /\ \A leaf \in DOMAIN r.contexts[x] : r.contexts[x][leaf].family = LeafFamily(leaf)
  /\ \A a \in DOMAIN r.attrs : r.attrs[a].family = "string"

Structure == [family |-> "structured_object", value |-> 0]

Unknown == [status |-> "unknown", value |-> Structure]
Absent == [status |-> "absent", value |-> Structure]
Present(v) == [status |-> "present", value |-> v]

Lookup(partial, key) == IF key \in DOMAIN partial THEN Present(partial[key]) ELSE Absent

\* A plausible bug: a leaf nobody declared is taken for one nobody supplied.
DeclaredLeaf_Any(root, leaf) == TRUE

DeclaredLeaf(root, leaf) == leaf \in ContextLeaves[root]

\* _resolve_field_path: bounded traversal; an absent parent and an absent leaf
\* look the same, an undeclared name never does.
ResolveFieldPath(request, path) ==
  LET root == path[1]
  IN CASE root \in EvidenceRoots -> Unknown
       [] root = "subject_attrs" ->
            CASE Len(path) = 1 -> Present(Structure)
              [] Len(path) = 2 -> Lookup(request.attrs, path[2])
              [] OTHER -> Unknown
       [] root \in DOMAIN ContextLeaves ->
            CASE Len(path) = 1 ->
                   IF root \in DOMAIN request.contexts THEN Present(Structure) ELSE Absent
              [] Len(path) = 2 /\ DeclaredLeaf(root, path[2]) ->
                   IF root \in DOMAIN request.contexts
                     THEN Lookup(request.contexts[root], path[2]) ELSE Absent
              [] OTHER -> Unknown
       [] root \in TopLevelFields /\ Len(path) = 1 -> Lookup(request.fields, root)
       [] OTHER -> Unknown
-----------------------------------------------------------------------------
(***************************************************************************)
(* The operators.  Every comparison says no_match of an absent field, then *)
(* error unless actual and expected have comparable families, then what    *)
(* the comparison says.                                                    *)
(***************************************************************************)
Comparison(resolution, comparable, holds) ==
  IF resolution.status # "present" THEN "no_match"
  ELSE IF ~comparable THEN "error"
  ELSE IF holds THEN "match" ELSE "no_match"

\* equals, not_equals: one scalar of the actual value's family.
ScalarComparable(resolution, expected) ==
  /\ resolution.value.family \in ScalarFamilies
  /\ expected.form = "scalar"
  /\ expected.items[1].family = resolution.value.family

\* in, not_in: an array; only its first item's family is looked at.
ArrayComparable(resolution, expected) ==
  /\ resolution.value.family \in ScalarFamilies
  /\ expected.form = "array"
  /\ expected.items # <<>> => expected.items[1].family = resolution.value.family

\* The ordering operators: numbers only.
Orderable(resolution, expected) ==
  /\ resolution.value.family = "number"
  /\ expected.form = "scalar"
  /\ expected.items[1].family = "number"

IsItem(value, items) == \E i \in DOMAIN items : PyEqual(value, items[i])

OpEquals(r, e) == Comparison(r, ScalarComparable(r, e), PyEqual(r.value, e.items[1]))

\* A plausible bug: what is absent is taken to differ from everything.
OpNotEquals_AbsentDiffers(r, e) ==
  IF r.status # "present" THEN "match"
  ELSE Comparison(r, ScalarComparable(r, e), ~PyEqual(r.value, e.items[1]))

OpNotEquals(r, e) == Comparison(r, ScalarComparable(r, e), ~PyEqual(r.value, e.items[1]))

OpIn(r, e) == Comparison(r, ArrayComparable(r, e), IsItem(r.value, e.items))

OpNotIn(r, e) == Comparison(r, ArrayComparable(r, e), ~IsItem(r.value, e.items))

\* The four ordering operators differ only in the comparison.
OpOrdering(r, e, Holds(_, _)) ==
  Comparison(r, Orderable(r, e), Holds(r.value.value, e.items[1].value))

OpGreaterThan(r, e) == OpOrdering(r, e, LAMBDA a, b : a > b)
OpGreaterThanOrEqual(r, e) == OpOrdering(r, e, LAMBDA a, b : a >= b)
OpLessThan(r, e) == OpOrdering(r, e, LAMBDA a, b : a < b)
OpLessThanOrEqual(r, e) == OpOrdering(r, e, LAMBDA a, b : a <= b)

OpExists(r) == IF r.status = "present" THEN "match" ELSE "no_match"
OpNotExists(r) == IF r.status = "absent" THEN "match" ELSE "no_match"

SupportedOperators ==
  {"equals", "not_equals", "in", "not_in", "greater_than", "greater_than_or_equal",
   "less_than", "less_than_or_equal", "exists", "not_exists"}

\* evaluate_condition: the registry is closed, and an unknown path is an error
\* whatever the operator, exists and not_exists included.
EvaluateCondition(condition, request) ==
  LET r == ResolveFieldPath(request, condition.path)
      e == condition.expected
  IN IF condition.operator \notin SupportedOperators \/ r.status = "unknown" THEN "error"
     ELSE CASE condition.operator = "equals" -> OpEquals(r, e)
            [] condition.operator = "not_equals" -> OpNotEquals(r, e)
            [] condition.operator = "in" -> OpIn(r, e)
            [] condition.operator = "not_in" -> OpNotIn(r, e)
            [] condition.operator = "greater_than" -> OpGreaterThan(r, e)
            [] condition.operator = "greater_than_or_equal" -> OpGreaterThanOrEqual(r, e)
            [] condition.operator = "less_than" -> OpLessThan(r, e)
            [] condition.operator = "less_than_or_equal" -> OpLessThanOrEqual(r, e)
            [] condition.operator = "exists" -> OpExists(r)
            [] condition.operator = "not_exists" -> OpNotExists(r)
=============================================================================
