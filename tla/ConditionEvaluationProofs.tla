----------------------- MODULE ConditionEvaluationProofs -----------------------
(***************************************************************************)
(* Proofs about ConditionEvaluation, for any paths, operators, expected    *)
(* values and requests: arrays and lists of any length, numbers of any     *)
(* size, attributes of any name.                                           *)
(***************************************************************************)
EXTENDS ConditionEvaluation, TLAPS

(***************************************************************************)
(* A path resolves to one of three statuses, to a value if it is present,  *)
(* and to the unknown status just where nobody declared it.                *)
(***************************************************************************)
LEMMA LookupResolves ==
  ASSUME NEW partial, NEW key, \A k \in DOMAIN partial : partial[k] \in ValuesOfFields
  PROVE  /\ Lookup(partial, key).status \in {"present", "absent"}
         /\ Lookup(partial, key).value \in ValuesOfFields
BY DEF Lookup, Present, Absent, Structure, ValuesOfFields, OtherFamilies

LEMMA PathResolves ==
  ASSUME NEW r \in Requests, NEW p \in Paths
  PROVE  /\ ResolveFieldPath(r, p).status \in {"present", "absent", "unknown"}
         /\ ResolveFieldPath(r, p).value \in ValuesOfFields
         /\ (ResolveFieldPath(r, p).status = "unknown") <=> ~Declared(p)
<1>1. p \in Seq(STRING) /\ p # <<>> /\ Len(p) \in Nat
  BY PathsAssumption
<1>2. /\ \A f \in DOMAIN r.fields : r.fields[f] \in ValuesOfFields
      /\ \A x \in DOMAIN r.contexts : \A leaf \in DOMAIN r.contexts[x] :
           r.contexts[x][leaf] \in ValuesOfFields
      /\ \A a \in DOMAIN r.attrs : r.attrs[a] \in ValuesOfFields
  BY RequestsAssumption
<1>3. Structure \in ValuesOfFields
  BY DEF Structure, ValuesOfFields, OtherFamilies
<1>4. DOMAIN ContextLeaves = {"location", "device", "protocol_context", "safety_context",
                              "environment_context", "risk_context"}
  BY DEF ContextLeaves
<1> DEFINE root == p[1]
<1>a. /\ EvidenceRoots \cap (TopLevelFields \cup DOMAIN ContextLeaves \cup {"subject_attrs"}) = {}
      /\ TopLevelFields \cap (DOMAIN ContextLeaves \cup {"subject_attrs"}) = {}
      /\ "subject_attrs" \notin DOMAIN ContextLeaves
  BY <1>4 DEF EvidenceRoots, TopLevelFields
<1>5. CASE root \in EvidenceRoots
  <2>1. ~Declared(p)
    BY <1>5, <1>a DEF Declared
  <2>2. ResolveFieldPath(r, p) = Unknown
    BY <1>5, <1>a DEF ResolveFieldPath
  <2> QED BY <2>1, <2>2, <1>3 DEF Unknown
<1>6. CASE root = "subject_attrs"
  <2>1. CASE Len(p) = 1
    BY <2>1, <1>6, <1>a, <1>3 DEF ResolveFieldPath, Present, Declared
  <2>2. CASE Len(p) = 2
    <3>1. ResolveFieldPath(r, p) = Lookup(r.attrs, p[2])
      BY <2>2, <1>6, <1>a DEF ResolveFieldPath
    <3> QED BY <3>1, <2>2, <1>6, <1>2, LookupResolves DEF Declared
  <2>3. CASE Len(p) \notin {1, 2}
    BY <2>3, <1>6, <1>a, <1>3 DEF ResolveFieldPath, Unknown, Declared
  <2> QED BY <2>1, <2>2, <2>3
<1>7. CASE root \in DOMAIN ContextLeaves
  <2>0. root \notin EvidenceRoots /\ root # "subject_attrs" /\ root \notin TopLevelFields
    BY <1>7, <1>a
  <2>1. CASE Len(p) = 1
    <3>1. ResolveFieldPath(r, p) =
            IF root \in DOMAIN r.contexts THEN Present(Structure) ELSE Absent
      BY <2>0, <2>1, <1>7 DEF ResolveFieldPath
    <3> QED BY <3>1, <2>1, <1>7, <1>3 DEF Present, Absent, Declared
  <2>2. CASE Len(p) = 2 /\ p[2] \in ContextLeaves[root]
    <3>1. ResolveFieldPath(r, p) =
            IF root \in DOMAIN r.contexts THEN Lookup(r.contexts[root], p[2]) ELSE Absent
      BY <2>0, <2>2, <1>7 DEF ResolveFieldPath, DeclaredLeaf
    <3>2. Declared(p)
      BY <2>2, <1>7 DEF Declared
    <3>3. CASE root \in DOMAIN r.contexts
      BY <3>1, <3>2, <3>3, <1>2, LookupResolves
    <3>4. CASE root \notin DOMAIN r.contexts
      BY <3>1, <3>2, <3>4, <1>3 DEF Absent
    <3> QED BY <3>3, <3>4
  <2>3. CASE Len(p) # 1 /\ ~(Len(p) = 2 /\ p[2] \in ContextLeaves[root])
    <3>1. ResolveFieldPath(r, p) = Unknown
      BY <2>0, <2>3, <1>7 DEF ResolveFieldPath, DeclaredLeaf
    <3>2. ~Declared(p)
      BY <2>0, <2>3, <1>1 DEF Declared
    <3> QED BY <3>1, <3>2, <1>3 DEF Unknown
  <2> QED BY <2>1, <2>2, <2>3
<1>8. CASE root \notin EvidenceRoots \cup {"subject_attrs"} \cup DOMAIN ContextLeaves
  <2>1. CASE root \in TopLevelFields /\ Len(p) = 1
    <3>1. ResolveFieldPath(r, p) = Lookup(r.fields, root)
      BY <2>1, <1>8 DEF ResolveFieldPath
    <3> QED BY <3>1, <2>1, <1>2, LookupResolves DEF Declared
  <2>2. CASE ~(root \in TopLevelFields /\ Len(p) = 1)
    <3>1. ResolveFieldPath(r, p) = Unknown
      BY <2>2, <1>8 DEF ResolveFieldPath
    <3>2. ~Declared(p)
      BY <2>2, <1>8 DEF Declared
    <3> QED BY <3>1, <3>2, <1>3 DEF Unknown
  <2> QED BY <2>1, <2>2
<1> QED BY <1>5, <1>6, <1>7, <1>8
-----------------------------------------------------------------------------
\* An operator nobody supports, or a path nobody declared, is an error.
LEMMA UnsupportedIsError ==
  ASSUME NEW op, NEW e, NEW r,
         op \notin SupportedOperators \/ ResolveFieldPath(r, path).status = "unknown"
  PROVE  Ask(op, e, r) = "error"
<1> DEFINE c == [condition_id |-> 1, path |-> path, operator |-> op, expected |-> e]
<1>1. EvaluateCondition(c, r) = "error"
  BY DEF EvaluateCondition
<1> QED BY <1>1 DEF Ask

\* Otherwise the operator answers by the path's resolution.
LEMMA SupportedAnswers ==
  ASSUME NEW e, NEW r, ResolveFieldPath(r, path).status # "unknown"
  PROVE  /\ Ask("equals", e, r) = OpEquals(ResolveFieldPath(r, path), e)
         /\ Ask("not_equals", e, r) = OpNotEquals(ResolveFieldPath(r, path), e)
         /\ Ask("in", e, r) = OpIn(ResolveFieldPath(r, path), e)
         /\ Ask("not_in", e, r) = OpNotIn(ResolveFieldPath(r, path), e)
         /\ Ask("greater_than", e, r) = OpGreaterThan(ResolveFieldPath(r, path), e)
         /\ Ask("greater_than_or_equal", e, r) = OpGreaterThanOrEqual(ResolveFieldPath(r, path), e)
         /\ Ask("less_than", e, r) = OpLessThan(ResolveFieldPath(r, path), e)
         /\ Ask("less_than_or_equal", e, r) = OpLessThanOrEqual(ResolveFieldPath(r, path), e)
         /\ Ask("exists", e, r) = OpExists(ResolveFieldPath(r, path))
         /\ Ask("not_exists", e, r) = OpNotExists(ResolveFieldPath(r, path))
<1> DEFINE resolution == ResolveFieldPath(r, path)
<1> HIDE DEF resolution
<1>1. ASSUME NEW c, c.operator \in SupportedOperators, c.path = path, c.expected = e
      PROVE  EvaluateCondition(c, r) =
               CASE c.operator = "equals" -> OpEquals(resolution, e)
                 [] c.operator = "not_equals" -> OpNotEquals(resolution, e)
                 [] c.operator = "in" -> OpIn(resolution, e)
                 [] c.operator = "not_in" -> OpNotIn(resolution, e)
                 [] c.operator = "greater_than" -> OpGreaterThan(resolution, e)
                 [] c.operator = "greater_than_or_equal" -> OpGreaterThanOrEqual(resolution, e)
                 [] c.operator = "less_than" -> OpLessThan(resolution, e)
                 [] c.operator = "less_than_or_equal" -> OpLessThanOrEqual(resolution, e)
                 [] c.operator = "exists" -> OpExists(resolution)
                 [] c.operator = "not_exists" -> OpNotExists(resolution)
  BY <1>1 DEF EvaluateCondition, resolution
<1> QED BY <1>1 DEF Ask, SupportedOperators, resolution
-----------------------------------------------------------------------------
(***************************************************************************)
(* In every reachable state the result is that of the inputs.              *)
(***************************************************************************)
THEOREM ResultIsOfTheInputs == Spec => []EvaluatedAsAsked
<1>1. Init => EvaluatedAsAsked
  BY DEF Init, EvaluatedAsAsked
<1>2. EvaluatedAsAsked /\ [Next]_vars => EvaluatedAsAsked'
  BY DEF EvaluatedAsAsked, Next, Evaluate, vars, inputs, Ask
<1> QED BY <1>1, <1>2, PTL DEF Spec

\* The four ordering operators, one by one.
LEMMA OrderingOperators ==
  ASSUME NEW r, NEW e
  PROVE  /\ OpGreaterThan(r, e) = Comparison(r, Orderable(r, e), r.value.value > e.items[1].value)
         /\ OpGreaterThanOrEqual(r, e) = Comparison(r, Orderable(r, e), r.value.value >= e.items[1].value)
         /\ OpLessThan(r, e) = Comparison(r, Orderable(r, e), r.value.value < e.items[1].value)
         /\ OpLessThanOrEqual(r, e) = Comparison(r, Orderable(r, e), r.value.value <= e.items[1].value)
BY DEF OpGreaterThan, OpGreaterThanOrEqual, OpLessThan, OpLessThanOrEqual, OpOrdering

\* A scalar expected value has an item, and numbers are ordered.
LEMMA OrderedNumbers ==
  ASSUME NEW e \in ExpectedValues, NEW r, r.value \in ValuesOfFields, Orderable(r, e)
  PROVE  /\ r.value.value > e.items[1].value <=> ~(r.value.value <= e.items[1].value)
         /\ r.value.value < e.items[1].value <=> ~(r.value.value >= e.items[1].value)
<1>1. e.items \in Seq(Scalars) /\ Len(e.items) = 1
  BY ExpectedValuesAssumption DEF ExpectedForms, ExpectedValueValid, Orderable
<1>2. e.items[1] \in Scalars
  BY <1>1
<1>3. r.value.value \in Nat /\ e.items[1].value \in Nat
  BY <1>2 DEF Scalars, ValuesOfFields
<1> QED BY <1>3

\* Opposite operators about one resolution.
LEMMA OppositeAnswers ==
  ASSUME NEW e \in ExpectedValues, NEW r, r.value \in ValuesOfFields,
         NEW first, NEW second,
         \/ first = OpEquals(r, e) /\ second = OpNotEquals(r, e)
         \/ first = OpIn(r, e) /\ second = OpNotIn(r, e)
         \/ first = OpGreaterThan(r, e) /\ second = OpLessThanOrEqual(r, e)
         \/ first = OpLessThan(r, e) /\ second = OpGreaterThanOrEqual(r, e)
  PROVE  /\ (first = "error") <=> (second = "error")
         /\ (r.status = "present" /\ first # "error") => first # second
         /\ r.status # "present" => first = "no_match" /\ second = "no_match"
<1>2. CASE first = OpEquals(r, e) /\ second = OpNotEquals(r, e)
  BY <1>2 DEF OpEquals, OpNotEquals, Comparison
<1>3. CASE first = OpIn(r, e) /\ second = OpNotIn(r, e)
  BY <1>3 DEF OpIn, OpNotIn, Comparison
<1>4. CASE first = OpGreaterThan(r, e) /\ second = OpLessThanOrEqual(r, e)
  BY <1>4, OrderingOperators, OrderedNumbers DEF Comparison
<1>5. CASE first = OpLessThan(r, e) /\ second = OpGreaterThanOrEqual(r, e)
  BY <1>5, OrderingOperators, OrderedNumbers DEF Comparison
<1> QED BY <1>2, <1>3, <1>4, <1>5

\* The operator of a condition, and its opposite, about one resolution.
LEMMA OppositesOfOneCondition ==
  ASSUME EvaluatedAsAsked, result # "pending"
  PROVE  OppositesDisagree
<1> DEFINE r == Resolution
<1>1. /\ path \in Paths /\ expected \in ExpectedValues /\ request \in Requests
      /\ result = Ask(operator, expected, request)
  BY DEF EvaluatedAsAsked
<1>2. r \in {ResolveFieldPath(request, path)} /\ r.value \in ValuesOfFields
  BY <1>1, PathResolves DEF Resolution
<1>3. ASSUME NEW pair \in Opposites
      PROVE  LET first == Ask(pair[1], expected, request)
                 second == Ask(pair[2], expected, request)
             IN /\ (first = "error") <=> (second = "error")
                /\ (r.status = "present" /\ first # "error") => first # second
  <2>1. CASE r.status = "unknown"
    BY <2>1, UnsupportedIsError DEF Resolution
  <2>2. CASE r.status # "unknown"
    <3>1. \/ pair[1] = "equals" /\ pair[2] = "not_equals"
          \/ pair[1] = "in" /\ pair[2] = "not_in"
          \/ pair[1] = "greater_than" /\ pair[2] = "less_than_or_equal"
          \/ pair[1] = "less_than" /\ pair[2] = "greater_than_or_equal"
      BY DEF Opposites
    <3> QED BY <3>1, <2>2, <1>1, <1>2, SupportedAnswers, OppositeAnswers DEF Resolution
  <2> QED BY <2>1, <2>2
<1>4. ASSUME r.status = "absent"
      PROVE  (result = "match") <=> (operator = "not_exists")
  <2>1. CASE operator \notin SupportedOperators
    BY <2>1, <1>1, UnsupportedIsError DEF SupportedOperators
  <2>2. CASE operator \in SupportedOperators
    BY <2>2, <1>1, <1>4, SupportedAnswers, OrderingOperators
       DEF Resolution, SupportedOperators, OpEquals, OpNotEquals, OpIn, OpNotIn, OpExists,
           OpNotExists, Comparison
  <2> QED BY <2>1, <2>2
<1> QED BY <1>3, <1>4 DEF OppositesDisagree

(***************************************************************************)
(* Opposite operators never agree about a present value and never differ   *)
(* in being errors, and an absent field meets nothing but not_exists.      *)
(***************************************************************************)
THEOREM OppositesNeverAgree == Spec => []OppositesDisagree
<1>1. EvaluatedAsAsked => OppositesDisagree
  BY OppositesOfOneCondition DEF OppositesDisagree
<1> QED BY <1>1, ResultIsOfTheInputs, PTL
-----------------------------------------------------------------------------
\* Two values of one family that Python finds equal are one value.
LEMMA EqualInFamily ==
  ASSUME NEW a \in ValuesOfFields, NEW b \in Scalars, a.family = b.family, PyEqual(a, b)
  PROVE  a = b
BY DEF PyEqual, ValuesOfFields, Scalars

LEMMA MatchesAreOfTheFamily ==
  ASSUME EvaluatedAsAsked
  PROVE  MatchStaysInFamily
<1> SUFFICES ASSUME result = "match", operator \in {"equals", "in"}
             PROVE  \E i \in DOMAIN expected.items :
                      /\ expected.items[i] = Resolution.value
                      /\ \A j \in DOMAIN expected.items :
                           expected.items[j].family = Resolution.value.family
  BY DEF MatchStaysInFamily
<1> DEFINE r == Resolution
           items == expected.items
<1>1. /\ path \in Paths /\ expected \in ExpectedValues /\ request \in Requests
      /\ Ask(operator, expected, request) = "match"
  BY DEF EvaluatedAsAsked
<1>2. /\ items \in Seq(Scalars)
      /\ \A i, j \in DOMAIN items : items[i].family = items[j].family
      /\ expected.form = "scalar" => Len(items) = 1
  BY <1>1, ExpectedValuesAssumption DEF ExpectedForms, ExpectedValueValid
<1>3. r.value \in ValuesOfFields /\ r.status # "unknown"
  BY <1>1, PathResolves, UnsupportedIsError DEF Resolution
<1>4. \E i \in DOMAIN items : PyEqual(r.value, items[i]) /\ items[1].family = r.value.family
  <2>1. CASE operator = "equals"
    <3>1. OpEquals(r, expected) = "match"
      BY <2>1, <1>1, <1>3, SupportedAnswers DEF Resolution
    <3>2. ScalarComparable(r, expected) /\ PyEqual(r.value, items[1])
      BY <3>1 DEF OpEquals, Comparison
    <3>3. 1 \in DOMAIN items
      BY <3>2, <1>2 DEF ScalarComparable
    <3> QED BY <3>2, <3>3 DEF ScalarComparable
  <2>2. CASE operator = "in"
    <3>1. OpIn(r, expected) = "match"
      BY <2>2, <1>1, <1>3, SupportedAnswers DEF Resolution
    <3>2. ArrayComparable(r, expected) /\ IsItem(r.value, items)
      BY <3>1 DEF OpIn, Comparison
    <3>3. PICK i \in DOMAIN items : PyEqual(r.value, items[i])
      BY <3>2 DEF IsItem
    <3>4. items # <<>>
      BY <3>3, <1>2
    <3> QED BY <3>2, <3>3, <3>4 DEF ArrayComparable
  <2> QED BY <2>1, <2>2
<1>5. PICK i \in DOMAIN items : PyEqual(r.value, items[i]) /\ items[1].family = r.value.family
  BY <1>4
<1>6. \A j \in DOMAIN items : items[j] \in Scalars /\ items[j].family = r.value.family
  <2>1. 1 \in DOMAIN items
    BY <1>5, <1>2
  <2> QED BY <2>1, <1>2, <1>5
<1>7. items[i] = r.value
  BY <1>3, <1>5, <1>6, EqualInFamily
<1> QED BY <1>6, <1>7

(***************************************************************************)
(* In every reachable state a match of equals or in is with a value of the *)
(* field's own family.                                                     *)
(***************************************************************************)
THEOREM MatchesStayInTheFamily == Spec => []MatchStaysInFamily
BY ResultIsOfTheInputs, MatchesAreOfTheFamily, PTL
-----------------------------------------------------------------------------
\* Whether an operator errs depends on the status and the family alone.
LEMMA ErrsByShape ==
  ASSUME path \in Paths, NEW op, NEW e, NEW r \in Requests, NEW s \in Requests,
         ResolveFieldPath(r, path).status = ResolveFieldPath(s, path).status,
         ResolveFieldPath(r, path).value.family = ResolveFieldPath(s, path).value.family
  PROVE  (Ask(op, e, r) = "error") <=> (Ask(op, e, s) = "error")
<1>1. CASE op \notin SupportedOperators \/ ResolveFieldPath(r, path).status = "unknown"
  BY <1>1, UnsupportedIsError
<1>2. CASE op \in SupportedOperators /\ ResolveFieldPath(r, path).status # "unknown"
  BY <1>2, SupportedAnswers, OrderingOperators
     DEF SupportedOperators, OpEquals, OpNotEquals, OpIn, OpNotIn, OpExists, OpNotExists,
         Comparison, ScalarComparable, ArrayComparable, Orderable
<1> QED BY <1>1, <1>2

LEMMA ErrorsByShape ==
  ASSUME EvaluatedAsAsked
  PROVE  ErrorsAreAboutShape
<1> SUFFICES ASSUME result # "pending"
             PROVE  ErrorsAreAboutShape
  BY DEF ErrorsAreAboutShape
<1>1. path \in Paths /\ request \in Requests /\ result = Ask(operator, expected, request)
  BY DEF EvaluatedAsAsked
<1>2. ~Declared(path) => result = "error"
  BY <1>1, PathResolves, UnsupportedIsError
<1> QED BY <1>1, <1>2, ErrsByShape DEF ErrorsAreAboutShape, Resolution

(***************************************************************************)
(* In every reachable state whether the result is an error depends on the  *)
(* condition and on the shape of what its path names, not on its value.    *)
(***************************************************************************)
THEOREM ErrorsComeFromShape == Spec => []ErrorsAreAboutShape
BY ResultIsOfTheInputs, ErrorsByShape, PTL
=============================================================================
