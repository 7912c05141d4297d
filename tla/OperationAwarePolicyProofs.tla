---------------------- MODULE OperationAwarePolicyProofs -----------------------
(***************************************************************************)
(* Lemmas about the operators of OperationAwarePolicy and PolicyDocument,  *)
(* for lists of rules of any length: what sorting keeps and orders, what   *)
(* the evaluation of a rule's conditions says, and that loading a document *)
(* keeps its meaning.                                                      *)
(***************************************************************************)
EXTENDS PolicyDocument, FiniteSetTheorems, TLAPS

IsStrictTotalOrder(before, S) ==
  /\ \A i \in S : <<i, i>> \notin before
  /\ \A i, j \in S : i = j \/ <<i, j>> \in before \/ <<j, i>> \in before
  /\ \A i, j, k \in S : <<i, j>> \in before /\ <<j, k>> \in before => <<i, k>> \in before

\* How many elements of S come before i.
Rank(S, before, i) == Cardinality({j \in S : <<j, i>> \in before})

LEMMA RankBounds ==
  ASSUME NEW S, IsFiniteSet(S), NEW before, IsStrictTotalOrder(before, S), NEW i \in S
  PROVE  Rank(S, before, i) \in 0 .. Cardinality(S) - 1
<1> DEFINE below == {j \in S : <<j, i>> \in before}
<1>1. below \in SUBSET S /\ below # S
  BY DEF IsStrictTotalOrder
<1> HIDE DEF below
<1>2. /\ IsFiniteSet(below) /\ Cardinality(below) <= Cardinality(S)
      /\ Cardinality(S) = Cardinality(below) => S = below
  BY <1>1, FS_Subset
<1>3. Cardinality(S) \in Nat /\ Cardinality(below) \in Nat
  BY <1>2, FS_CardinalityType
<1>4. Cardinality(below) \in 0 .. Cardinality(S) - 1
  BY <1>1, <1>2, <1>3
<1> QED BY <1>4 DEF Rank, below

LEMMA RankIsMonotone ==
  ASSUME NEW S, IsFiniteSet(S), NEW before, IsStrictTotalOrder(before, S),
         NEW i \in S, NEW k \in S, <<i, k>> \in before
  PROVE  Rank(S, before, i) < Rank(S, before, k)
<1> DEFINE A == {j \in S : <<j, i>> \in before}
           B == {j \in S : <<j, k>> \in before}
<1>1. A \in SUBSET B /\ A # B /\ B \in SUBSET S
  BY DEF IsStrictTotalOrder
<1> HIDE DEF A, B
<1>2. IsFiniteSet(B)
  BY <1>1, FS_Subset
<1>3. IsFiniteSet(A) /\ Cardinality(A) <= Cardinality(B) /\ (Cardinality(B) = Cardinality(A) => B = A)
  BY <1>1, <1>2, FS_Subset
<1>4. Cardinality(A) \in Nat /\ Cardinality(B) \in Nat
  BY <1>2, <1>3, FS_CardinalityType
<1>5. Cardinality(A) < Cardinality(B)
  BY <1>1, <1>3, <1>4
<1> QED BY <1>5 DEF Rank, A, B

\* The ranks of n elements are 0 to n - 1, each once.
LEMMA EveryRankIsTaken ==
  ASSUME NEW S, IsFiniteSet(S), NEW before, IsStrictTotalOrder(before, S),
         NEW n \in 0 .. Cardinality(S) - 1
  PROVE  \E i \in S : Rank(S, before, i) = n
<1> DEFINE T == 0 .. Cardinality(S) - 1
           rank == [i \in S |-> Rank(S, before, i)]
<1>1. Cardinality(S) \in Nat
  BY FS_CardinalityType
<1>2. rank \in [S -> T]
  BY RankBounds
<1>3. \A i, k \in S : rank[i] = rank[k] => i = k
  <2> SUFFICES ASSUME NEW i \in S, NEW k \in S, Rank(S, before, i) = Rank(S, before, k)
               PROVE  i = k
    OBVIOUS
  <2>1. Rank(S, before, i) \in Int /\ Rank(S, before, k) \in Int
    BY RankBounds, <1>1
  <2>2. <<i, k>> \notin before /\ <<k, i>> \notin before
    BY RankIsMonotone, <2>1
  <2> QED BY <2>2 DEF IsStrictTotalOrder
<1>4. rank \in Injection(S, T)
  BY <1>2, <1>3 DEF Injection, IsInjective
<1>5. IsFiniteSet(T) /\ Cardinality(T) = Cardinality(S)
  BY <1>1, FS_Interval
<1> HIDE DEF rank, T
<1>6. rank \in Surjection(S, T)
  BY <1>4, <1>5, FS_Injection
<1> QED BY <1>6 DEF Surjection, rank, T

\* Nth lists a finite set, each element once and in order.
LEMMA NthLists ==
  ASSUME NEW S, IsFiniteSet(S), NEW before, IsStrictTotalOrder(before, S)
  PROVE  /\ \A k \in 1 .. Cardinality(S) : /\ Nth(S, before, k) \in S
                                          /\ Rank(S, before, Nth(S, before, k)) = k - 1
         /\ \A i \in S : \E k \in 1 .. Cardinality(S) : Nth(S, before, k) = i
         /\ \A k, l \in 1 .. Cardinality(S) :
              k < l => <<Nth(S, before, k), Nth(S, before, l)>> \in before
         /\ \A k, l \in 1 .. Cardinality(S) :
              Nth(S, before, k) = Nth(S, before, l) => k = l
<1>0. Cardinality(S) \in Nat
  BY FS_CardinalityType
<1>1. ASSUME NEW k \in 1 .. Cardinality(S)
      PROVE  Nth(S, before, k) \in S /\ Rank(S, before, Nth(S, before, k)) = k - 1
  <2>1. k - 1 \in 0 .. Cardinality(S) - 1
    BY <1>0
  <2>2. \E i \in S : Cardinality({j \in S : <<j, i>> \in before}) = k - 1
    BY <2>1, EveryRankIsTaken DEF Rank
  <2> QED BY <2>2 DEF Nth, Rank
<1>2. ASSUME NEW i \in S, NEW k \in S, Rank(S, before, i) = Rank(S, before, k)
      PROVE  i = k
  <2>1. Rank(S, before, i) \in Int /\ Rank(S, before, k) \in Int
    BY RankBounds, <1>0
  <2>2. <<i, k>> \notin before /\ <<k, i>> \notin before
    BY RankIsMonotone, <1>2, <2>1
  <2> QED BY <2>2 DEF IsStrictTotalOrder
<1>3. ASSUME NEW i \in S
      PROVE  \E k \in 1 .. Cardinality(S) : Nth(S, before, k) = i
  <2>1. Rank(S, before, i) + 1 \in 1 .. Cardinality(S) /\ Rank(S, before, i) \in Int
    BY RankBounds, <1>0
  <2>2. /\ Nth(S, before, Rank(S, before, i) + 1) \in S
        /\ Rank(S, before, Nth(S, before, Rank(S, before, i) + 1)) = Rank(S, before, i)
    BY <1>1, <2>1
  <2> QED BY <1>2, <2>1, <2>2
<1>4. ASSUME NEW k \in 1 .. Cardinality(S), NEW l \in 1 .. Cardinality(S), k < l
      PROVE  <<Nth(S, before, k), Nth(S, before, l)>> \in before
  <2> DEFINE i == Nth(S, before, k)
             j == Nth(S, before, l)
  <2>1. i \in S /\ j \in S /\ Rank(S, before, i) = k - 1 /\ Rank(S, before, j) = l - 1
    BY <1>1
  <2> HIDE DEF i, j
  <2>2. i # j
    BY <1>0, <1>4, <2>1
  <2>3. <<j, i>> \notin before
    BY <1>0, <1>4, <2>1, RankIsMonotone
  <2>4. <<i, j>> \in before
    BY <2>1, <2>2, <2>3 DEF IsStrictTotalOrder
  <2> QED BY <2>4 DEF i, j
<1>5. ASSUME NEW k \in 1 .. Cardinality(S), NEW l \in 1 .. Cardinality(S),
             Nth(S, before, k) = Nth(S, before, l)
      PROVE  k = l
  BY <1>0, <1>1, <1>5
<1> QED BY <1>1, <1>3, <1>4, <1>5
-----------------------------------------------------------------------------
LEMMA SequenceDomain ==
  ASSUME NEW s, IsSequence(s)
  PROVE  Len(s) \in Nat /\ DOMAIN s = 1 .. Len(s) /\ IsFiniteSet(DOMAIN s)
                        /\ Cardinality(DOMAIN s) = Len(s)
<1>1. Len(s) \in Nat /\ DOMAIN s = 1 .. Len(s)
  BY DEF IsSequence
<1>2. IsFiniteSet(1 .. Len(s)) /\ Cardinality(1 .. Len(s)) = IF 1 > Len(s) THEN 0 ELSE Len(s) - 1 + 1
  BY <1>1, FS_Interval
<1>3. Cardinality(1 .. Len(s)) = Len(s)
  BY <1>1, <1>2
<1> QED BY <1>1, <1>2, <1>3

\* A list of n things is a sequence.
LEMMA ListIsSequence ==
  ASSUME NEW n \in Nat, NEW s, DOMAIN s = 1 .. n, s = [i \in DOMAIN s |-> s[i]]
  PROVE  IsSequence(s) /\ Len(s) = n
<1> DEFINE T == {s[i] : i \in DOMAIN s}
<1>1. s \in [1 .. n -> T]
  OBVIOUS
<1> HIDE DEF T
<1>2. s \in Seq(T) /\ Len(s) = n
  BY <1>1
<1> QED BY <1>2 DEF IsSequence, T

\* By rule_id, and by position where two are the same.
LEMMA PrecedenceIsStrictTotalOrder ==
  ASSUME NEW list, IsRuleList(list)
  PROVE  IsStrictTotalOrder(Precedence(list), DOMAIN list)
<1> DEFINE S == DOMAIN list
           before == Precedence(list)
<1>1. \A i \in S : i \in Int /\ list[i].rule_id \in Int
  BY SequenceDomain DEF IsRuleList
<1>2. \A i, j \in S : <<i, j>> \in before <=>
        (list[i].rule_id < list[j].rule_id \/ (list[i].rule_id = list[j].rule_id /\ i < j))
  BY DEF Precedence
<1> HIDE DEF before, S
<1> QED BY <1>1, <1>2 DEF IsStrictTotalOrder, before, S

\* sorted keeps every rule and puts none before one with a smaller rule_id; a
\* list whose rule_ids are unique is sorted strictly.
LEMMA SortingKeepsAndOrders ==
  ASSUME NEW list, IsRuleList(list)
  PROVE  /\ DOMAIN SortedById(list) = DOMAIN list
         /\ \A k \in DOMAIN list : \E i \in DOMAIN list : SortedById(list)[k] = list[i]
         /\ \A i \in DOMAIN list : \E k \in DOMAIN list : SortedById(list)[k] = list[i]
         /\ \A k, l \in DOMAIN list :
              k < l => SortedById(list)[k].rule_id <= SortedById(list)[l].rule_id
         /\ SemanticallyValid(list) =>
              \A k, l \in DOMAIN list :
                SortedById(list)[k].rule_id = SortedById(list)[l].rule_id => k = l
<1> DEFINE S == DOMAIN list
           before == Precedence(list)
           sorted == SortedById(list)
           pos(k) == Nth(S, before, k)
<1>1. IsFiniteSet(S) /\ S = 1 .. Cardinality(S)
  BY SequenceDomain DEF IsRuleList
<1>2. IsStrictTotalOrder(before, S)
  BY PrecedenceIsStrictTotalOrder
<1>3. /\ \A k \in S : pos(k) \in S
      /\ \A i \in S : \E k \in S : pos(k) = i
      /\ \A k, l \in S : k < l => <<pos(k), pos(l)>> \in before
      /\ \A k, l \in S : pos(k) = pos(l) => k = l
  <2> HIDE DEF S, before
  <2> DEFINE n == Cardinality(S)
  <2>1. /\ \A k \in 1 .. n : Nth(S, before, k) \in S
        /\ \A i \in S : \E k \in 1 .. n : Nth(S, before, k) = i
        /\ \A k, l \in 1 .. n : k < l => <<Nth(S, before, k), Nth(S, before, l)>> \in before
        /\ \A k, l \in 1 .. n : Nth(S, before, k) = Nth(S, before, l) => k = l
    BY <1>1, <1>2, NthLists
  <2> QED BY <1>1, <2>1
<1>4. DOMAIN sorted = S /\ \A k \in S : sorted[k] = list[pos(k)]
  BY DEF SortedById
<1>5. \A i, j \in S : <<i, j>> \in before => list[i].rule_id <= list[j].rule_id
  <2>1. \A i \in S : list[i].rule_id \in Int
    BY DEF IsRuleList
  <2> QED BY <2>1 DEF Precedence
<1>6. SemanticallyValid(list) => \A i, j \in S : list[i].rule_id = list[j].rule_id => i = j
  BY DEF SemanticallyValid, Distinct
<1> HIDE DEF S, before, sorted, pos
<1>7. /\ \A k \in S : \E i \in S : sorted[k] = list[i]
      /\ \A i \in S : \E k \in S : sorted[k] = list[i]
  BY <1>3, <1>4
<1>8. \A k, l \in S : k < l => sorted[k].rule_id <= sorted[l].rule_id
  <2> SUFFICES ASSUME NEW k \in S, NEW l \in S, k < l
               PROVE  sorted[k].rule_id <= sorted[l].rule_id
    OBVIOUS
  <2>1. pos(k) \in S /\ pos(l) \in S /\ <<pos(k), pos(l)>> \in before
    BY <1>3
  <2> QED BY <1>4, <1>5, <2>1
<1>9. SemanticallyValid(list) =>
        \A k, l \in S : sorted[k].rule_id = sorted[l].rule_id => k = l
  BY <1>3, <1>4, <1>6
<1> QED BY <1>4, <1>7, <1>8, <1>9 DEF S, sorted

\* The candidates are the rules of the list, sorted.
LEMMA CandidatesAreTheList ==
  ASSUME NEW list, IsRuleList(list), NEW r
  PROVE  LET found == SelectCandidateRules(list, r)
         IN /\ DOMAIN found = DOMAIN list /\ IsSequence(found) /\ Len(found) = Len(list)
            /\ \A k \in DOMAIN list : found[k].rule = SortedById(list)[k]
            /\ \A k \in DOMAIN list : \E i \in DOMAIN list : found[k].rule = list[i]
            /\ \A i \in DOMAIN list : \E k \in DOMAIN list : found[k].rule = list[i]
            /\ \A k, l \in DOMAIN list : k < l => found[k].rule.rule_id <= found[l].rule.rule_id
            /\ SemanticallyValid(list) =>
                 \A k, l \in DOMAIN list :
                   found[k].rule.rule_id = found[l].rule.rule_id => k = l
<1> DEFINE found == SelectCandidateRules(list, r)
<1>1. DOMAIN SortedById(list) = DOMAIN list
  BY SortingKeepsAndOrders
<1>2. /\ DOMAIN found = DOMAIN list /\ found = [k \in DOMAIN found |-> found[k]]
      /\ \A k \in DOMAIN list : found[k].rule = SortedById(list)[k]
  BY <1>1 DEF SelectCandidateRules
<1> DEFINE sorted == SortedById(list)
<1>3. /\ \A k \in DOMAIN list : \E i \in DOMAIN list : sorted[k] = list[i]
      /\ \A i \in DOMAIN list : \E k \in DOMAIN list : sorted[k] = list[i]
      /\ \A k, l \in DOMAIN list : k < l => sorted[k].rule_id <= sorted[l].rule_id
      /\ SemanticallyValid(list) =>
           \A k, l \in DOMAIN list : sorted[k].rule_id = sorted[l].rule_id => k = l
  BY SortingKeepsAndOrders
<1>4. \A k \in DOMAIN list : found[k].rule = sorted[k]
  BY <1>2
<1> HIDE DEF found, sorted
<1>5. IsSequence(found) /\ Len(found) = Len(list)
  BY <1>2, SequenceDomain, ListIsSequence DEF IsRuleList
<1>6. /\ \A k \in DOMAIN list : \E i \in DOMAIN list : found[k].rule = list[i]
      /\ \A i \in DOMAIN list : \E k \in DOMAIN list : found[k].rule = list[i]
  <2>1. ASSUME NEW k \in DOMAIN list PROVE \E i \in DOMAIN list : found[k].rule = list[i]
    <3>1. PICK i \in DOMAIN list : sorted[k] = list[i]
      BY <1>3
    <3> QED BY <3>1, <1>4
  <2>2. ASSUME NEW i \in DOMAIN list PROVE \E k \in DOMAIN list : found[k].rule = list[i]
    <3>1. PICK k \in DOMAIN list : sorted[k] = list[i]
      BY <1>3
    <3> QED BY <3>1, <1>4
  <2> QED BY <2>1, <2>2
<1>7. \A k, l \in DOMAIN list : k < l => found[k].rule.rule_id <= found[l].rule.rule_id
  BY <1>3, <1>4
<1>8. SemanticallyValid(list) =>
        \A k, l \in DOMAIN list : found[k].rule.rule_id = found[l].rule.rule_id => k = l
  <2> SUFFICES ASSUME SemanticallyValid(list), NEW k \in DOMAIN list, NEW l \in DOMAIN list,
                      found[k].rule.rule_id = found[l].rule.rule_id
               PROVE  k = l
    OBVIOUS
  <2>1. sorted[k].rule_id = sorted[l].rule_id
    BY <1>4
  <2> QED BY <1>3, <2>1
<1> QED BY <1>2, <1>5, <1>6, <1>7, <1>8 DEF found, sorted
-----------------------------------------------------------------------------
\* In a list with strictly rising rule_ids, the position of a rule is one more
\* than the number of rules that come before it, and so is given by their set.
LEMMA PositionIsRank ==
  ASSUME NEW n \in Nat, NEW rule, \A j \in 1 .. n : rule[j].rule_id \in Nat,
         \A j, k \in 1 .. n : j < k => rule[j].rule_id < rule[k].rule_id,
         NEW k \in 1 .. n
  PROVE  Cardinality({x \in {rule[j] : j \in 1 .. n} : x.rule_id < rule[k].rule_id}) = k - 1
<1> DEFINE S == 1 .. k - 1
           T == {x \in {rule[j] : j \in 1 .. n} : x.rule_id < rule[k].rule_id}
           f == [j \in S |-> rule[j]]
<1>1. IsFiniteSet(S) /\ Cardinality(S) = k - 1
  BY FS_Interval
<1>2. \A j \in S : j \in 1 .. n /\ j < k
  OBVIOUS
<1>3. f \in [S -> T]
  BY <1>2
<1>4. \A i, j \in S : f[i] = f[j] => i = j
  <2> SUFFICES ASSUME NEW i \in S, NEW j \in S, rule[i] = rule[j], i # j PROVE FALSE
    OBVIOUS
  <2>1. rule[i].rule_id < rule[j].rule_id \/ rule[j].rule_id < rule[i].rule_id
    BY <1>2
  <2> QED BY <1>2, <2>1
<1>5. \A x \in T : \E j \in S : f[j] = x
  <2> SUFFICES ASSUME NEW j \in 1 .. n, rule[j].rule_id < rule[k].rule_id
               PROVE  j \in S
    OBVIOUS
  <2>1. ~(k < j) /\ k # j
    OBVIOUS
  <2> QED BY <2>1
<1> HIDE DEF f, S, T
<1>6. f \in Bijection(S, T)
  BY <1>3, <1>4, <1>5 DEF Bijection, Injection, Surjection, IsInjective
<1>7. Cardinality(T) = Cardinality(S)
  BY <1>1, <1>6, FS_Bijection DEF ExistsBijection
<1> QED BY <1>1, <1>7 DEF T
-----------------------------------------------------------------------------
\* Loading an accepted document gives a list of rule objects.
LEMMA LoadedRulesAreAList ==
  ASSUME NEW d, IsDocument(d), BundleAccepted(d)
  PROVE  /\ IsRuleList(RulesOf(d)) /\ DOMAIN RulesOf(d) = DOMAIN d.rules
         /\ \A i \in DOMAIN d.rules : RulesOf(d)[i] = RuleOf(d.rules[i])
<1> DEFINE list == RulesOf(d)
<1>1. /\ DOMAIN list = DOMAIN d.rules /\ list = [i \in DOMAIN list |-> list[i]]
      /\ \A i \in DOMAIN d.rules : list[i] = RuleOf(d.rules[i])
  BY DEF RulesOf
<1> HIDE DEF list
<1>2. IsSequence(list)
  <2>1. Len(d.rules) \in Nat /\ DOMAIN d.rules = 1 .. Len(d.rules)
    BY SequenceDomain DEF IsDocument
  <2> QED BY <1>1, <2>1, ListIsSequence
<1>3. ASSUME NEW i \in DOMAIN d.rules
      PROVE  /\ RuleConstructible(RuleOf(d.rules[i])) /\ RuleOf(d.rules[i]).rule_id \in Nat
             /\ IsSequence(RuleOf(d.rules[i]).conditions)
  <2>1. RuleConstructible(RuleOf(d.rules[i]))
    BY DEF BundleAccepted, RuleAccepted
  <2>2. RuleOf(d.rules[i]).rule_id \in Nat
    BY DEF RuleOf, IsDocument
  <2>3. CASE d.rules[i].conditions = Null
    <3>1. RuleOf(d.rules[i]).conditions = <<>>
      BY <2>3 DEF RuleOf
    <3> QED BY <2>1, <2>2, <3>1 DEF IsSequence
  <2>4. CASE d.rules[i].conditions # Null
    <3>1. RuleOf(d.rules[i]).conditions = d.rules[i].conditions[1]
      BY <2>4 DEF RuleOf
    <3> QED BY <2>1, <2>2, <2>4, <3>1 DEF IsDocument
  <2> QED BY <2>3, <2>4
<1> QED BY <1>1, <1>2, <1>3 DEF IsRuleList, list

\* Selectors that are accepted restrict what was written down, and nothing else.
LEMMA SelectorsKeepMeaning ==
  ASSUME NEW w, IsSelectors(w), NEW fields, w # Null => SelectorsAccepted(w[1], fields), NEW r
  PROVE  AllAccept(Selectors(w), r) <=> WrittenMatch(w, r)
<1>1. CASE w = Null
  BY <1>1 DEF AllAccept, Selectors, WrittenMatch
<1>2. CASE w # Null
  <2> DEFINE m == w[1]
  <2>1. \A s \in DOMAIN m : m[s] # Null /\ m[s] = <<m[s][1]>>
    BY <1>2 DEF IsSelectors, IsOptional, SelectorsAccepted, Given
  <2>2. DOMAIN Selectors(w) = DOMAIN m /\ \A s \in DOMAIN m : Selectors(w)[s] = m[s][1]
    BY <1>2, <2>1 DEF Selectors
  <2>3. \A s \in DOMAIN m : DOMAIN m[s] = {1}
    BY <2>1
  <2>4. AllAccept(Selectors(w), r) <=> \A s \in DOMAIN m : Supplied(r, s) \cap m[s][1] # {}
    BY <2>2 DEF AllAccept, Accepts
  <2>5. WrittenMatch(w, r) <=> \A s \in DOMAIN m : Supplied(r, s) \cap m[s][1] # {}
    BY <1>2, <2>3 DEF WrittenMatch
  <2> QED BY <2>4, <2>5
<1> QED BY <1>1, <1>2
=============================================================================
