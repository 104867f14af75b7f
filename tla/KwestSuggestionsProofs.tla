------------------------ MODULE KwestSuggestionsProofs ------------------------
(***************************************************************************)
(* Theorems about the suggestions, for every database, every threshold and *)
(* every size of the buffers.  A learning finds just the frequent itemsets *)
(* since none can be frequent with a subset that is not: so an itemset of  *)
(* n is joined from two of n - 1, none that is frequent is pruned, and     *)
(* when a level has none, neither has any above it.                        *)
(***************************************************************************)
EXTENDS KwestSuggestions, KwestStoreProofs, FiniteSetTheorems, FunctionTheorems

-----------------------------------------------------------------------------
(* Itemsets: finite sets of numbers.                                       *)

LEMMA IdsAreBounded ==
  /\ IsFiniteSet(ItemIds) /\ ItemIds \subseteq Nat
  /\ \E N \in Nat : ItemIds \subseteq 0..N
<1>1. IsFiniteSet(TagIds) /\ IsFiniteSet(FileIds)
  BY FS_Interval, BoundAssumption DEF TagIds, FileIds
<1>2. \A i \in ItemIds : i \in Nat /\ (i <= MaxTno \/ i <= MaxFno)
  BY BoundAssumption DEF ItemIds, TagIds, FileIds
<1>3. ItemIds \subseteq 0..(MaxTno + MaxFno)
  BY <1>2, BoundAssumption
<1>4. IsFiniteSet(TagIds \cup FileIds)
  BY <1>1, FS_Union
<1>5. MaxTno + MaxFno \in Nat
  BY BoundAssumption
<1> QED BY <1>2, <1>3, <1>4, <1>5 DEF ItemIds

LEMMA ItemSets ==
  ASSUME NEW s \in SUBSET ItemIds
  PROVE  /\ IsFiniteSet(s) /\ Cardinality(s) \in Nat
         /\ s # {} => Max(s) \in s /\ \A i \in s : Max(s) >= i
<1>1. IsFiniteSet(s) /\ Cardinality(s) \in Nat
  BY IdsAreBounded, FS_Subset, FS_CardinalityType
<1>2. PICK N \in Nat : ItemIds \subseteq 0..N
  BY IdsAreBounded
<1> QED BY <1>1, <1>2, MaxExists

(* A set has subsets of every smaller size.                                *)
LEMMA SmallerSubset ==
  ASSUME NEW s, IsFiniteSet(s), NEW n \in 1..Cardinality(s)
  PROVE  \E r \in SUBSET s : Cardinality(r) = n
<1>1. Cardinality(s) \in Nat /\ ExistsBijection(1..Cardinality(s), s)
  BY FS_CardinalityType
<1>2. PICK f : f \in Bijection(1..Cardinality(s), s)
  BY <1>1 DEF ExistsBijection
<1>3. /\ f \in [1..Cardinality(s) -> s]
      /\ \A i, j \in 1..Cardinality(s) : f[i] = f[j] => i = j
  BY <1>2 DEF Bijection, Injection, IsInjective
<1> DEFINE r == {f[i] : i \in 1..n}
           g == [i \in 1..n |-> f[i]]
<1>4. 1..n \subseteq 1..Cardinality(s)
  BY <1>1
<1>5. r \in SUBSET s
  BY <1>3, <1>4
<1>6. g \in Bijection(1..n, r)
  <2>1. g \in [1..n -> r]
    OBVIOUS
  <2>2. \A i, j \in 1..n : g[i] = g[j] => i = j
    BY <1>3, <1>4
  <2>3. \A y \in r : \E i \in 1..n : g[i] = y
    OBVIOUS
  <2> HIDE DEF g, r
  <2> QED BY <2>1, <2>2, <2>3, Fun_IsBij
<1>7. IsFiniteSet(1..n) /\ Cardinality(1..n) = n
  BY FS_Interval, <1>1
<1>8. Cardinality(r) = n
  <2> HIDE DEF g, r
  <2>1. ExistsBijection(1..n, r)
    BY <1>6 DEF ExistsBijection
  <2> QED BY <2>1, <1>7, FS_Bijection
<1> QED BY <1>5, <1>8

(* Leaving out an item.                                                    *)
LEMMA WithoutOne ==
  ASSUME NEW s \in SUBSET ItemIds, NEW i \in s
  PROVE  /\ s \ {i} \in SUBSET ItemIds /\ (s \ {i}) \cup {i} = s
         /\ Cardinality(s) \in Nat \ {0} /\ Cardinality(s \ {i}) = Cardinality(s) - 1
<1>1. IsFiniteSet(s) /\ Cardinality(s) \in Nat
  BY ItemSets
<1>2. Cardinality(s \ {i}) = Cardinality(s) - 1
  BY <1>1, FS_RemoveElement
<1>3. Cardinality(s) # 0
  BY <1>1, FS_EmptySet
<1> QED BY <1>1, <1>2, <1>3

(* Two itemsets that differ in their last item make one larger by one.     *)
LEMMA JoinedSize ==
  ASSUME NEW s \in SUBSET ItemIds, NEW t \in SUBSET ItemIds, s # t, s # {}, t # {},
         Prefix(s) = Prefix(t)
  PROVE  s \cup t \in SUBSET ItemIds /\ Cardinality(s \cup t) = Cardinality(s) + 1
<1>1. Max(s) \in s /\ Max(t) \in t
  BY ItemSets
<1>2. Max(s) # Max(t)
  BY <1>1 DEF Prefix
<1>3. s \cup t = s \cup {Max(t)} /\ Max(t) \notin s
  BY <1>1, <1>2 DEF Prefix
<1>4. IsFiniteSet(s)
  BY ItemSets
<1> QED BY <1>3, <1>4, FS_AddElement

(* An itemset of two or more is joined from two of its subsets: without    *)
(* the last item and without the one before.                               *)
LEMMA JoinedFrom ==
  ASSUME NEW s \in SUBSET ItemIds, Cardinality(s) > 1
  PROVE  \E i, j \in s : /\ s \ {i} # s \ {j} /\ Prefix(s \ {i}) = Prefix(s \ {j})
                         /\ (s \ {i}) \cup (s \ {j}) = s
<1>1. s # {}
  BY FS_EmptySet
<1>2. PICK i \in s : i = Max(s) /\ \A k \in s : i >= k
  BY <1>1, ItemSets
<1>3. /\ s \ {i} \in SUBSET ItemIds /\ Cardinality(s \ {i}) = Cardinality(s) - 1
      /\ Cardinality(s) \in Nat
  BY WithoutOne
<1>4. s \ {i} # {}
  BY <1>3, FS_EmptySet
<1>5. PICK j \in s \ {i} : j = Max(s \ {i}) /\ \A k \in s \ {i} : j >= k
  BY <1>3, <1>4, ItemSets
<1>6. i \in s \ {j} /\ s \ {j} \in SUBSET ItemIds
  BY <1>5
<1>7. Max(s \ {j}) = i
  <2>1. PICK m \in s \ {j} : m = Max(s \ {j}) /\ \A k \in s \ {j} : m >= k
    BY <1>6, ItemSets
  <2>2. m >= i /\ i >= m /\ m \in Nat /\ i \in Nat
    BY <2>1, <1>2, <1>6, IdsAreBounded
  <2> QED BY <2>1, <2>2
<1>8. Prefix(s \ {i}) = Prefix(s \ {j})
  BY <1>5, <1>7 DEF Prefix
<1> QED BY <1>5, <1>8

-----------------------------------------------------------------------------
(* Items, supports and frequent itemsets.                                  *)

LEMMA ItemsAreIds ==
  ASSUME NEW d, NEW ty \in Types, NEW n
  PROVE  Items(d, ty) \subseteq ItemIds /\ Under(d, ty, n) \subseteq ItemIds
BY DEF Items, Under, get_user_tagged_files, get_user_tagged_tags, get_fid_under_tag,
       get_tid_under_tag, BelowTags, ItemIds

LEMMA TransactionsFinite ==
  ASSUME NEW d
  PROVE  IsFiniteSet(UserTags(d)) /\ Cardinality(UserTags(d)) \in Nat
<1>1. IsFiniteSet(TagIds)
  BY FS_Interval, BoundAssumption DEF TagIds
<1>2. UserTags(d) \subseteq TagIds
  BY DEF UserTags, IdsOf
<1> QED BY <1>1, <1>2, FS_Subset, FS_CardinalityType

(* No more transactions hold all of a set of items than hold a part of it. *)
LEMMA SupportFalls ==
  ASSUME NEW d, NEW ty, NEW s, NEW r \in SUBSET s
  PROVE  /\ Support(d, ty, s) \in Nat /\ Support(d, ty, r) \in Nat
         /\ Support(d, ty, s) <= Support(d, ty, r)
<1> DEFINE Holding(q) == {t \in UserTags(d) : q \subseteq Under(d, ty, d.tags[t])}
<1>1. Holding(s) \subseteq Holding(r) /\ Holding(r) \subseteq UserTags(d)
  OBVIOUS
<1>2. IsFiniteSet(Holding(r)) /\ IsFiniteSet(Holding(s))
  <2> HIDE DEF Holding
  <2>1. IsFiniteSet(Holding(r))
    BY <1>1, TransactionsFinite, FS_Subset
  <2> QED BY <2>1, <1>1, FS_Subset
<1>3. /\ Cardinality(Holding(s)) <= Cardinality(Holding(r))
      /\ Cardinality(Holding(s)) \in Nat /\ Cardinality(Holding(r)) \in Nat
  <2> HIDE DEF Holding
  <2> QED BY <1>1, <1>2, FS_Subset, FS_CardinalityType
<1> QED BY <1>3 DEF Support

LEMMA FrequentFalls ==
  ASSUME NEW d, NEW ty, NEW s, NEW r \in SUBSET s, Frequent(d, ty, s)
  PROVE  Frequent(d, ty, r)
<1>1. /\ UserTags(d) # {}
      /\ 100 * Support(d, ty, s) >= MINSUP * Cardinality(UserTags(d))
  BY DEF Frequent
<1>2. MINSUP * Cardinality(UserTags(d)) \in Nat
  BY TransactionsFinite, LimitAssumption
<1>3. 100 * Support(d, ty, r) >= MINSUP * Cardinality(UserTags(d))
  BY <1>1, <1>2, SupportFalls
<1> QED BY <1>1, <1>3 DEF Frequent

LEMMA FrequentHasSupport ==
  ASSUME NEW d, NEW ty, NEW s, Frequent(d, ty, s)
  PROVE  Support(d, ty, s) \in Nat \ {0}
<1>1. /\ UserTags(d) # {}
      /\ 100 * Support(d, ty, s) >= MINSUP * Cardinality(UserTags(d))
  BY DEF Frequent
<1>2. Cardinality(UserTags(d)) \in Nat \ {0}
  BY <1>1, TransactionsFinite, FS_EmptySet
<1>3. MINSUP * Cardinality(UserTags(d)) > 0
  BY <1>2, LimitAssumption
<1>4. Support(d, ty, s) \in Nat
  BY SupportFalls
<1>5. \A c, m \in Nat : 100 * c >= m /\ m > 0 => c # 0
  OBVIOUS
<1>6. MINSUP * Cardinality(UserTags(d)) \in Nat
  BY <1>2, LimitAssumption
<1> QED BY <1>1, <1>3, <1>4, <1>5, <1>6

(* The frequent itemsets of some size.                                     *)
FrequentSets(d, ty, sizes) ==
  {s \in SUBSET Items(d, ty) : Cardinality(s) \in sizes /\ Frequent(d, ty, s)}

(* A level without frequent itemsets has none above it.                    *)
LEMMA NoneAbove ==
  ASSUME NEW d, NEW ty \in Types, NEW n \in Nat \ {0}, FrequentSets(d, ty, {n}) = {},
         NEW s \in SUBSET Items(d, ty), Frequent(d, ty, s)
  PROVE  Cardinality(s) < n
<1>1. IsFiniteSet(s) /\ Cardinality(s) \in Nat
  BY ItemsAreIds, ItemSets
<1>2. ASSUME Cardinality(s) >= n PROVE FALSE
  <2>1. PICK r \in SUBSET s : Cardinality(r) = n
    BY <1>1, <1>2, SmallerSubset
  <2>2. Frequent(d, ty, r)
    BY <2>1, FrequentFalls
  <2> QED BY <2>1, <2>2 DEF FrequentSets
<1> QED BY <1>1, <1>2

(* What a level may join, prune and count.                                 *)
LEMMA CandidatesAreItems ==
  ASSUME NEW d, NEW ty \in Types, NEW n \in Nat \ {0}, NEW counts,
         DOMAIN counts \subseteq SUBSET Items(d, ty),
         NEW s \in generate_candidates(d, ty, n, counts)
  PROVE  s \in SUBSET Items(d, ty) /\ Cardinality(s) = n
<1>1. CASE n = 1
  <2>1. PICK i \in Items(d, ty) : s = {i}
    BY <1>1 DEF generate_candidates
  <2>2. Cardinality({i}) = 1
    BY FS_Singleton
  <2> QED BY <1>1, <2>1, <2>2
<1>2. CASE n # 1
  <2>1. PICK q, r \in Level(counts, n - 1) : q # r /\ Prefix(q) = Prefix(r) /\ s = q \cup r
    BY <1>2 DEF generate_candidates, Joined
  <2>2. /\ q \in SUBSET Items(d, ty) /\ r \in SUBSET Items(d, ty)
        /\ Cardinality(q) = n - 1 /\ Cardinality(r) = n - 1
    BY <2>1 DEF Level
  <2>3. q \in SUBSET ItemIds /\ r \in SUBSET ItemIds
    BY <2>2, ItemsAreIds
  <2>5. q # {} /\ r # {}
    BY <1>2, <2>2, FS_EmptySet
  <2>4. Cardinality(s) = Cardinality(q) + 1
    BY <2>1, <2>3, <2>5, JoinedSize
  <2> QED BY <2>1, <2>2, <2>4
<1> QED BY <1>1, <1>2

LEMMA CandidatesComplete ==
  ASSUME NEW d, NEW ty \in Types, NEW n \in Nat \ {0}, NEW counts,
         FrequentSets(d, ty, 1..(n - 1)) \subseteq DOMAIN counts,
         NEW s \in FrequentSets(d, ty, {n})
  PROVE  s \in generate_candidates(d, ty, n, counts)
<1>1. s \in SUBSET Items(d, ty) /\ Cardinality(s) = n /\ Frequent(d, ty, s)
  BY DEF FrequentSets
<1>2. s \in SUBSET ItemIds /\ IsFiniteSet(s)
  BY <1>1, ItemsAreIds, ItemSets
<1>3. CASE n = 1
  <2>1. PICK i : s = {i}
    BY <1>1, <1>2, <1>3, FS_Singleton
  <2> QED BY <1>1, <1>3, <2>1 DEF generate_candidates
<1>4. CASE n # 1
  <2>5. Cardinality(s) > 1
    BY <1>1, <1>4
  <2>1. PICK i, j \in s : /\ s \ {i} # s \ {j} /\ Prefix(s \ {i}) = Prefix(s \ {j})
                          /\ (s \ {i}) \cup (s \ {j}) = s
    BY <1>2, <2>5, JoinedFrom
  <2>2. ASSUME NEW k \in s PROVE s \ {k} \in Level(counts, n - 1)
    <3>1. Frequent(d, ty, s \ {k})
      BY <1>1, FrequentFalls
    <3>2. Cardinality(s \ {k}) = n - 1
      BY <1>1, <1>2, WithoutOne
    <3>3. s \ {k} \in FrequentSets(d, ty, 1..(n - 1))
      BY <1>1, <1>4, <3>1, <3>2 DEF FrequentSets
    <3> QED BY <3>2, <3>3 DEF Level
  <2>3. s \ {i} \in Level(counts, n - 1) /\ s \ {j} \in Level(counts, n - 1)
    BY <2>2
  <2>4. s \in Joined(Level(counts, n - 1))
    <3> DEFINE p == <<s \ {i}, s \ {j}>>
    <3>1. p \in {q \in Level(counts, n - 1) \X Level(counts, n - 1) :
                  q[1] # q[2] /\ Prefix(q[1]) = Prefix(q[2])}
      BY <2>1, <2>3
    <3>2. s = p[1] \cup p[2]
      BY <2>1
    <3> HIDE DEF p
    <3> QED BY <3>1, <3>2 DEF Joined
  <2> QED BY <1>4, <2>4 DEF generate_candidates
<1> QED BY <1>3, <1>4

LEMMA PrunedKeepsFrequent ==
  ASSUME NEW d, NEW ty \in Types, NEW n \in Nat, n > 1, NEW counts, NEW list,
         FrequentSets(d, ty, 1..(n - 1)) \subseteq DOMAIN counts,
         FrequentSets(d, ty, {n}) \subseteq list
  PROVE  FrequentSets(d, ty, {n}) \subseteq prune_candidates(list, counts)
<1> SUFFICES ASSUME NEW s \in FrequentSets(d, ty, {n}), NEW i \in s
             PROVE  s \ {i} \in DOMAIN counts
  BY DEF prune_candidates
<1>1. s \in SUBSET Items(d, ty) /\ Cardinality(s) = n /\ Frequent(d, ty, s)
  BY DEF FrequentSets
<1>2. Frequent(d, ty, s \ {i})
  BY <1>1, FrequentFalls
<1>3. Cardinality(s \ {i}) = n - 1
  BY <1>1, ItemsAreIds, WithoutOne
<1>4. s \ {i} \in FrequentSets(d, ty, 1..(n - 1))
  BY <1>1, <1>2, <1>3 DEF FrequentSets
<1> QED BY <1>4

-----------------------------------------------------------------------------
(* Rules.                                                                  *)

(* What counts of itemsets up to a size say is so.                         *)
CountsTrue(d, ty, counts, n) ==
  \A s \in DOMAIN counts :
    /\ s \subseteq Items(d, ty) /\ Cardinality(s) \in 1..n
    /\ Frequent(d, ty, s) /\ counts[s] = Support(d, ty, s)

(* A rule with the confidence the tables give it.                          *)
TrueRule(d, r) ==
  /\ r.lhs # {} /\ r.rhs # {} /\ r.lhs \cap r.rhs = {}
  /\ Frequent(d, r.type, r.lhs \cup r.rhs) /\ Confident(r.conf)
  /\ r.conf = Ratio(Support(d, r.type, r.lhs \cup r.rhs), Support(d, r.type, r.lhs))

(* There is a row for each confident split of the frequent itemsets.       *)
BearsOut(d, ty, s, i) ==
  /\ s # {i} /\ Frequent(d, ty, s)
  /\ Confident(Ratio(Support(d, ty, s), Support(d, ty, s \ {i})))
HasRow(rs, ty, s, i) == \E r \in rs : r.type = ty /\ r.lhs = s \ {i} /\ r.rhs = {i}
RowsFor(rs, d, ty, sizes) ==
  \A s \in SUBSET Items(d, ty) : \A i \in s :
    Cardinality(s) \in sizes /\ BearsOut(d, ty, s, i) => HasRow(rs, ty, s, i)

LEMMA CompletedRules ==
  ASSUME NEW ty, NEW n, NEW counts, NEW r \in complete_rules(ty, n, counts)
  PROVE  \E s \in Level(counts, n) : \E i \in s :
           /\ i \in ItemIds /\ s \ {i} \in DOMAIN counts
           /\ Confident(Ratio(counts[s], counts[s \ {i}]))
           /\ r = [type |-> ty, lhs |-> s \ {i}, rhs |-> {i},
                   conf |-> Ratio(counts[s], counts[s \ {i}])]
<1>1. PICK p \in Level(counts, n) \X ItemIds :
        /\ p[2] \in p[1] /\ p[1] \ {p[2]} \in DOMAIN counts
        /\ Confident(Ratio(counts[p[1]], counts[p[1] \ {p[2]}]))
        /\ r = [type |-> ty, lhs |-> p[1] \ {p[2]}, rhs |-> {p[2]},
                conf |-> Ratio(counts[p[1]], counts[p[1] \ {p[2]}])]
  BY DEF complete_rules
<1> QED BY <1>1

(* The rules of a level are true and rows of the table.                    *)
LEMMA RulesTrue ==
  ASSUME NEW d, NEW ty \in Types, NEW n \in Nat \ {0}, NEW counts,
         CountsTrue(d, ty, counts, n), NEW r \in complete_rules(ty, n, counts)
  PROVE  TrueRule(d, r) /\ r \in RuleRows
<1>1. PICK s \in Level(counts, n) : \E i \in s :
           /\ i \in ItemIds /\ s \ {i} \in DOMAIN counts
           /\ Confident(Ratio(counts[s], counts[s \ {i}]))
           /\ r = [type |-> ty, lhs |-> s \ {i}, rhs |-> {i},
                   conf |-> Ratio(counts[s], counts[s \ {i}])]
  BY CompletedRules
<1>2. PICK i \in s :
           /\ i \in ItemIds /\ s \ {i} \in DOMAIN counts
           /\ Confident(Ratio(counts[s], counts[s \ {i}]))
           /\ r = [type |-> ty, lhs |-> s \ {i}, rhs |-> {i},
                   conf |-> Ratio(counts[s], counts[s \ {i}])]
  BY <1>1
<1>3. s \in DOMAIN counts
  BY <1>1 DEF Level
<1>4. /\ s \subseteq Items(d, ty) /\ Frequent(d, ty, s) /\ counts[s] = Support(d, ty, s)
      /\ Cardinality(s \ {i}) # 0 /\ Frequent(d, ty, s \ {i})
      /\ counts[s \ {i}] = Support(d, ty, s \ {i})
  <2>1. Cardinality(s \ {i}) \in 1..n
    BY <1>2 DEF CountsTrue
  <2> QED BY <1>2, <1>3, <2>1 DEF CountsTrue
<1>5. s \ {i} # {} /\ (s \ {i}) \cup {i} = s
  BY <1>2, <1>4, FS_EmptySet
<1>6. counts[s] \in Nat /\ counts[s \ {i}] \in Nat \ {0}
  BY <1>4, FrequentHasSupport
<1>7. /\ r.type = ty /\ r.lhs = s \ {i} /\ r.rhs = {i}
      /\ r.conf = Ratio(counts[s], counts[s \ {i}])
  BY <1>2
<1>8. r.lhs \cup r.rhs = s /\ r.lhs # {} /\ r.rhs # {} /\ r.lhs \cap r.rhs = {}
  BY <1>5, <1>7
<1>9. TrueRule(d, r)
  BY <1>2, <1>4, <1>7, <1>8 DEF TrueRule
<1>10. s \subseteq ItemIds
  BY <1>4, ItemsAreIds
<1>11. r \in RuleRows
  BY <1>2, <1>6, <1>10 DEF RuleRows, Ratio
<1> QED BY <1>9, <1>11

(* A level leaves no confident split of its itemsets without a row.        *)
LEMMA RulesOfLevel ==
  ASSUME NEW d, NEW ty \in Types, NEW n \in Nat, n > 1, NEW counts, NEW rs,
         CountsTrue(d, ty, counts, n), FrequentSets(d, ty, 1..n) \subseteq DOMAIN counts,
         RowsFor(rs, d, ty, 1..(n - 1)), NEW unseen
  PROVE  RowsFor(add_rules(rs, unseen, complete_rules(ty, n, counts)), d, ty, 1..n)
<1> DEFINE new == complete_rules(ty, n, counts)
<1> SUFFICES ASSUME NEW s \in SUBSET Items(d, ty), NEW i \in s,
                    Cardinality(s) \in 1..n, BearsOut(d, ty, s, i)
             PROVE  HasRow(add_rules(rs, unseen, new), ty, s, i)
  BY DEF RowsFor
<1>1. CASE Cardinality(s) \in 1..(n - 1)
  <2>1. HasRow(rs, ty, s, i)
    BY <1>1 DEF RowsFor
  <2> QED BY <2>1 DEF HasRow, add_rules
<1>2. CASE Cardinality(s) \notin 1..(n - 1)
  <2>1. Cardinality(s) = n /\ s \in SUBSET ItemIds /\ i \in ItemIds
    BY <1>2, ItemsAreIds
  <2>2. Cardinality(s \ {i}) = n - 1
    BY <2>1, WithoutOne
  <2>3. Frequent(d, ty, s) /\ Frequent(d, ty, s \ {i})
    BY FrequentFalls DEF BearsOut
  <2>4. s \in DOMAIN counts /\ s \ {i} \in DOMAIN counts
    <3>1. s \in FrequentSets(d, ty, 1..n)
      BY <2>3 DEF FrequentSets
    <3>2. s \ {i} \in FrequentSets(d, ty, 1..n)
      BY <2>2, <2>3 DEF FrequentSets
    <3> QED BY <3>1, <3>2
  <2>5. Confident(Ratio(counts[s], counts[s \ {i}]))
    BY <2>4 DEF CountsTrue, BearsOut
  <2> DEFINE r == [type |-> ty, lhs |-> s \ {i}, rhs |-> {i},
                   conf |-> Ratio(counts[s], counts[s \ {i}])]
  <2>6. r \in new
    <3> DEFINE p == <<s, i>>
    <3>1. p \in {q \in Level(counts, n) \X ItemIds :
              /\ q[2] \in q[1] /\ q[1] \ {q[2]} \in DOMAIN counts
              /\ Confident(Ratio(counts[q[1]], counts[q[1] \ {q[2]}]))}
      BY <2>1, <2>4, <2>5 DEF Level
    <3>2. p[1] = s /\ p[2] = i
      OBVIOUS
    <3> HIDE DEF p
    <3> QED BY <3>1, <3>2 DEF complete_rules
  <2>7. r.type = ty /\ r.lhs = s \ {i} /\ r.rhs = {i}
    OBVIOUS
  <2> HIDE DEF r, new
  <2>8. CASE \E q \in rs \ unseen : SameRule(r, q)
    BY <2>7, <2>8 DEF SameRule, HasRow, add_rules
  <2>9. CASE \A q \in rs \ unseen : ~SameRule(r, q)
    BY <2>6, <2>7, <2>9 DEF HasRow, add_rules
  <2> QED BY <2>8, <2>9
<1> QED BY <1>1, <1>2

(* The rules of a level add one row for each rule that is looked for.      *)
OneRow(rs) ==
  \A r, q \in rs \ Reordered(rs) :
    r.type = q.type /\ r.lhs = q.lhs /\ r.rhs = q.rhs => r = q

LEMMA AddedOnce ==
  ASSUME NEW rs, OneRow(rs), NEW ty, NEW n, NEW counts, NEW unseen \in SUBSET Reordered(rs)
  PROVE  OneRow(add_rules(rs, unseen, complete_rules(ty, n, counts)))
<1> DEFINE new == complete_rules(ty, n, counts)
           Made(r, s, i) == /\ i \in s
                            /\ r = [type |-> ty, lhs |-> s \ {i}, rhs |-> {i},
                                    conf |-> Ratio(counts[s], counts[s \ {i}])]
<1>9. ASSUME NEW r \in new PROVE \E s, i : Made(r, s, i)
  <2>1. \E s \in Level(counts, n) : \E i \in s :
           /\ i \in ItemIds /\ s \ {i} \in DOMAIN counts
           /\ Confident(Ratio(counts[s], counts[s \ {i}]))
           /\ r = [type |-> ty, lhs |-> s \ {i}, rhs |-> {i},
                   conf |-> Ratio(counts[s], counts[s \ {i}])]
    BY CompletedRules
  <2> QED BY <2>1
<1>1. ASSUME NEW r \in new, NEW q \in new, r.lhs = q.lhs, r.rhs = q.rhs PROVE r = q
  <2>1. PICK s, i : Made(r, s, i)
    BY <1>9
  <2>2. PICK u, j : Made(q, u, j)
    BY <1>9
  <2>3. i = j /\ s \ {i} = u \ {j}
    BY <1>1, <2>1, <2>2
  <2>4. s = u
    BY <2>1, <2>2, <2>3
  <2> QED BY <2>1, <2>2, <2>3, <2>4
<1> HIDE DEF new
<1> DEFINE all == add_rules(rs, unseen, new)
<1>2. ASSUME NEW r \in all \ Reordered(all), NEW q \in all \ Reordered(all),
             r.type = q.type, r.lhs = q.lhs, r.rhs = q.rhs
      PROVE  r = q
  <2>5. r \notin unseen /\ q \notin unseen
    BY <1>2 DEF Reordered
  <2>1. CASE r \in rs /\ q \in rs
    BY <1>2, <2>1 DEF OneRow, Reordered
  <2>2. CASE r \notin rs /\ q \notin rs
    BY <1>1, <1>2, <2>2 DEF add_rules
  <2>3. CASE r \in rs /\ q \notin rs
    BY <1>2, <2>3, <2>5 DEF add_rules, SameRule
  <2>4. CASE r \notin rs /\ q \in rs
    BY <1>2, <2>4, <2>5 DEF add_rules, SameRule
  <2> QED BY <2>1, <2>2, <2>3, <2>4
<1> QED BY <1>2 DEF OneRow, new

-----------------------------------------------------------------------------
(* The inductive invariant.  Between two learnings nothing is kept of the  *)
(* lists; within one the counts are those of the tables, and as long as no *)
(* list was cut, nothing frequent and no rule of the levels done is left   *)
(* out, nor any rule of the files once the tags are learned.               *)

Found == IF phase = "rules" THEN level ELSE level - 1

Shapes ==
  /\ Inv
  /\ rules \subseteq RuleRows /\ committed \subseteq rules /\ OneRow(rules)
  /\ phase \in Phases /\ type \in Types /\ level \in Nat \ {0}
  /\ candidates \subseteq SUBSET ItemIds
  /\ cut \in BOOLEAN /\ changes \in 0..MaxChanges

Idle ==
  phase \notin LearnPhases => type = FILES /\ level = 1 /\ DOMAIN supportcnt = {}

Working ==
  phase \in LearnPhases =>
    /\ phase \in {"prune", "rules"} => level > 1
    /\ CountsTrue(db, type, supportcnt, Found)
    /\ phase \in {"prune", "count"} =>
         \A s \in candidates : s \in SUBSET Items(db, type) /\ Cardinality(s) = level

Complete ==
  ~cut =>
    /\ phase \in LearnPhases =>
         /\ FrequentSets(db, type, 1..Found) \subseteq DOMAIN supportcnt
         /\ phase \in {"prune", "count"} => FrequentSets(db, type, {level}) \subseteq candidates
         /\ RowsFor(rules, db, type, 1..(level - 1))
         /\ type = TAGS => RowsFor(rules, db, FILES, Nat)
    /\ phase = "learned" => RowsFor(rules, db, FILES, Nat) /\ RowsFor(rules, db, TAGS, Nat)

LearnInv == Shapes /\ Idle /\ Working /\ Complete

LEMMA NothingBelowOne ==
  ASSUME NEW d, NEW ty \in Types, NEW rs, NEW counts, DOMAIN counts = {}
  PROVE  /\ CountsTrue(d, ty, counts, 0) /\ FrequentSets(d, ty, 1..0) \subseteq DOMAIN counts
         /\ RowsFor(rs, d, ty, 1..0)
<1>1. CountsTrue(d, ty, counts, 0)
  BY DEF CountsTrue
<1>2. 1..0 = {}
  OBVIOUS
<1>3. FrequentSets(d, ty, 1..0) \subseteq DOMAIN counts
  BY <1>2 DEF FrequentSets
<1>4. RowsFor(rs, d, ty, 1..0)
  BY <1>2 DEF RowsFor
<1> QED BY <1>1, <1>3, <1>4

(* An itemset of one is not split.                                         *)
LEMMA NoRuleOfOne ==
  ASSUME NEW d, NEW ty \in Types, NEW rs
  PROVE  RowsFor(rs, d, ty, 1..1)
<1>1. ASSUME NEW s \in SUBSET Items(d, ty), NEW i \in s, Cardinality(s) = 1
      PROVE  s = {i}
  <2>1. IsFiniteSet(s)
    BY ItemsAreIds, ItemSets
  <2>2. PICK x : s = {x}
    BY <1>1, <2>1, FS_Singleton
  <2> QED BY <2>2
<1> QED BY <1>1 DEF RowsFor, BearsOut

LEMMA LearnInitInv == LearnInit => LearnInv
<1> SUFFICES ASSUME LearnInit PROVE LearnInv
  OBVIOUS
<1>1. Inv
  BY StartAssumption DEF LearnInit, Inv, Codes
<1>4. cut \in BOOLEAN
  BY DEF LearnInit
<1>5. OneRow(rules) /\ rules \subseteq RuleRows /\ committed \subseteq rules
  BY DEF LearnInit, OneRow
<1>6. /\ phase \in Phases /\ type \in Types /\ level \in Nat \ {0}
      /\ candidates \subseteq SUBSET ItemIds /\ changes \in 0..MaxChanges
  BY LimitAssumption DEF LearnInit, Phases, Types
<1>2. Shapes
  BY <1>1, <1>4, <1>5, <1>6 DEF Shapes
<1>3. DOMAIN supportcnt = {} /\ phase \notin LearnPhases /\ phase # "learned"
  BY DEF LearnInit, LearnPhases
<1> QED BY <1>2, <1>3 DEF LearnInit, LearnInv, Idle, Working, Complete

(* What only a learning reads is the same after a change of the tables.    *)
LEMMA ChangeInv ==
  ASSUME LearnInv, Change
  PROVE  LearnInv'
<1>1. Inv'
  BY NextSound DEF LearnInv, Shapes, Change
<1>2. /\ UNCHANGED <<rules, committed, phase, type, level, candidates, supportcnt, cut>>
      /\ changes' \in 0..MaxChanges
  BY LimitAssumption DEF LearnInv, Shapes, Change, learning
<1>3. Shapes'
  BY <1>1, <1>2 DEF LearnInv, Shapes
<1>4. phase \notin LearnPhases /\ phase # "learned"
  BY DEF Change, LearnPhases
<1> QED BY <1>2, <1>3, <1>4 DEF LearnInv, Idle, Working, Complete

LEMMA StoppedInv ==
  ASSUME LearnInv, Stopped
  PROVE  LearnInv'
<1>1. Inv'
  BY DEF LearnInv, Shapes, Stopped, Inv, tables, vars
<1>2. /\ phase' = "off" /\ rules' = committed /\ type' = FILES /\ level' = 1
      /\ candidates' = {} /\ supportcnt' = <<>> /\ committed' = committed /\ changes' = changes
  BY DEF Stopped, tables
<1>3. cut' = FALSE
  BY DEF Stopped
<1>6. cut' \in BOOLEAN
  BY <1>3
<1>7. OneRow(rules)' /\ (rules \subseteq RuleRows)' /\ (committed \subseteq rules)'
  BY <1>2 DEF LearnInv, Shapes, OneRow, Reordered
<1>8. /\ phase' \in Phases /\ type' \in Types /\ level' \in Nat \ {0}
      /\ candidates' \subseteq SUBSET ItemIds /\ changes' \in 0..MaxChanges
  BY <1>2 DEF LearnInv, Shapes, Phases, Types
<1>4. Shapes'
  BY <1>1, <1>6, <1>7, <1>8 DEF Shapes
<1>5. DOMAIN supportcnt' = {} /\ phase' \notin LearnPhases /\ phase' # "learned"
  BY <1>2 DEF LearnPhases
<1> QED BY <1>2, <1>4, <1>5 DEF LearnInv, Idle, Working, Complete

LEMMA BeginInv ==
  ASSUME LearnInv, Begin
  PROVE  LearnInv'
<1>1. Inv'
  BY DEF LearnInv, Shapes, Begin, Inv, tables, vars
<1>2. /\ phase = "off" /\ phase' = "generate" /\ cut' = FALSE
      /\ UNCHANGED <<db, rules, committed, type, level, candidates, supportcnt, changes>>
  BY DEF Begin, tables, vars
<1>3. type = FILES /\ level = 1 /\ DOMAIN supportcnt = {}
  BY <1>2 DEF LearnInv, Idle, LearnPhases
<1>4. Shapes'
  BY <1>1, <1>2 DEF LearnInv, Shapes, Phases, LearnPhases
<1>5. /\ CountsTrue(db, type, supportcnt, 0)
      /\ FrequentSets(db, type, 1..0) \subseteq DOMAIN supportcnt
      /\ RowsFor(rules, db, type, 1..0)
  BY <1>3, NothingBelowOne DEF LearnInv, Shapes
<1>6. Found' = 0 /\ level' = 1 /\ level' - 1 = 0
  BY <1>2, <1>3 DEF Found
<1>7. Working' /\ Complete'
  BY <1>2, <1>3, <1>5, <1>6 DEF Working, Complete, TAGS, FILES
<1> QED BY <1>2, <1>4, <1>7 DEF LearnInv, Idle, LearnPhases

LEMMA ServeInv ==
  ASSUME LearnInv, Serve
  PROVE  LearnInv'
<1>1. Inv'
  BY DEF LearnInv, Shapes, Serve, Inv, tables, vars
<1>2. /\ phase = "learned" /\ phase' = "live" /\ committed' = rules
      /\ UNCHANGED <<rules, type, level, candidates, supportcnt, changes, cut>>
  BY DEF Serve, tables
<1>3. Shapes'
  BY <1>1, <1>2 DEF LearnInv, Shapes, Phases
<1> QED BY <1>2, <1>3 DEF LearnInv, Idle, Working, Complete, LearnPhases

(* When a list is empty the loop ends, rightly: no itemset that large or   *)
(* larger is frequent.                                                     *)
LEMMA NothingLeft ==
  ASSUME NEW d, NEW ty \in Types, NEW n \in Nat \ {0}, NEW rs,
         FrequentSets(d, ty, {n}) = {}, RowsFor(rs, d, ty, 1..(n - 1))
  PROVE  RowsFor(rs, d, ty, Nat)
<1> SUFFICES ASSUME NEW s \in SUBSET Items(d, ty), NEW i \in s, BearsOut(d, ty, s, i)
             PROVE  HasRow(rs, ty, s, i)
  BY DEF RowsFor
<1>1. Cardinality(s) < n
  BY NoneAbove DEF BearsOut
<1>2. Cardinality(s) \in Nat \ {0}
  BY ItemsAreIds, WithoutOne
<1>3. Cardinality(s) \in 1..(n - 1)
  BY <1>1, <1>2
<1> QED BY <1>3 DEF RowsFor

LEMMA EndedInv ==
  ASSUME LearnInv, Ended, phase \in {"generate", "prune", "count"},
         UNCHANGED <<tables, rules, committed>>, cut' \in BOOLEAN,
         ~cut' => ~cut /\ FrequentSets(db, type, {level}) = {}
  PROVE  LearnInv'
<1>1. Inv'
  BY DEF LearnInv, Shapes, Inv, tables, vars
<1>2. /\ phase' = (IF type = FILES THEN "generate" ELSE "learned")
      /\ type' = (IF type = FILES THEN TAGS ELSE FILES)
      /\ level' = 1 /\ candidates' = {} /\ supportcnt' = <<>>
      /\ UNCHANGED <<db, rules, committed, changes>>
  BY DEF Ended, tables, vars
<1>3. type \in Types /\ type' \in Types /\ level \in Nat \ {0}
  BY <1>2 DEF LearnInv, Shapes, Types
<1>4. DOMAIN supportcnt' = {}
  BY <1>2
<1>5. Shapes'
  <2>1. OneRow(rules)' /\ (rules \subseteq RuleRows)' /\ (committed \subseteq rules)'
    BY <1>2 DEF LearnInv, Shapes
  <2>2. /\ phase' \in Phases /\ level' \in Nat \ {0}
        /\ candidates' \subseteq SUBSET ItemIds /\ changes' \in 0..MaxChanges
    BY <1>2 DEF LearnInv, Shapes, Phases, LearnPhases
  <2> QED BY <1>1, <1>3, <2>1, <2>2 DEF Shapes
<1>6. Idle'
  BY <1>2, <1>4 DEF Idle, LearnPhases, FILES, TAGS
<1>7. Found' = 0
  BY <1>2 DEF Found
<1>8. /\ CountsTrue(db', type', supportcnt', 0)
      /\ FrequentSets(db', type', 1..0) \subseteq DOMAIN supportcnt'
      /\ RowsFor(rules', db', type', 1..0)
  BY <1>3, <1>4, NothingBelowOne
<1>9. Working'
  BY <1>2, <1>7, <1>8 DEF Working
<1>10. ASSUME ~cut'
       PROVE  /\ RowsFor(rules, db, type, Nat)
              /\ type = TAGS => RowsFor(rules, db, FILES, Nat)
  <2>1. ~cut /\ FrequentSets(db, type, {level}) = {}
    BY <1>10
  <2>2. /\ RowsFor(rules, db, type, 1..(level - 1))
        /\ type = TAGS => RowsFor(rules, db, FILES, Nat)
    BY <2>1 DEF LearnInv, Complete, LearnPhases
  <2> QED BY <1>3, <2>1, <2>2, NothingLeft
<1>11. ASSUME ~cut', type = FILES
       PROVE  /\ FrequentSets(db', type', 1..Found') \subseteq DOMAIN supportcnt'
              /\ phase' = "generate" /\ RowsFor(rules', db', type', 1..(level' - 1))
              /\ RowsFor(rules', db', FILES, Nat)
  <2>1. level' - 1 = 0
    BY <1>2
  <2> QED BY <1>2, <1>7, <1>8, <1>10, <1>11, <2>1
<1>12. ASSUME ~cut', type # FILES
       PROVE  phase' = "learned" /\ RowsFor(rules', db', FILES, Nat) /\ RowsFor(rules', db', TAGS, Nat)
  BY <1>2, <1>3, <1>10, <1>12 DEF Types
<1>13. Complete'
  BY <1>11, <1>12 DEF Complete, LearnPhases
<1> QED BY <1>5, <1>6, <1>9, <1>13 DEF LearnInv

LEMMA GenerateInv ==
  ASSUME LearnInv, Generate
  PROVE  LearnInv'
<1> DEFINE all == generate_candidates(db, type, level, supportcnt)
<1>1. PICK list \in Kept(all, level) :
        /\ cut' = (cut \/ list # all)
        /\ IF list = {} THEN Ended
           ELSE /\ candidates' = list
                /\ phase' = (IF level > 1 THEN "prune" ELSE "count")
                /\ UNCHANGED <<type, level, supportcnt>>
  BY DEF Generate
<1>2. /\ phase = "generate" /\ UNCHANGED <<tables, rules, committed>>
      /\ UNCHANGED <<db, code, rules, committed, changes>>
  BY DEF Generate, tables, vars
<1>3. /\ type \in Types /\ level \in Nat \ {0} /\ Found = level - 1
      /\ CountsTrue(db, type, supportcnt, level - 1)
  BY <1>2 DEF LearnInv, Shapes, Working, Found, LearnPhases
<1>4. list \subseteq all
  BY DEF Kept
<1>5. cut' \in BOOLEAN
  BY <1>1 DEF LearnInv, Shapes
<1>6. ~cut' => ~cut /\ list = all
  BY <1>1 DEF LearnInv, Shapes
<1> HIDE DEF all
<1>7. \A s \in all : s \in SUBSET Items(db, type) /\ Cardinality(s) = level
  <2>1. DOMAIN supportcnt \subseteq SUBSET Items(db, type)
    BY <1>3 DEF CountsTrue
  <2> QED BY <1>3, <2>1, CandidatesAreItems DEF all
<1>8. ~cut => /\ FrequentSets(db, type, 1..(level - 1)) \subseteq DOMAIN supportcnt
              /\ FrequentSets(db, type, {level}) \subseteq all
              /\ RowsFor(rules, db, type, 1..(level - 1))
              /\ type = TAGS => RowsFor(rules, db, FILES, Nat)
  <2>1. ~cut => /\ FrequentSets(db, type, 1..(level - 1)) \subseteq DOMAIN supportcnt
                /\ RowsFor(rules, db, type, 1..(level - 1))
                /\ type = TAGS => RowsFor(rules, db, FILES, Nat)
    BY <1>2, <1>3 DEF LearnInv, Complete, LearnPhases
  <2>2. FrequentSets(db, type, 1..(level - 1)) \subseteq DOMAIN supportcnt
          => FrequentSets(db, type, {level}) \subseteq all
    BY <1>3, CandidatesComplete DEF all
  <2> QED BY <2>1, <2>2
<1>9. CASE list = {}
  <2>1. Ended
    BY <1>1, <1>9
  <2>2. ~cut' => ~cut /\ FrequentSets(db, type, {level}) = {}
    BY <1>6, <1>8, <1>9
  <2> QED BY <1>2, <1>5, <2>1, <2>2, EndedInv
<1>10. CASE list # {}
  <2>1. /\ candidates' = list /\ phase' = (IF level > 1 THEN "prune" ELSE "count")
        /\ UNCHANGED <<type, level, supportcnt>>
    BY <1>1, <1>10
  <2>2. /\ phase' \in {"prune", "count"} /\ phase' \in LearnPhases /\ phase' # "learned"
        /\ phase' \in {"prune", "rules"} => level' > 1
    BY <2>1 DEF LearnPhases
  <2>3. Found' = level - 1
    BY <2>1, <2>2 DEF Found
  <2>4. Shapes'
    <3>1. Inv'
      BY <1>2 DEF LearnInv, Shapes, Inv
    <3>2. list \subseteq SUBSET ItemIds
      BY <1>3, <1>4, <1>7, ItemsAreIds
    <3> QED BY <1>2, <1>5, <2>1, <2>2, <3>1, <3>2 DEF LearnInv, Shapes, Phases
  <2>5. Working'
    BY <1>2, <1>3, <1>4, <1>7, <2>1, <2>2, <2>3 DEF Working
  <2>6. Complete'
    BY <1>2, <1>6, <1>8, <2>1, <2>2, <2>3 DEF Complete
  <2> QED BY <2>2, <2>4, <2>5, <2>6 DEF LearnInv, Idle
<1> QED BY <1>9, <1>10

LEMMA PruneInv ==
  ASSUME LearnInv, Prune
  PROVE  LearnInv'
<1> DEFINE list == prune_candidates(candidates, supportcnt)
<1>1. /\ IF list = {} THEN Ended
         ELSE /\ candidates' = list /\ phase' = "count"
              /\ UNCHANGED <<type, level, supportcnt>>
      /\ phase = "prune" /\ UNCHANGED <<tables, rules, committed>>
      /\ UNCHANGED <<db, code, rules, committed, changes>>
  BY DEF Prune, tables, vars
<1>2. cut' = cut
  BY DEF Prune
<1>3. /\ type \in Types /\ level \in Nat /\ level > 1 /\ Found = level - 1
      /\ CountsTrue(db, type, supportcnt, level - 1)
      /\ \A s \in candidates : s \in SUBSET Items(db, type) /\ Cardinality(s) = level
  BY <1>1 DEF LearnInv, Shapes, Working, Found, LearnPhases
<1>4. list \subseteq candidates
  BY DEF prune_candidates
<1> HIDE DEF list
<1>5. ~cut => /\ FrequentSets(db, type, 1..(level - 1)) \subseteq DOMAIN supportcnt
              /\ FrequentSets(db, type, {level}) \subseteq list
              /\ RowsFor(rules, db, type, 1..(level - 1))
              /\ type = TAGS => RowsFor(rules, db, FILES, Nat)
  <2>1. ~cut => /\ FrequentSets(db, type, 1..(level - 1)) \subseteq DOMAIN supportcnt
                /\ FrequentSets(db, type, {level}) \subseteq candidates
                /\ RowsFor(rules, db, type, 1..(level - 1))
                /\ type = TAGS => RowsFor(rules, db, FILES, Nat)
    BY <1>1, <1>3 DEF LearnInv, Complete, LearnPhases
  <2>2. ASSUME FrequentSets(db, type, 1..(level - 1)) \subseteq DOMAIN supportcnt,
               FrequentSets(db, type, {level}) \subseteq candidates
        PROVE  FrequentSets(db, type, {level}) \subseteq list
    BY <1>3, <2>2, PrunedKeepsFrequent DEF list
  <2> QED BY <2>1, <2>2
<1>6. CASE list = {}
  <2>1. ~cut' => ~cut /\ FrequentSets(db, type, {level}) = {}
    BY <1>2, <1>5, <1>6
  <2>2. cut' \in BOOLEAN
    BY <1>2 DEF LearnInv, Shapes
  <2> QED BY <1>1, <1>6, <2>1, <2>2, EndedInv
<1>7. CASE list # {}
  <2>1. /\ candidates' = list /\ phase' = "count" /\ UNCHANGED <<type, level, supportcnt>>
    BY <1>1, <1>7
  <2>2. Found' = level - 1
    BY <2>1 DEF Found
  <2>3. Shapes'
    BY <1>1, <1>2, <1>4, <2>1 DEF LearnInv, Shapes, Inv, Phases, LearnPhases
  <2>4. Working'
    BY <1>1, <1>3, <1>4, <2>1, <2>2 DEF Working
  <2>5. Complete'
    BY <1>1, <1>2, <1>5, <2>1, <2>2 DEF Complete
  <2> QED BY <2>1, <2>3, <2>4, <2>5 DEF LearnInv, Idle, LearnPhases
<1> QED BY <1>6, <1>7

LEMMA CountInv ==
  ASSUME LearnInv, Count
  PROVE  LearnInv'
<1> DEFINE list == calculate_frequent_itemsets(db, type, candidates)
<1>1. /\ IF list = {} THEN Ended
         ELSE /\ supportcnt' = Counted(db, type, list, supportcnt)
              /\ candidates' = {} /\ UNCHANGED type
              /\ phase' = (IF level > 1 THEN "rules" ELSE "generate")
              /\ level' = (IF level > 1 THEN level ELSE level + 1)
      /\ phase = "count" /\ UNCHANGED <<tables, rules, committed>>
      /\ UNCHANGED <<db, code, rules, committed, changes>>
  BY DEF Count, tables, vars
<1>2. cut' = cut
  BY DEF Count
<1>3. /\ type \in Types /\ level \in Nat \ {0} /\ Found = level - 1
      /\ CountsTrue(db, type, supportcnt, level - 1)
      /\ \A s \in candidates : s \in SUBSET Items(db, type) /\ Cardinality(s) = level
  BY <1>1 DEF LearnInv, Shapes, Working, Found, LearnPhases
<1>4. \A s : s \in list <=> s \in candidates /\ Frequent(db, type, s)
  BY DEF calculate_frequent_itemsets
<1> HIDE DEF list
<1>5. ~cut => /\ FrequentSets(db, type, 1..(level - 1)) \subseteq DOMAIN supportcnt
              /\ FrequentSets(db, type, {level}) \subseteq list
              /\ RowsFor(rules, db, type, 1..(level - 1))
              /\ type = TAGS => RowsFor(rules, db, FILES, Nat)
  <2>1. ~cut => /\ FrequentSets(db, type, 1..(level - 1)) \subseteq DOMAIN supportcnt
                /\ FrequentSets(db, type, {level}) \subseteq candidates
                /\ RowsFor(rules, db, type, 1..(level - 1))
                /\ type = TAGS => RowsFor(rules, db, FILES, Nat)
    BY <1>1, <1>3 DEF LearnInv, Complete, LearnPhases
  <2> QED BY <2>1, <1>4 DEF FrequentSets
<1>6. CASE list = {}
  <2>1. ~cut' => ~cut /\ FrequentSets(db, type, {level}) = {}
    BY <1>2, <1>5, <1>6
  <2>2. cut' \in BOOLEAN
    BY <1>2 DEF LearnInv, Shapes
  <2> QED BY <1>1, <1>6, <2>1, <2>2, EndedInv
<1>7. CASE list # {}
  <2>1. /\ supportcnt' = Counted(db, type, list, supportcnt)
        /\ candidates' = {} /\ UNCHANGED type
        /\ phase' = (IF level > 1 THEN "rules" ELSE "generate")
        /\ level' = (IF level > 1 THEN level ELSE level + 1)
    BY <1>1, <1>7
  <2>2. /\ phase' \in {"rules", "generate"} /\ (phase' = "rules" => level' > 1)
        /\ level' \in Nat \ {0} /\ Found' = level
    BY <1>3, <2>1 DEF Found
  <2>3. /\ DOMAIN supportcnt' = DOMAIN supportcnt \cup list
        /\ \A s \in DOMAIN supportcnt' :
             supportcnt'[s] = IF s \in DOMAIN supportcnt THEN supportcnt[s]
                              ELSE Support(db, type, s)
    BY <2>1 DEF Counted
  <2>4. CountsTrue(db, type, supportcnt', level)
    <3> SUFFICES ASSUME NEW s \in DOMAIN supportcnt'
                 PROVE  /\ s \subseteq Items(db, type) /\ Cardinality(s) \in 1..level
                        /\ Frequent(db, type, s) /\ supportcnt'[s] = Support(db, type, s)
      BY DEF CountsTrue
    <3>1. CASE s \in DOMAIN supportcnt
      BY <1>3, <2>3, <3>1 DEF CountsTrue
    <3>2. CASE s \notin DOMAIN supportcnt
      BY <1>3, <1>4, <2>3, <3>2
    <3> QED BY <3>1, <3>2
  <2>5. Shapes'
    BY <1>1, <1>2, <2>1, <2>2 DEF LearnInv, Shapes, Inv, Phases, LearnPhases
  <2>6. Working'
    BY <1>1, <2>1, <2>2, <2>4 DEF Working
  <2>7. ~cut => FrequentSets(db, type, 1..level) \subseteq DOMAIN supportcnt'
    BY <1>3, <1>5, <2>3 DEF FrequentSets
  <2>8. ~cut => RowsFor(rules, db, type, 1..(level' - 1))
    <3>1. CASE level > 1
      BY <1>5, <2>1, <3>1
    <3>2. CASE ~(level > 1)
      <4>1. level' - 1 = 1
        BY <1>3, <2>1, <3>2
      <4>2. RowsFor(rules, db, type, 1..1)
        BY <1>3, NoRuleOfOne
      <4> QED BY <4>1, <4>2
    <3> QED BY <3>1, <3>2
  <2>9. Complete'
    BY <1>1, <1>2, <1>5, <2>1, <2>2, <2>7, <2>8 DEF Complete
  <2> QED BY <2>2, <2>5, <2>6, <2>9 DEF LearnInv, Idle, LearnPhases
<1> QED BY <1>6, <1>7

LEMMA RulesInv ==
  ASSUME LearnInv, Rules
  PROVE  LearnInv' /\ \A r \in rules' \ rules : TrueRule(db, r)
<1> DEFINE new == complete_rules(type, level, supportcnt)
<1>15. PICK unseen \in SUBSET Reordered(rules) : rules' = add_rules(rules, unseen, new)
  BY DEF Rules
<1>1. /\ rules' = add_rules(rules, unseen, new) /\ phase = "rules"
      /\ phase' = "generate" /\ level' = level + 1
      /\ UNCHANGED <<db, code, changes, committed, type, candidates, supportcnt>>
  BY <1>15 DEF Rules, tables, vars
<1>2. cut' = cut
  BY DEF Rules
<1>3. /\ type \in Types /\ level \in Nat /\ level > 1 /\ Found = level
      /\ CountsTrue(db, type, supportcnt, level)
  BY <1>1 DEF LearnInv, Shapes, Working, Found, LearnPhases
<1>4. \A r \in new : TrueRule(db, r) /\ r \in RuleRows
  BY <1>3, RulesTrue
<1>5. OneRow(add_rules(rules, unseen, new))
  BY AddedOnce DEF LearnInv, Shapes
<1>6. ~cut => /\ FrequentSets(db, type, 1..level) \subseteq DOMAIN supportcnt
              /\ RowsFor(rules, db, type, 1..(level - 1))
              /\ type = TAGS => RowsFor(rules, db, FILES, Nat)
  BY <1>1, <1>3 DEF LearnInv, Complete, LearnPhases
<1>7. ~cut => RowsFor(add_rules(rules, unseen, new), db, type, 1..level)
  BY <1>3, <1>6, RulesOfLevel
<1> HIDE DEF new
<1>8. rules \subseteq rules' /\ rules' \subseteq rules \cup new
  BY <1>1 DEF add_rules
<1>9. ~cut /\ type = TAGS => RowsFor(rules', db, FILES, Nat)
  <2>1. ASSUME NEW s, NEW i, HasRow(rules, FILES, s, i) PROVE HasRow(rules', FILES, s, i)
    BY <1>8, <2>1 DEF HasRow
  <2> QED BY <1>6, <2>1 DEF RowsFor
<1>10. Found' = level /\ level' - 1 = level /\ level' \in Nat \ {0}
  BY <1>1, <1>3 DEF Found
<1>11. Shapes'
  BY <1>1, <1>2, <1>4, <1>5, <1>8, <1>10 DEF LearnInv, Shapes, Inv, Phases, LearnPhases
<1>12. Working'
  BY <1>1, <1>3, <1>10 DEF Working
<1>13. Complete'
  BY <1>1, <1>2, <1>6, <1>7, <1>9, <1>10 DEF Complete
<1>14. LearnInv'
  BY <1>1, <1>11, <1>12, <1>13 DEF LearnInv, Idle, LearnPhases
<1> QED BY <1>4, <1>8, <1>14

(* Only a level's rules add to the table.                                  *)
LEMMA OthersAddNothing ==
  ASSUME LearnInv, LearnNext, ~Rules
  PROVE  rules' \subseteq rules
BY DEF LearnInv, Shapes, LearnNext, Learn, Begin, Generate, Prune, Count, Serve, Change,
       Exit, Crash, Stopped

LEMMA LearnNextInv == LearnInv /\ [LearnNext]_suggestVars => LearnInv'
<1> SUFFICES ASSUME LearnInv, [LearnNext]_suggestVars PROVE LearnInv'
  OBVIOUS
<1>1. CASE Begin    BY <1>1, BeginInv
<1>2. CASE Generate BY <1>2, GenerateInv
<1>3. CASE Prune    BY <1>3, PruneInv
<1>4. CASE Count    BY <1>4, CountInv
<1>5. CASE Rules    BY <1>5, RulesInv
<1>6. CASE Serve    BY <1>6, ServeInv
<1>7. CASE Change   BY <1>7, ChangeInv
<1>8. CASE Exit \/ Crash
  BY <1>8, StoppedInv DEF Exit, Crash
<1>9. CASE UNCHANGED suggestVars
  <2>1. UNCHANGED <<db, code, rules, committed, phase, type, level, candidates,
                    supportcnt, changes>>
    BY <1>9 DEF suggestVars, learning, vars
  <2>2. cut' = cut
    BY <1>9 DEF suggestVars, learning
  <2>3. Found' = Found
    BY <2>1 DEF Found
  <2>4. Shapes'
    BY <2>1, <2>2 DEF LearnInv, Shapes, Inv
  <2>5. Idle' /\ Working'
    BY <2>1, <2>3 DEF LearnInv, Idle, Working
  <2>6. Complete'
    BY <2>1, <2>2, <2>3 DEF LearnInv, Complete
  <2> QED BY <2>4, <2>5, <2>6 DEF LearnInv
<1> QED
  BY <1>1, <1>2, <1>3, <1>4, <1>5, <1>6, <1>7, <1>8, <1>9 DEF LearnNext, Learn

LEMMA AlwaysLearnInv == Learning => []LearnInv
BY LearnInitInv, LearnNextInv, PTL DEF Learning

-----------------------------------------------------------------------------
(* The theorems.                                                           *)

(* The tables, the rules and the lists of the algorithm keep their shape,  *)
(* no confidence is a division by 0, and what is committed is among the    *)
(* rules.                                                                  *)
THEOREM SuggestTypeCorrect == Learning => []SuggestTypeOK
<1>1. LearnInv => SuggestTypeOK
  <2> SUFFICES ASSUME LearnInv PROVE SuggestTypeOK
    OBVIOUS
  <2>1. TypeOK
    BY DEF LearnInv, Shapes, Inv, Sound, TypeOK
  <2>2. DOMAIN supportcnt \subseteq SUBSET ItemIds
    <3>1. CASE phase \in LearnPhases
      BY <3>1, ItemsAreIds DEF LearnInv, Shapes, Working, CountsTrue
    <3>2. CASE phase \notin LearnPhases
      BY <3>2 DEF LearnInv, Idle
    <3> QED BY <3>1, <3>2
  <2> QED BY <2>1, <2>2 DEF LearnInv, Shapes, SuggestTypeOK
<1> QED BY <1>1, AlwaysLearnInv, PTL

(* Going up level by level, joining, pruning and counting, finds just the  *)
(* itemsets the definition calls frequent: for every database and however  *)
(* long the lists, as long as they have room.                              *)
THEOREM FindsFrequentSets == Learning => []FrequentSetsFound
<1>1. LearnInv => FrequentSetsFound
  <2> SUFFICES ASSUME LearnInv, phase = "generate"
               PROVE  /\ CountsTrue(db, type, supportcnt, level - 1)
                      /\ ~cut => FrequentSets(db, type, 1..(level - 1)) \subseteq DOMAIN supportcnt
    BY DEF FrequentSetsFound, CountsTrue, FrequentSets
  <2> QED BY DEF LearnInv, Working, Complete, Found, LearnPhases
<1> QED BY <1>1, AlwaysLearnInv, PTL

(* After a learning every rule the tables bear out is among the rules,     *)
(* whatever was learned before and wherever a learning crashed.            *)
THEOREM LearnsEveryRule == Learning => []RulesComplete
<1>1. LearnInv => RulesComplete
  <2> SUFFICES ASSUME LearnInv, phase = "learned", ~cut, NEW ty \in Types,
                      NEW s \in SUBSET Items(db, ty), NEW i \in s, BearsOut(db, ty, s, i)
               PROVE  HasRow(rules, ty, s, i)
    BY DEF RulesComplete, BearsOut, HasRow
  <2>1. RowsFor(rules, db, ty, Nat)
    BY DEF LearnInv, Complete, Types
  <2>2. Cardinality(s) \in Nat
    BY ItemsAreIds, ItemSets
  <2> QED BY <2>1, <2>2 DEF RowsFor
<1> QED BY <1>1, AlwaysLearnInv, PTL

(* However often the same is learned there is one row for it.              *)
THEOREM RulesAreNotDoubled == Learning => []OneRowPerRule
<1>1. LearnInv => OneRowPerRule
  BY DEF LearnInv, Shapes, OneRow, OneRowPerRule
<1> QED BY <1>1, AlwaysLearnInv, PTL

(* Every rule is added with the confidence the tables give it, so the      *)
(* counts of the files never serve for the tags.                           *)
THEOREM AddsTrueRules == Learning => RulesAreTrue
<1>1. ASSUME LearnInv, LearnNext PROVE \A r \in rules' \ rules : TrueRule(db, r)
  <2>1. CASE Rules
    BY <1>1, <2>1, RulesInv
  <2>2. CASE ~Rules
    BY <1>1, <2>2, OthersAddNothing
  <2> QED BY <2>1, <2>2
<1>2. LearnInv /\ [LearnNext]_suggestVars
        => [\A r \in rules' \ rules :
              /\ r.lhs # {} /\ r.rhs # {} /\ r.lhs \cap r.rhs = {}
              /\ Frequent(db, r.type, r.lhs \cup r.rhs) /\ Confident(r.conf)
              /\ r.conf = Ratio(Support(db, r.type, r.lhs \cup r.rhs),
                                Support(db, r.type, r.lhs))]_suggestVars
  BY <1>1 DEF TrueRule
<1> QED BY <1>2, AlwaysLearnInv, PTL DEF Learning, RulesAreTrue

(* A directory never suggests what it lists nor what is not in the tables, *)
(* although rules name ids that may have gone or come back.                *)
LEMMA SuggestedIsNew ==
  ASSUME Sound(db), NEW ty \in Types, NEW class, NEW n \in TagNames,
         NEW m \in get_suggestions(db, rules, ty, class, n)
  PROVE  NewIn(ty, n, m)
<1>1. PICK i \in correct_items(db, ty, n, UNION {r.rhs : r \in Applying(db, rules, ty, class, n)}) :
        m = Name(db, ty, i)
  BY DEF get_suggestions
<1>2. i \in Known(db, ty) /\ i \notin Under(db, ty, n)
  BY <1>1 DEF correct_items
<1>3. Under(db, ty, n) \subseteq Known(db, ty)
  <2>1. CASE ty = FILES
    <3> SUFFICES ASSUME NEW f \in get_fid_under_tag(db, n) PROVE db.files[f] # NoRow
      BY <2>1 DEF Under, Known, get_fid_under_tag
    <3>1. PICK t \in TagIds : f \in FileIds /\ db.fileAssoc[t][f] > 0
      BY TagIdFound DEF get_fid_under_tag, Sound
    <3> QED BY <3>1 DEF Sound, NoDanglingRowsOf
  <2>2. CASE ty # FILES
    <3> SUFFICES ASSUME NEW t \in BelowTags(db, {get_tag_id(db, n)}) PROVE db.tags[t] # NoRow
      BY <2>2 DEF Under, Known, get_tid_under_tag, BelowTags
    <3> QED BY DEF BelowTags, Sound, NoDanglingRowsOf
  <2> QED BY <2>1, <2>2
<1>4. \A j \in Known(db, ty) : Name(db, ty, j) = m => j = i
  BY <1>1, <1>2 DEF Name, Known, Sound, UniqueNamesOf
<1> QED BY <1>1, <1>2, <1>3, <1>4 DEF NewIn

(* readdir suggests names that are in the tables and not in the directory, *)
(* whatever happened to the rows the rules are about.                      *)
THEOREM SuggestsTheNew == Learning => []SuggestionsAreNew
<1>1. ASSUME Sound(db), NEW path \in Directories
      PROVE  LET shown == display_suggestions(db, rules, path) IN
             /\ \A m \in shown.FILPR \cup shown.FILRE : NewIn(FILES, path[Len(path)], m)
             /\ \A m \in shown.TAGPR \cup shown.TAGRE : NewIn(TAGS, path[Len(path)], m)
  <2>1. path[Len(path)] \in TagNames
    BY DEF Directories
  <2>2. \A ty \in Types, class \in {PROBABLY, RELATED} :
          \A m \in (IF Suggesting(path)
                    THEN get_suggestions(db, rules, ty, class, path[Len(path)]) ELSE {}) :
            NewIn(ty, path[Len(path)], m)
    BY <1>1, <2>1, SuggestedIsNew
  <2> QED BY <2>2 DEF display_suggestions, Types
<1>2. LearnInv => SuggestionsAreNew
  BY <1>1 DEF LearnInv, Shapes, Inv, SuggestionsAreNew
<1> QED BY <1>2, AlwaysLearnInv, PTL

=============================================================================
