--------------------------- MODULE KwestSuggestions ---------------------------
(***************************************************************************)
(* The suggestions: at each start apriori.c learns association rules from  *)
(* the tags the user has made, dbapriori.c keeps them, and readdir looks   *)
(* them up for the directory it lists.                                     *)
(*                                                                         *)
(* The transactions of the algorithm are the user-made tags and its items  *)
(* the files, then the tags, below them.  A list of itemsets is a set of   *)
(* sets of ids, `rules' the table AssociationRules.  Between two learnings *)
(* any calls of KwestStore change the tables; nothing but a learning       *)
(* changes the rules.                                                      *)
(***************************************************************************)
EXTENDS KwestStore

CONSTANTS
  User,        \* the name of the user's home directory
  MINSUP,      \* in percent (25 in apriori.h)
  MINCONF,     \* in percent (50)
  MINCONFR,    \* in percent (65)
  Capacity,    \* the items a list of itemsets has room for (682 ids of 5 digits)
  StartDbs,    \* databases the program may find at its first start
  MaxChanges   \* bound: changes of the tables

ASSUME UserAssumption  == User \in TagNames
ASSUME StartAssumption == \A d \in StartDbs : Sound(d)
ASSUME LimitAssumption ==
  /\ MINSUP \in 1..100 /\ MINCONF \in 1..100 /\ MINCONFR \in MINCONF..100
  /\ Capacity \in Nat /\ MaxChanges \in Nat

VARIABLES
  rules,       \* the table AssociationRules
  committed,   \* the rules as last committed
  phase,       \* where the program is
  type,        \* what is learned: FILES, then TAGS
  level,       \* itemset_num, the size of the itemsets looked at
  candidates,  \* the itemsets of this level
  supportcnt,  \* the frequent itemsets of the levels so far, with their counts
  cut,         \* a list was too long for its buffer         (history)
  changes      \* how often the tables have changed

learning     == <<phase, type, level, candidates, supportcnt, cut>>
suggestVars  == <<vars, rules, committed, learning, changes>>

FILES == 1
TAGS  == 2
Types == {FILES, TAGS}

LearnPhases == {"generate", "prune", "count", "rules"}
Phases      == LearnPhases \cup {"off", "learned", "live"}

ItemIds == TagIds \cup FileIds

-----------------------------------------------------------------------------
(* dbapriori.c: transactions and items.                                    *)

UserTags(d) == {t \in IdsOf(USER_MADE_TAG) : d.tags[t] # NoRow}

get_fid_under_tag(d, n) ==
  {f \in FileIds : get_tag_id(d, n) # KW_FAIL /\ d.fileAssoc[get_tag_id(d, n)][f] > 0}

BelowTags(d, parents) ==
  {t \in TagIds : \E u \in parents \cap TagIds, a \in AssocIds : d.tagAssoc[t][u][a] > 0}

get_tid_under_tag(d, n) == BelowTags(d, {get_tag_id(d, n)})

get_user_tagged_files(d) ==
  {f \in FileIds : \E t \in IdsOf(USER_MADE_TAG) : d.fileAssoc[t][f] > 0}

(* The tags two levels below the tag of the home directory.                *)
get_user_tagged_tags(d) == BelowTags(d, BelowTags(d, {get_tag_id(d, User)}))

Items(d, ty)    == IF ty = FILES THEN get_user_tagged_files(d) ELSE get_user_tagged_tags(d)
Under(d, ty, n) == IF ty = FILES THEN get_fid_under_tag(d, n) ELSE get_tid_under_tag(d, n)

(* How many transactions hold all of the items.                            *)
Support(d, ty, s) == Cardinality({t \in UserTags(d) : s \subseteq Under(d, ty, d.tags[t])})

(* MUTANT: without the case of no transactions.                            *)
Frequent_of_none(d, ty, s) == 100 * Support(d, ty, s) >= MINSUP * Cardinality(UserTags(d))

(* Without transactions the ratio is 0/0, which is not at least MINSUP.    *)
Frequent(d, ty, s) ==
  /\ UserTags(d) # {}
  /\ 100 * Support(d, ty, s) >= MINSUP * Cardinality(UserTags(d))

(* The ratio of two counts, kept as the two.                               *)
Ratio(num, den) == [num |-> num, den |-> den]
Confident(c)    == 100 * c.num >= MINCONF * c.den

(* The float nearest to .65 is below .65, so a ratio of just .65 is not    *)
(* "conf >= 0.650000".                                                     *)
Related(c) == 100 * c.num > MINCONFR * c.den

-----------------------------------------------------------------------------
(* apriori.c: the steps of a level, on a database that does not change.    *)

(* The itemsets of a list (get_itemset).                                   *)
Level(counts, n) == {s \in DOMAIN counts : Cardinality(s) = n}

(* The first n - 2 tokens of an itemset of n - 1, which lists ids in order.*)
Prefix(s) == s \ {Max(s)}

(* MUTANT: the loops stop before the last itemset.                         *)
Joined_without_last(lists) ==
  LET early == {s \in lists : \E t \in lists : Max(s) < Max(t)} IN
  {p[1] \cup p[2] : p \in {q \in early \X early : q[1] # q[2] /\ Prefix(q[1]) = Prefix(q[2])}}

Joined(lists) ==
  {p[1] \cup p[2] : p \in {q \in lists \X lists : q[1] # q[2] /\ Prefix(q[1]) = Prefix(q[2])}}

generate_candidates(d, ty, n, counts) ==
  IF n = 1 THEN {{i} : i \in Items(d, ty)} ELSE Joined(Level(counts, n - 1))

(* What is kept of a list in a buffer of its size (isfull).                *)
Kept(list, n) ==
  IF n * Cardinality(list) <= Capacity THEN {list}
  ELSE {k \in SUBSET list : Cardinality(k) = Capacity \div n}

prune_candidates(list, counts) ==
  {s \in list : \A i \in s : s \ {i} \in DOMAIN counts}

calculate_frequent_itemsets(d, ty, list) == {s \in list : Frequent(d, ty, s)}

Counted(d, ty, list, counts) ==
  [s \in DOMAIN counts \cup list |->
     IF s \in DOMAIN counts THEN counts[s] ELSE Support(d, ty, s)]

(* MUTANT: a rule with another confidence is another rule.                 *)
SameRule_and_confidence(r, s) == r = s

SameRule(r, s) == r.type = s.type /\ r.lhs = s.lhs /\ r.rhs = s.rhs

(* MUTANT: only the last item of an itemset is left out.                   *)
complete_rules_last(ty, n, counts) ==
  {[type |-> ty, lhs |-> s \ {Max(s)}, rhs |-> {Max(s)},
    conf |-> Ratio(counts[s], counts[s \ {Max(s)}])] :
     s \in {q \in Level(counts, n) : Confident(Ratio(counts[q], counts[q \ {Max(q)}]))}}

(* With RULE_LEVEL 1 no subset is taken apart further: a left hand side    *)
(* leaves out one item, which is the right hand side.                      *)
complete_rules(ty, n, counts) ==
  {[type |-> ty, lhs |-> p[1] \ {p[2]}, rhs |-> {p[2]},
    conf |-> Ratio(counts[p[1]], counts[p[1] \ {p[2]}])] :
     p \in {q \in Level(counts, n) \X ItemIds :
              /\ q[2] \in q[1] /\ q[1] \ {q[2]} \in DOMAIN counts
              /\ Confident(Ratio(counts[q[1]], counts[q[1] \ {q[2]}]))}}

(* The text of a left hand side has files in the order of their ids, tags  *)
(* in the order of the rows below the home directory, which may be another *)
(* by the next learning: the row of several tags may not be found.         *)
Reordered(rs) == {r \in rs : r.type = TAGS /\ Cardinality(r.lhs) > 1}

(* A row that is found stays as it is.                                     *)
add_rules(rs, unseen, new) ==
  rs \cup {r \in new : \A s \in rs \ unseen : ~SameRule(r, s)}

-----------------------------------------------------------------------------
(* dbapriori.c and readdir: what a directory suggests.                     *)

PROBABLY == 1
RELATED  == 3

Selected(rs, ty, class) ==
  {r \in rs : r.type = ty /\ (IF class = RELATED THEN Related(r.conf)
                              ELSE Confident(r.conf) /\ ~Related(r.conf))}

Applying(d, rs, ty, class, n) ==
  {r \in Selected(rs, ty, class) :
     r.lhs \subseteq Under(d, ty, n) /\ ~(r.rhs \subseteq Under(d, ty, n))}

Known(d, ty)   == IF ty = FILES THEN {f \in FileIds : d.files[f] # NoRow}
                  ELSE {t \in TagIds : d.tags[t] # NoRow}
Name(d, ty, i) == IF ty = FILES THEN BaseName[d.files[i]] ELSE d.tags[i]

(* MUTANT: the name of a tag that is gone is not looked at.                *)
correct_items_gone(d, ty, n, found) ==
  (IF ty = TAGS THEN found ELSE found \cap Known(d, ty)) \ Under(d, ty, n)

correct_items(d, ty, n, found) == (found \cap Known(d, ty)) \ Under(d, ty, n)

get_suggestions(d, rs, ty, class, n) ==
  {Name(d, ty, i) : i \in correct_items(d, ty, n,
                            UNION {r.rhs : r \in Applying(d, rs, ty, class, n)})}

(* readdir: in the directories of the mount point and below the user's.    *)
Suggesting(path) == path # <<>> /\ (Len(path) = 1 \/ path[1] = User)

(* The entries readdir adds, by the last name of the path: both lists of   *)
(* tags come from get_tag_suggestions_pr.                                  *)
display_suggestions(d, rs, path) ==
  LET of(ty, class) == IF Suggesting(path)
                       THEN get_suggestions(d, rs, ty, class, path[Len(path)]) ELSE {}
  IN [FILPR |-> of(FILES, PROBABLY), FILRE |-> of(FILES, RELATED),
      TAGPR |-> of(TAGS, PROBABLY),  TAGRE |-> of(TAGS, PROBABLY)]

-----------------------------------------------------------------------------
LearnInit ==
  /\ db \in StartDbs /\ code = KW_SUCCESS
  /\ rules = {} /\ committed = {}
  /\ phase = "off" /\ type = FILES /\ level = 1
  /\ candidates = {} /\ supportcnt = <<>> /\ cut = FALSE /\ changes = 0

tables == <<vars, changes>>

Begin ==
  /\ phase = "off" /\ phase' = "generate" /\ cut' = FALSE
  /\ UNCHANGED <<tables, rules, committed, type, level, candidates, supportcnt>>

(* MUTANT: the lists of the files are there for the tags.                  *)
Ended_unfreed ==
  /\ phase' = (IF type = FILES THEN "generate" ELSE "learned")
  /\ type' = (IF type = FILES THEN TAGS ELSE FILES)
  /\ level' = 1 /\ candidates' = {} /\ supportcnt' = supportcnt

(* MUTANT: the tags are learned again.                                     *)
Ended_again ==
  /\ phase' = "generate" /\ type' = TAGS
  /\ level' = 1 /\ candidates' = {} /\ supportcnt' = <<>>

(* The loop of apriori_main breaks and free_itemsets frees the lists; the  *)
(* tags come after the files.                                              *)
Ended ==
  /\ phase' = (IF type = FILES THEN "generate" ELSE "learned")
  /\ type' = (IF type = FILES THEN TAGS ELSE FILES)
  /\ level' = 1 /\ candidates' = {} /\ supportcnt' = <<>>

Generate ==
  /\ phase = "generate"
  /\ \E list \in Kept(generate_candidates(db, type, level, supportcnt), level) :
       /\ cut' = (cut \/ list # generate_candidates(db, type, level, supportcnt))
       /\ IF list = {} THEN Ended
          ELSE /\ candidates' = list
               /\ phase' = (IF level > 1 THEN "prune" ELSE "count")
               /\ UNCHANGED <<type, level, supportcnt>>
  /\ UNCHANGED <<tables, rules, committed>>

Prune ==
  /\ phase = "prune"
  /\ LET list == prune_candidates(candidates, supportcnt) IN
       IF list = {} THEN Ended
       ELSE /\ candidates' = list /\ phase' = "count"
            /\ UNCHANGED <<type, level, supportcnt>>
  /\ UNCHANGED <<tables, rules, committed, cut>>

Count ==
  /\ phase = "count"
  /\ LET list == calculate_frequent_itemsets(db, type, candidates) IN
       IF list = {} THEN Ended
       ELSE /\ supportcnt' = Counted(db, type, list, supportcnt)
            /\ candidates' = {}
            /\ phase' = (IF level > 1 THEN "rules" ELSE "generate")
            /\ level' = (IF level > 1 THEN level ELSE level + 1)
            /\ UNCHANGED type
  /\ UNCHANGED <<tables, rules, committed, cut>>

Rules ==
  /\ phase = "rules"
  /\ \E unseen \in SUBSET Reordered(rules) :
       rules' = add_rules(rules, unseen, complete_rules(type, level, supportcnt))
  /\ phase' = "generate" /\ level' = level + 1
  /\ UNCHANGED <<tables, committed, type, candidates, supportcnt, cut>>

Learn == Generate \/ Prune \/ Count \/ Rules

(* main commits and passes control to the daemon.                          *)
Serve ==
  /\ phase = "learned" /\ phase' = "live" /\ committed' = rules
  /\ UNCHANGED <<tables, rules, type, level, candidates, supportcnt, cut>>

(* Calls of the daemon, or of the check and the import of the next start.  *)
Change ==
  /\ phase \in {"off", "live"} /\ changes < MaxChanges /\ changes' = changes + 1
  /\ Next /\ db' # db
  /\ UNCHANGED <<rules, committed, learning>>

Stopped ==
  /\ phase' = "off" /\ rules' = committed
  /\ type' = FILES /\ level' = 1 /\ candidates' = {} /\ supportcnt' = <<>> /\ cut' = FALSE
  /\ UNCHANGED <<tables, committed>>

(* Unmounted, or dead while it learns: the transaction is rolled back.     *)
Exit  == phase = "live" /\ Stopped
Crash == phase \in LearnPhases \cup {"learned"} /\ Stopped

LearnNext == Begin \/ Learn \/ Serve \/ Change \/ Exit \/ Crash

(* main is a single thread that waits for nothing, so it goes on, which is *)
(* said of its turns from phase to phase.                                  *)
Turn     == phase \in LearnPhases /\ phase' \in (LearnPhases \cup {"learned"}) \ {phase}
Learning == LearnInit /\ [][LearnNext]_suggestVars /\ WF_phase(Turn)

-----------------------------------------------------------------------------
RuleRows ==
  [type : Types, lhs : SUBSET ItemIds, rhs : SUBSET ItemIds,
   conf : [num : Nat, den : Nat \ {0}]]

(* The count a confidence was divided by was never 0.                      *)
SuggestTypeOK ==
  /\ TypeOK
  /\ rules \subseteq RuleRows /\ committed \subseteq rules
  /\ phase \in Phases /\ type \in Types /\ level \in Nat \ {0}
  /\ candidates \subseteq SUBSET ItemIds
  /\ DOMAIN supportcnt \subseteq SUBSET ItemIds
  /\ cut \in BOOLEAN /\ changes \in 0..MaxChanges

(* Going up level by level, joining, pruning and counting, finds just the  *)
(* itemsets the definition calls frequent, with their counts.              *)
FrequentSetsFound ==
  phase = "generate" =>
    /\ \A s \in DOMAIN supportcnt :
         /\ s \subseteq Items(db, type) /\ Cardinality(s) \in 1..(level - 1)
         /\ Frequent(db, type, s) /\ supportcnt[s] = Support(db, type, s)
    /\ ~cut => \A s \in SUBSET Items(db, type) :
                 Cardinality(s) \in 1..(level - 1) /\ Frequent(db, type, s)
                   => s \in DOMAIN supportcnt

(* After a learning, of files and of tags, every rule the tables bear out  *)
(* is among the rules, whatever was learned or lost in a crash before.     *)
RulesComplete ==
  phase = "learned" /\ ~cut =>
    \A ty \in Types : \A s \in SUBSET Items(db, ty) : \A i \in s :
      /\ s # {i} /\ Frequent(db, ty, s)
      /\ Confident(Ratio(Support(db, ty, s), Support(db, ty, s \ {i})))
      => \E r \in rules : r.type = ty /\ r.lhs = s \ {i} /\ r.rhs = {i}

(* A rule is added only if the tables bear it out, with the confidence     *)
(* they give it: the counts of files are not used for tags, nor those of   *)
(* one learning in the next.                                               *)
RulesAreTrue ==
  [][\A r \in rules' \ rules :
       /\ r.lhs # {} /\ r.rhs # {} /\ r.lhs \cap r.rhs = {}
       /\ Frequent(db, r.type, r.lhs \cup r.rhs) /\ Confident(r.conf)
       /\ r.conf = Ratio(Support(db, r.type, r.lhs \cup r.rhs),
                         Support(db, r.type, r.lhs))]_suggestVars

(* However often the same is learned, with whatever confidence, there is   *)
(* one row for it, so nothing is both related and probably related by it;  *)
(* unless the row is of several tags, which may be in another order.       *)
OneRowPerRule ==
  \A r, s \in rules \ Reordered(rules) :
    r.type = s.type /\ r.lhs = s.lhs /\ r.rhs = s.rhs => r = s

(* What readdir suggests, by rules with ids that may since have gone or    *)
(* come back for something else, is a name in the tables and not one of    *)
(* those listed in the directory.                                          *)
Directories == {<<n>> : n \in TagNames} \cup {<<m, n>> : m, n \in TagNames}
NewIn(ty, n, m) ==
  /\ \E i \in Known(db, ty) : Name(db, ty, i) = m
  /\ \A i \in Under(db, ty, n) : Name(db, ty, i) # m
SuggestionsAreNew ==
  phase = "live" => \A path \in Directories :
    LET shown == display_suggestions(db, rules, path) IN
    /\ \A m \in shown.FILPR \cup shown.FILRE : NewIn(FILES, path[Len(path)], m)
    /\ \A m \in shown.TAGPR \cup shown.TAGRE : NewIn(TAGS, path[Len(path)], m)

(* A learning ends.                                                        *)
LearningEnds == phase \in LearnPhases ~> phase \in {"learned", "off"}

=============================================================================
