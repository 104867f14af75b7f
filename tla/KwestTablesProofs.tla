-------------------------- MODULE KwestTablesProofs --------------------------
(***************************************************************************)
(* What the calls on the tables preserve, for every size of the tables and *)
(* every set of names.  The state machines built from the calls cite these *)
(* lemmas.                                                                 *)
(***************************************************************************)
EXTENDS KwestTables, WellFoundedInduction, TLAPS

(* A non-empty set of naturals has a least element.                        *)
LEMMA MinExists ==
  ASSUME NEW T, T \subseteq Nat, T # {}
  PROVE  \E x \in T : \A y \in T : x <= y
<1>1. \E x \in T : \A y \in T : <<y, x>> \notin OpToRel(<, Nat)
  BY NatLessThanWellFounded, WFMin
<1>2. \A x, y \in T : <<y, x>> \notin OpToRel(<, Nat) => x <= y
  BY DEF OpToRel
<1> QED BY <1>1, <1>2

(* A bounded non-empty set of naturals has a greatest element, so the      *)
(* "select max(id)" of a table is one of its ids.                          *)
LEMMA MaxExists ==
  ASSUME NEW N \in Nat, NEW S, S \subseteq 0..N, S # {}
  PROVE  Max(S) \in S /\ \A y \in S : Max(S) >= y
<1> DEFINE T == {N - x : x \in S}
<1>1. T \subseteq Nat /\ T # {}
  <2>1. \A x \in S : N - x \in Nat
    OBVIOUS
  <2>2. T \subseteq Nat
    BY <2>1
  <2>3. PICK x \in S : TRUE
    OBVIOUS
  <2>4. N - x \in T
    BY <2>3
  <2> QED BY <2>2, <2>4
<1>2. PICK m \in T : \A y \in T : m <= y
  BY <1>1, MinExists
<1>3. PICK x \in S : m = N - x
  BY <1>2
<1>4. \A y \in S : x >= y
  BY <1>2, <1>3
<1> QED BY <1>4 DEF Max

(* A lookup by tag name answers the id of the row, or KW_FAIL if there is  *)
(* none (get_tag_id).                                                      *)
LEMMA TagIdFound ==
  ASSUME NEW d \in Databases, NEW n \in TagNames, UniqueNamesOf(d)
  PROVE  LET t == get_tag_id(d, n) IN
         \/ t = KW_FAIL /\ \A u \in TagIds : d.tags[u] # n
         \/ t \in TagIds /\ t # KW_FAIL /\ d.tags[t] = n
<1>1. CASE TagsNamed(d, n) = {}
  BY <1>1 DEF get_tag_id, TagsNamed
<1>2. CASE TagsNamed(d, n) # {}
  <2>1. PICK t \in TagIds : d.tags[t] = n
    BY <1>2 DEF TagsNamed
  <2>2. \A u \in TagsNamed(d, n) : u = t
    BY <2>1, NoRowAssumption DEF TagsNamed, UniqueNamesOf
  <2>3. t \in TagsNamed(d, n) /\ t <= t
    BY <2>1, BoundAssumption DEF TagsNamed, TagIds
  <2>4. FirstRow(TagsNamed(d, n)) = t
    BY <2>2, <2>3 DEF FirstRow
  <2> QED
    BY <1>2, <2>1, <2>4, BoundAssumption DEF get_tag_id, TagIds, KW_FAIL
<1> QED BY <1>1, <1>2

(* A lookup by file name answers the id of the row, or KW_FAIL if there is *)
(* none (get_file_id).                                                     *)
LEMMA FileIdFound ==
  ASSUME NEW d \in Databases, NEW n, UniqueNamesOf(d)
  PROVE  LET f == get_file_id(d, n) IN
         \/ f = KW_FAIL /\ \A g \in FileIds : d.files[g] # NoRow => BaseName[d.files[g]] # n
         \/ f \in FileIds /\ f # KW_FAIL /\ d.files[f] # NoRow /\ BaseName[d.files[f]] = n
<1>1. CASE FilesNamed(d, n) = {}
  BY <1>1 DEF get_file_id, FilesNamed
<1>2. CASE FilesNamed(d, n) # {}
  <2>1. PICK f \in FileIds : d.files[f] # NoRow /\ BaseName[d.files[f]] = n
    BY <1>2 DEF FilesNamed
  <2>2. \A g \in FilesNamed(d, n) : g = f
    BY <2>1 DEF FilesNamed, UniqueNamesOf
  <2>3. f \in FilesNamed(d, n) /\ f <= f
    BY <2>1, BoundAssumption DEF FilesNamed, FileIds
  <2>4. FirstRow(FilesNamed(d, n)) = f
    BY <2>2, <2>3 DEF FirstRow
  <2> QED
    BY <1>2, <2>1, <2>4, BoundAssumption DEF get_file_id, FileIds, KW_FAIL
<1> QED BY <1>1, <1>2

-----------------------------------------------------------------------------

(* The id after the ids in use: a natural, and not in use if the where     *)
(* clause that selected those ids selects it too.                          *)
LEMMA IdAfterIsNew ==
  ASSUME NEW N \in Nat, NEW range, range \subseteq 0..N, NEW first \in Nat,
         NEW table, NEW used, used = {i \in range : table[i] # NoRow}
  PROVE  /\ IdAfter(used, first) \in Nat
         /\ IdAfter(used, first) \in range => table[IdAfter(used, first)] = NoRow
<1>1. CASE used = {}
  BY <1>1 DEF IdAfter
<1>2. CASE used # {}
  <2>1. PICK m : m = Max(used)
    OBVIOUS
  <2>2. used \subseteq 0..N
    OBVIOUS
  <2>3. m \in used /\ \A i \in used : m >= i
    BY <1>2, <2>1, <2>2, MaxExists
  <2>4. IdAfter(used, first) = m + 1
    BY <1>2, <2>1 DEF IdAfter
  <2>5. m \in Nat
    BY <2>2, <2>3
  <2>6. m + 1 \notin used
    BY <2>3, <2>5
  <2> QED BY <2>4, <2>5, <2>6
<1> QED BY <1>1, <1>2

(* set_tag_id refuses a name exactly when it is taken, and an id of the    *)
(* asked class is free.                                                    *)
LEMMA NewTagId ==
  ASSUME NEW d \in Databases, NEW n \in TagNames, NEW type \in TagTypes
  PROVE  LET t == set_tag_id(d, n, type) IN
         /\ t = KW_FAIL <=> get_tag_id(d, n) # KW_FAIL
         /\ t \in IdsOf(type) => d.tags[t] = NoRow
<1> DEFINE used == {t \in IdsOf(type) : d.tags[t] # NoRow}
           next == IdAfter(used, FirstIdOf(type))
<1>1. IdsOf(type) \subseteq 0..MaxTno /\ FirstIdOf(type) \in Nat
  BY BoundAssumption DEF IdsOf, FirstIdOf, TagIds, TagTypes, USER_TAG, SYSTEM_TAG, USER_MADE_TAG
<1>2. next \in Nat /\ (next \in IdsOf(type) => d.tags[next] = NoRow)
  <2> HIDE DEF next
  <2> QED BY <1>1, BoundAssumption, IdAfterIsNew DEF next
<1>3. set_tag_id(d, n, type) = IF get_tag_id(d, n) # KW_FAIL THEN KW_FAIL ELSE next
  BY DEF set_tag_id
<1> HIDE DEF next
<1>4. KW_FAIL \notin Nat /\ KW_FAIL \notin IdsOf(type)
  BY <1>1 DEF KW_FAIL
<1> QED BY <1>2, <1>3, <1>4

(* What add_tag does: it refuses a name that exists, or finds no id left,  *)
(* or inserts one row under an id that had none.                           *)
LEMMA AddTagEffect ==
  ASSUME NEW d, Sound(d), NEW n \in TagNames, NEW type \in TagTypes
  PROVE  LET r == add_tag(d, n, type) IN
         \/ r = Return(d, KW_ERROR) /\ get_tag_id(d, n) # KW_FAIL
         \/ /\ r = Return(d, KW_FAIL) /\ get_tag_id(d, n) = KW_FAIL
            /\ set_tag_id(d, n, type) \notin IdsOf(type)
         \/ \E t \in TagIds :
              /\ r = Return([d EXCEPT !.tags[t] = n], KW_SUCCESS)
              /\ d.tags[t] = NoRow /\ get_tag_id(d, n) = KW_FAIL
<1> DEFINE t == set_tag_id(d, n, type)
<1>1. /\ t = KW_FAIL <=> get_tag_id(d, n) # KW_FAIL
      /\ t \in IdsOf(type) => d.tags[t] = NoRow
  BY NewTagId DEF Sound
<1>2. CASE t = KW_FAIL
  BY <1>1, <1>2 DEF add_tag
<1>3. CASE t # KW_FAIL /\ ~Insertable(d.tags, t)
  <2>1. t \in IdsOf(type) => t \in DOMAIN d.tags
    BY DEF IdsOf, TagTypes, USER_TAG, SYSTEM_TAG, USER_MADE_TAG, Sound, Databases, TagTable
  <2>2. t \notin IdsOf(type)
    BY <1>1, <1>3, <2>1 DEF Insertable
  <2> QED BY <1>1, <1>3, <2>2 DEF add_tag
<1>4. CASE t # KW_FAIL /\ Insertable(d.tags, t)
  <2>1. t \in TagIds /\ d.tags[t] = NoRow
    BY <1>4 DEF Insertable, Sound, Databases, TagTable
  <2>2. add_tag(d, n, type) = Return([d EXCEPT !.tags[t] = n], KW_SUCCESS)
    BY <1>4 DEF add_tag
  <2> HIDE DEF t
  <2> QED BY <1>1, <1>4, <2>1, <2>2
<1> QED BY <1>2, <1>3, <1>4

(* add_tag never makes a second tag of a name, whatever id it finds.       *)
LEMMA AddTagSound ==
  ASSUME NEW d, Sound(d), NEW n \in TagNames, NEW type \in TagTypes
  PROVE  Sound(add_tag(d, n, type).db) /\ add_tag(d, n, type).code \in Codes
<1>1. CASE add_tag(d, n, type) \in {Return(d, KW_ERROR), Return(d, KW_FAIL)}
  BY <1>1 DEF Return, Codes
<1>2. ASSUME NEW t \in TagIds, d.tags[t] = NoRow, get_tag_id(d, n) = KW_FAIL,
             add_tag(d, n, type) = Return([d EXCEPT !.tags[t] = n], KW_SUCCESS)
      PROVE  Sound(add_tag(d, n, type).db) /\ add_tag(d, n, type).code \in Codes
  <2> DEFINE e == [d EXCEPT !.tags[t] = n]
  <2>1. \A u \in TagIds : d.tags[u] # n
    BY <1>2, TagIdFound DEF Sound
  <2>2. e.tags = [d.tags EXCEPT ![t] = n] /\ e.files = d.files
        /\ e.fileAssoc = d.fileAssoc /\ e.tagAssoc = d.tagAssoc
    BY DEF Sound, Databases
  <2>3. e \in Databases
    BY DEF Sound, Databases, TagTable
  <2>4. add_tag(d, n, type).db = e /\ add_tag(d, n, type).code = KW_SUCCESS
    BY <1>2 DEF Return
  <2> HIDE DEF e
  <2>5. UniqueNamesOf(e)
    BY <2>1, <2>2 DEF Sound, Databases, TagTable, UniqueNamesOf
  <2>6. NoDanglingRowsOf(e)
    BY <1>2, <2>2, NoRowAssumption DEF Sound, Databases, TagTable, NoDanglingRowsOf
  <2>7. NoDuplicateRowsOf(e)
    BY <2>2 DEF Sound, NoDuplicateRowsOf
  <2> QED BY <2>3, <2>4, <2>5, <2>6, <2>7 DEF Sound, Codes
<1> QED BY <1>1, <1>2, AddTagEffect

(* remove_tag leaves no row that mentions the removed tag.                 *)
LEMMA RemoveTagSound ==
  ASSUME NEW d, Sound(d), NEW n \in TagNames
  PROVE  Sound(remove_tag(d, n).db) /\ remove_tag(d, n).code \in Codes
<1> DEFINE t == get_tag_id(d, n)
           e == WithoutTag(d, t)
<1>1. CASE t = KW_FAIL
  BY <1>1 DEF remove_tag, Return, Codes
<1>2. CASE t # KW_FAIL
  <2>1. t \in TagIds
    BY <1>2, TagIdFound DEF Sound
  <2>2. remove_tag(d, n) = [db |-> e, code |-> KW_SUCCESS]
    BY <1>2 DEF remove_tag, Return
  <2> HIDE DEF t
  <2>3. /\ e.tags = [d.tags EXCEPT ![t] = NoRow]
        /\ e.files = d.files
        /\ e.fileAssoc = [u \in TagIds |-> [f \in FileIds |->
                           IF u = t THEN 0 ELSE d.fileAssoc[u][f]]]
        /\ e.tagAssoc = [u \in TagIds |-> [v \in TagIds |-> [a \in AssocIds |->
                           IF u = t \/ v = t THEN 0 ELSE d.tagAssoc[u][v][a]]]]
    BY DEF WithoutTag
  <2>4. e \in Databases
    BY <2>1 DEF WithoutTag, Sound, Databases, TagTable, FileTable,
                FileAssociationTable, TagAssociationTable
  <2> HIDE DEF e
  <2>5. UniqueNamesOf(e)
    BY <2>1, <2>3 DEF Sound, Databases, TagTable, UniqueNamesOf
  <2>6. NoDanglingRowsOf(e)
    BY <2>1, <2>3 DEF Sound, Databases, TagTable, NoDanglingRowsOf
  <2>7. NoDuplicateRowsOf(e)
    BY <2>1, <2>3 DEF Sound, Databases, NoDuplicateRowsOf
  <2> QED BY <2>2, <2>4, <2>5, <2>6, <2>7 DEF Sound, Codes
<1> QED BY <1>1, <1>2

(* The row of add_file: it refuses a name that exists, finds no id left,   *)
(* or inserts one row under an id that had none.                           *)
LEMMA AddFileRowEffect ==
  ASSUME NEW d, Sound(d), NEW p \in AbsPaths
  PROVE  LET r == add_file_row(d, p) IN
         \/ r = Return(d, KW_ERROR) /\ get_file_id(d, BaseName[p]) # KW_FAIL
         \/ r = Return(d, KW_FAIL) /\ get_file_id(d, BaseName[p]) = KW_FAIL
         \/ \E f \in FileIds :
              /\ r = Return([d EXCEPT !.files[f] = p], KW_SUCCESS)
              /\ d.files[f] = NoRow /\ get_file_id(d, BaseName[p]) = KW_FAIL
<1> DEFINE f    == set_file_id(d, p)
           used == {g \in FileIds : d.files[g] # NoRow}
           next == IdAfter(used, 0)
<1>1. f = KW_FAIL <=> get_file_id(d, BaseName[p]) # KW_FAIL
  <2>1. next \in Nat
    <3> HIDE DEF next
    <3> QED BY BoundAssumption, IdAfterIsNew DEF next, FileIds
  <2>2. f = IF get_file_id(d, BaseName[p]) # KW_FAIL THEN KW_FAIL ELSE next
    BY DEF set_file_id
  <2> HIDE DEF f, next
  <2> QED BY <2>1, <2>2 DEF KW_FAIL
<1>2. CASE f = KW_FAIL
  BY <1>1, <1>2 DEF add_file_row
<1>3. CASE f # KW_FAIL /\ ~Insertable(d.files, f)
  BY <1>1, <1>3 DEF add_file_row
<1>4. CASE f # KW_FAIL /\ Insertable(d.files, f)
  <2>1. f \in FileIds /\ d.files[f] = NoRow
    BY <1>4 DEF Insertable, Sound, Databases, FileTable
  <2>2. add_file_row(d, p) = Return([d EXCEPT !.files[f] = p], KW_SUCCESS)
    BY <1>4 DEF add_file_row
  <2> HIDE DEF f
  <2> QED BY <1>1, <1>4, <2>1, <2>2
<1> QED BY <1>2, <1>3, <1>4

(* The row of add_file never makes a second file of a name.                *)
LEMMA AddFileRowSound ==
  ASSUME NEW d, Sound(d), NEW p \in AbsPaths
  PROVE  Sound(add_file_row(d, p).db) /\ add_file_row(d, p).code \in Codes
<1>1. CASE add_file_row(d, p) \in {Return(d, KW_ERROR), Return(d, KW_FAIL)}
  BY <1>1 DEF Return, Codes
<1>2. ASSUME NEW f \in FileIds, d.files[f] = NoRow, get_file_id(d, BaseName[p]) = KW_FAIL,
             add_file_row(d, p) = Return([d EXCEPT !.files[f] = p], KW_SUCCESS)
      PROVE  Sound(add_file_row(d, p).db) /\ add_file_row(d, p).code \in Codes
  <2> DEFINE e == [d EXCEPT !.files[f] = p]
  <2>1. \A g \in FileIds : d.files[g] # NoRow => BaseName[d.files[g]] # BaseName[p]
    BY <1>2, FileIdFound DEF Sound
  <2>2. e.files = [d.files EXCEPT ![f] = p] /\ e.tags = d.tags
        /\ e.fileAssoc = d.fileAssoc /\ e.tagAssoc = d.tagAssoc
    BY DEF Sound, Databases
  <2>3. e \in Databases
    BY DEF Sound, Databases, FileTable
  <2>4. add_file_row(d, p).db = e /\ add_file_row(d, p).code = KW_SUCCESS
    BY <1>2 DEF Return
  <2> HIDE DEF e
  <2>5. UniqueNamesOf(e)
    BY <2>1, <2>2 DEF Sound, Databases, FileTable, UniqueNamesOf
  <2>6. NoDanglingRowsOf(e)
    BY <1>2, <2>2, NoRowAssumption DEF Sound, Databases, FileTable, NoDanglingRowsOf
  <2>7. NoDuplicateRowsOf(e)
    BY <2>2 DEF Sound, NoDuplicateRowsOf
  <2> QED BY <2>3, <2>4, <2>5, <2>6, <2>7 DEF Sound, Codes
<1> QED BY <1>1, <1>2, AddFileRowEffect

(* remove_file leaves no row that mentions the removed file.               *)
LEMMA RemoveFileSound ==
  ASSUME NEW d, Sound(d), NEW n \in FileNames
  PROVE  Sound(remove_file(d, n).db) /\ remove_file(d, n).code \in Codes
<1> DEFINE f == get_file_id(d, n)
           e == WithoutFile(d, f)
<1>1. CASE f = KW_FAIL
  BY <1>1 DEF remove_file, Return, Codes
<1>2. CASE f # KW_FAIL
  <2>1. f \in FileIds
    BY <1>2, FileIdFound DEF Sound
  <2>2. remove_file(d, n) = [db |-> e, code |-> KW_SUCCESS]
    BY <1>2 DEF remove_file, Return
  <2> HIDE DEF f
  <2>3. /\ e.files = [d.files EXCEPT ![f] = NoRow]
        /\ e.tags = d.tags /\ e.tagAssoc = d.tagAssoc
        /\ e.fileAssoc = [t \in TagIds |-> [g \in FileIds |->
                           IF g = f THEN 0 ELSE d.fileAssoc[t][g]]]
    BY DEF WithoutFile
  <2>4. e \in Databases
    BY <2>1 DEF WithoutFile, Sound, Databases, FileTable, FileAssociationTable
  <2> HIDE DEF e
  <2>5. UniqueNamesOf(e)
    BY <2>1, <2>3 DEF Sound, Databases, FileTable, UniqueNamesOf
  <2>6. NoDanglingRowsOf(e)
    BY <2>1, <2>3 DEF Sound, Databases, FileTable, NoDanglingRowsOf
  <2>7. NoDuplicateRowsOf(e)
    BY <2>3 DEF Sound, Databases, NoDuplicateRowsOf
  <2> QED BY <2>2, <2>4, <2>5, <2>6, <2>7 DEF Sound, Codes
<1> QED BY <1>1, <1>2

-----------------------------------------------------------------------------

(* A bag of file rows in which one count changes; the lemma the calls that *)
(* tag and untag a file share.                                             *)
LEMMA FileRowSound ==
  ASSUME NEW d, Sound(d), NEW t \in TagIds, NEW f \in FileIds,
         d.tags[t] # NoRow, d.files[f] # NoRow, NEW k \in {0, 1}
  PROVE  Sound([d EXCEPT !.fileAssoc[t][f] = k])
<1> DEFINE e == [d EXCEPT !.fileAssoc[t][f] = k]
<1>1. /\ e.tags = d.tags /\ e.files = d.files /\ e.tagAssoc = d.tagAssoc
      /\ e.fileAssoc = [d.fileAssoc EXCEPT ![t] = [d.fileAssoc[t] EXCEPT ![f] = k]]
  BY DEF Sound, Databases
<1>2. e \in Databases
  <2> DEFINE row   == [d.fileAssoc[t] EXCEPT ![f] = k]
             table == [d.fileAssoc EXCEPT ![t] = row]
  <2>1. row \in [FileIds -> Nat]
    BY DEF Sound, Databases, FileAssociationTable
  <2> HIDE DEF row
  <2>2. table \in FileAssociationTable
    BY <2>1 DEF Sound, Databases, FileAssociationTable
  <2>3. e = [d EXCEPT !.fileAssoc = table]
    BY DEF row
  <2> HIDE DEF table, e
  <2> QED BY <2>2, <2>3 DEF Sound, Databases
<1>3. \A u \in TagIds, g \in FileIds :
        e.fileAssoc[u][g] = IF u = t /\ g = f THEN k ELSE d.fileAssoc[u][g]
  BY <1>1 DEF Sound, Databases, FileAssociationTable
<1> HIDE DEF e
<1>4. UniqueNamesOf(e)
  BY <1>1 DEF Sound, UniqueNamesOf
<1>5. NoDanglingRowsOf(e)
  BY <1>1, <1>3 DEF Sound, NoDanglingRowsOf
<1>6. NoDuplicateRowsOf(e)
  BY <1>1, <1>3 DEF Sound, NoDuplicateRowsOf
<1>7. Sound(e) BY <1>2, <1>4, <1>5, <1>6 DEF Sound
<1> QED BY <1>7 DEF e

(* tag_file adds the row only for a tag and a file that exist and only     *)
(* when it is not there.                                                   *)
LEMMA TagFileSound ==
  ASSUME NEW d, Sound(d), NEW t \in TagNames, NEW n \in FileNames
  PROVE  Sound(tag_file(d, t, n).db) /\ tag_file(d, t, n).code \in Codes
<1> DEFINE f == get_file_id(d, n)
           u == get_tag_id(d, t)
<1>1. CASE f = KW_FAIL \/ u = KW_FAIL \/ d.fileAssoc[u][f] > 0
  BY <1>1 DEF tag_file, Return, Codes
<1>2. CASE ~(f = KW_FAIL \/ u = KW_FAIL \/ d.fileAssoc[u][f] > 0)
  <2>1. /\ u \in TagIds /\ d.tags[u] # NoRow
        /\ f \in FileIds /\ d.files[f] # NoRow
    BY <1>2, TagIdFound, FileIdFound, NoRowAssumption DEF Sound
  <2>2. d.fileAssoc[u][f] + 1 = 1
    BY <1>2, <2>1 DEF Sound, Databases, FileAssociationTable
  <2>3. tag_file(d, t, n) = Return([d EXCEPT !.fileAssoc[u][f] = @ + 1], KW_SUCCESS)
    BY <1>2 DEF tag_file
  <2>4. [d EXCEPT !.fileAssoc[u][f] = @ + 1] = [d EXCEPT !.fileAssoc[u][f] = 1]
    BY <2>2
  <2> HIDE DEF f, u
  <2>5. Sound([d EXCEPT !.fileAssoc[u][f] = 1])
    BY <2>1, FileRowSound
  <2> QED BY <2>3, <2>4, <2>5 DEF Return, Codes
<1> QED BY <1>1, <1>2

(* untag_file takes the row away and leaves everything else.               *)
LEMMA UntagFileSound ==
  ASSUME NEW d, Sound(d), NEW t \in TagNames, NEW n \in FileNames
  PROVE  Sound(untag_file(d, t, n).db) /\ untag_file(d, t, n).code \in Codes
<1> DEFINE f == get_file_id(d, n)
           u == get_tag_id(d, t)
<1>1. CASE f = KW_FAIL \/ u = KW_FAIL
  BY <1>1 DEF untag_file, Return, Codes
<1>2. CASE ~(f = KW_FAIL \/ u = KW_FAIL)
  <2>1. /\ u \in TagIds /\ d.tags[u] # NoRow
        /\ f \in FileIds /\ d.files[f] # NoRow
    BY <1>2, TagIdFound, FileIdFound, NoRowAssumption DEF Sound
  <2>2. untag_file(d, t, n) = Return([d EXCEPT !.fileAssoc[u][f] = 0], KW_SUCCESS)
    BY <1>2 DEF untag_file
  <2> HIDE DEF f, u
  <2>3. Sound([d EXCEPT !.fileAssoc[u][f] = 0])
    BY <2>1, FileRowSound
  <2> QED BY <2>2, <2>3 DEF Return, Codes
<1> QED BY <1>1, <1>2

-----------------------------------------------------------------------------

(* The same for the rows that relate tags.                                 *)
LEMMA TagRowSound ==
  ASSUME NEW d, Sound(d), NEW t \in TagIds, NEW u \in TagIds, NEW a \in AssocIds,
         d.tags[t] # NoRow, d.tags[u] # NoRow, NEW k \in {0, 1},
         k = 0 \/ \A b \in AssocIds : d.tagAssoc[t][u][b] = 0
  PROVE  Sound([d EXCEPT !.tagAssoc[t][u][a] = k])
<1> DEFINE cell  == [d.tagAssoc[t][u] EXCEPT ![a] = k]
           row   == [d.tagAssoc[t] EXCEPT ![u] = cell]
           table == [d.tagAssoc EXCEPT ![t] = row]
           e     == [d EXCEPT !.tagAssoc = table]
<1>1. cell \in [AssocIds -> Nat]
  BY DEF Sound, Databases, TagAssociationTable
<1>2. \A b \in AssocIds : cell[b] = IF b = a THEN k ELSE d.tagAssoc[t][u][b]
  BY DEF Sound, Databases, TagAssociationTable
<1>3. [d EXCEPT !.tagAssoc[t][u][a] = k] = e
  OBVIOUS
<1> HIDE DEF cell
<1>4. row \in [TagIds -> [AssocIds -> Nat]]
  BY <1>1 DEF Sound, Databases, TagAssociationTable
<1>5. \A v \in TagIds : row[v] = IF v = u THEN cell ELSE d.tagAssoc[t][v]
  BY DEF Sound, Databases, TagAssociationTable
<1> HIDE DEF row
<1>6. table \in TagAssociationTable
  BY <1>4 DEF Sound, Databases, TagAssociationTable
<1>7. \A w \in TagIds : table[w] = IF w = t THEN row ELSE d.tagAssoc[w]
  BY DEF Sound, Databases, TagAssociationTable
<1> HIDE DEF table
<1>8. /\ e \in Databases
      /\ e.tags = d.tags /\ e.files = d.files /\ e.fileAssoc = d.fileAssoc
      /\ e.tagAssoc = table
  BY <1>6 DEF Sound, Databases
<1>9. \A w, v \in TagIds, b \in AssocIds :
        e.tagAssoc[w][v][b] = IF w = t /\ v = u /\ b = a THEN k ELSE d.tagAssoc[w][v][b]
  BY <1>2, <1>5, <1>7, <1>8
<1> HIDE DEF e
<1>10. UniqueNamesOf(e)
  BY <1>8 DEF Sound, UniqueNamesOf
<1>11. NoDanglingRowsOf(e)
  BY <1>8, <1>9 DEF Sound, NoDanglingRowsOf
<1>12. NoDuplicateRowsOf(e)
  <2>1. \A w \in TagIds, f \in FileIds : e.fileAssoc[w][f] <= 1
    BY <1>8 DEF Sound, NoDuplicateRowsOf
  <2>2. \A w, v \in TagIds, b \in AssocIds : e.tagAssoc[w][v][b] <= 1
    BY <1>9 DEF Sound, NoDuplicateRowsOf
  <2>3. \A w, v \in TagIds, b, c \in AssocIds :
          e.tagAssoc[w][v][b] > 0 /\ e.tagAssoc[w][v][c] > 0 => b = c
    BY <1>9 DEF Sound, NoDuplicateRowsOf
  <2> QED BY <2>1, <2>2, <2>3 DEF NoDuplicateRowsOf
<1>13. Sound(e)
  BY <1>8, <1>10, <1>11, <1>12 DEF Sound
<1> QED BY <1>3, <1>13

(* add_association relates two tags that exist and are not yet related.    *)
LEMMA AddAssociationSound ==
  ASSUME NEW d, Sound(d), NEW m \in TagNames, NEW n \in TagNames, NEW a \in AssocIds
  PROVE  /\ Sound(add_association(d, m, n, a).db)
         /\ add_association(d, m, n, a).code \in Codes
<1> DEFINE t == get_tag_id(d, m)
           u == get_tag_id(d, n)
           refused == \/ t = KW_FAIL \/ u = KW_FAIL
                      \/ get_association(d, m, n) # KW_FAIL
<1>1. CASE refused
  BY <1>1 DEF add_association, Return, Codes
<1>2. CASE ~refused
  <2>1. /\ t \in TagIds /\ d.tags[t] # NoRow
        /\ u \in TagIds /\ d.tags[u] # NoRow
    BY <1>2, TagIdFound, NoRowAssumption DEF Sound
  <2>2. AssociationRows(d, t, u) = {}
    <3>1. SUFFICES ASSUME AssociationRows(d, t, u) # {} PROVE FALSE
      OBVIOUS
    <3>2. get_association(d, m, n) = CHOOSE b \in AssociationRows(d, t, u) : TRUE
      BY <1>2, <3>1 DEF get_association
    <3>3. get_association(d, m, n) \in AssocIds
      BY <3>1, <3>2 DEF AssociationRows
    <3> QED BY <1>2, <3>3, AssocAssumption DEF KW_FAIL
  <2>3. add_association(d, m, n, a)
          = Return([d EXCEPT !.tagAssoc[t][u][a] = @ + 1], KW_SUCCESS)
    BY <1>2 DEF add_association, is_association_type, KW_FAIL
  <2> HIDE DEF t, u
  <2>4. \A b \in AssocIds : d.tagAssoc[t][u][b] = 0
    BY <2>1, <2>2 DEF AssociationRows, Sound, Databases, TagAssociationTable
  <2>5. [d EXCEPT !.tagAssoc[t][u][a] = @ + 1] = [d EXCEPT !.tagAssoc[t][u][a] = 1]
    <3>1. d.tagAssoc[t][u][a] + 1 = 1
      BY <2>4
    <3> QED BY <3>1
  <2>6. Sound([d EXCEPT !.tagAssoc[t][u][a] = 1])
    BY <2>1, <2>4, TagRowSound
  <2> QED BY <2>3, <2>5, <2>6 DEF Return, Codes
<1> QED BY <1>1, <1>2

(* remove_association takes away the row of that relation only.            *)
LEMMA RemoveAssociationSound ==
  ASSUME NEW d, Sound(d), NEW m \in TagNames, NEW n \in TagNames, NEW a \in AssocIds
  PROVE  /\ Sound(remove_association(d, m, n, a).db)
         /\ remove_association(d, m, n, a).code \in Codes
<1> DEFINE t == get_tag_id(d, m)
           u == get_tag_id(d, n)
<1>1. CASE t = KW_FAIL \/ u = KW_FAIL
  BY <1>1 DEF remove_association, Return, Codes
<1>2. CASE ~(t = KW_FAIL \/ u = KW_FAIL)
  <2>1. /\ t \in TagIds /\ d.tags[t] # NoRow
        /\ u \in TagIds /\ d.tags[u] # NoRow
    BY <1>2, TagIdFound, NoRowAssumption DEF Sound
  <2>2. remove_association(d, m, n, a)
          = Return([d EXCEPT !.tagAssoc[t][u][a] = 0], KW_SUCCESS)
    BY <1>2 DEF remove_association, is_association_type, KW_FAIL
  <2> HIDE DEF t, u
  <2>3. Sound([d EXCEPT !.tagAssoc[t][u][a] = 0])
    BY <2>1, TagRowSound
  <2> QED BY <2>2, <2>3 DEF Return, Codes
<1> QED BY <1>1, <1>2

-----------------------------------------------------------------------------
(* What a write does to the cells of the tables.                           *)
LEMMA SetTag ==
  ASSUME NEW d \in Databases, NEW t \in TagIds, NEW n \in TagNames \cup {NoRow}
  PROVE  LET e == [d EXCEPT !.tags[t] = n] IN
         /\ e \in Databases
         /\ e.files = d.files /\ e.fileAssoc = d.fileAssoc /\ e.tagAssoc = d.tagAssoc
         /\ \A u \in TagIds : e.tags[u] = IF u = t THEN n ELSE d.tags[u]
  BY DEF Databases, TagTable

LEMMA SetFile ==
  ASSUME NEW d \in Databases, NEW f \in FileIds, NEW p \in AbsPaths \cup {NoRow}
  PROVE  LET e == [d EXCEPT !.files[f] = p] IN
         /\ e \in Databases
         /\ e.tags = d.tags /\ e.fileAssoc = d.fileAssoc /\ e.tagAssoc = d.tagAssoc
         /\ \A g \in FileIds : e.files[g] = IF g = f THEN p ELSE d.files[g]
  BY DEF Databases, FileTable

LEMMA SetRow ==
  ASSUME NEW d \in Databases, NEW t \in TagIds, NEW f \in FileIds, NEW k \in Nat
  PROVE  LET e == [d EXCEPT !.fileAssoc[t][f] = k] IN
         /\ e \in Databases
         /\ e.tags = d.tags /\ e.files = d.files /\ e.tagAssoc = d.tagAssoc
         /\ \A u \in TagIds, g \in FileIds :
              e.fileAssoc[u][g] = IF u = t /\ g = f THEN k ELSE d.fileAssoc[u][g]
<1> DEFINE row   == [d.fileAssoc[t] EXCEPT ![f] = k]
           table == [d.fileAssoc EXCEPT ![t] = row]
<1>1. row \in [FileIds -> Nat]
  BY DEF Databases, FileAssociationTable
<1>2. \A g \in FileIds : row[g] = IF g = f THEN k ELSE d.fileAssoc[t][g]
  BY DEF Databases, FileAssociationTable
<1>3. [d EXCEPT !.fileAssoc[t][f] = k] = [d EXCEPT !.fileAssoc = table]
  OBVIOUS
<1> HIDE DEF row
<1>4. table \in FileAssociationTable
  BY <1>1 DEF Databases, FileAssociationTable
<1>5. \A u \in TagIds : table[u] = IF u = t THEN row ELSE d.fileAssoc[u]
  BY DEF Databases, FileAssociationTable
<1> HIDE DEF table
<1> DEFINE e == [d EXCEPT !.fileAssoc[t][f] = k]
<1>6. /\ e \in Databases /\ e.fileAssoc = table
      /\ e.tags = d.tags /\ e.files = d.files /\ e.tagAssoc = d.tagAssoc
  BY <1>3, <1>4 DEF Databases
<1> HIDE DEF e
<1>7. \A u \in TagIds, g \in FileIds :
        e.fileAssoc[u][g] = IF u = t /\ g = f THEN k ELSE d.fileAssoc[u][g]
  BY <1>2, <1>5, <1>6
<1> QED BY <1>6, <1>7 DEF e

(* A relation written: k rows of the kind a from t to u.                   *)
WithRelation(d, t, u, a, k) == [d EXCEPT !.tagAssoc[t][u][a] = k]

OnlyRelation(d, e, t, u, a, k) ==
  /\ e \in Databases
  /\ e.tags = d.tags /\ e.files = d.files /\ e.fileAssoc = d.fileAssoc
  /\ \A v, w \in TagIds : ~(v = t /\ w = u) => e.tagAssoc[v][w] = d.tagAssoc[v][w]
  /\ \A b \in AssocIds : e.tagAssoc[t][u][b] = IF b = a THEN k ELSE d.tagAssoc[t][u][b]

LEMMA SetRelation ==
  ASSUME NEW d \in Databases, NEW t \in TagIds, NEW u \in TagIds, NEW a \in AssocIds, NEW k \in Nat
  PROVE  OnlyRelation(d, WithRelation(d, t, u, a, k), t, u, a, k)
<1> DEFINE cell  == [d.tagAssoc[t][u] EXCEPT ![a] = k]
           row   == [d.tagAssoc[t] EXCEPT ![u] = cell]
           table == [d.tagAssoc EXCEPT ![t] = row]
<1>1. cell \in [AssocIds -> Nat]
  BY DEF Databases, TagAssociationTable
<1>2. \A b \in AssocIds : cell[b] = IF b = a THEN k ELSE d.tagAssoc[t][u][b]
  BY DEF Databases, TagAssociationTable
<1>3. WithRelation(d, t, u, a, k) = [d EXCEPT !.tagAssoc = table]
  BY DEF WithRelation
<1> HIDE DEF cell
<1>4. row \in [TagIds -> [AssocIds -> Nat]]
  BY <1>1 DEF Databases, TagAssociationTable
<1>5. \A v \in TagIds : row[v] = IF v = u THEN cell ELSE d.tagAssoc[t][v]
  BY DEF Databases, TagAssociationTable
<1> HIDE DEF row
<1>6. table \in TagAssociationTable
  BY <1>4 DEF Databases, TagAssociationTable
<1>7. \A w \in TagIds : table[w] = IF w = t THEN row ELSE d.tagAssoc[w]
  BY DEF Databases, TagAssociationTable
<1> HIDE DEF table
<1> DEFINE e == WithRelation(d, t, u, a, k)
<1>8. /\ e \in Databases /\ e.tagAssoc = table
      /\ e.tags = d.tags /\ e.files = d.files /\ e.fileAssoc = d.fileAssoc
  BY <1>3, <1>6 DEF Databases
<1> HIDE DEF e
<1>9. \A v, w \in TagIds : ~(v = t /\ w = u) => e.tagAssoc[v][w] = d.tagAssoc[v][w]
  BY <1>5, <1>7, <1>8
<1>10. \A b \in AssocIds : e.tagAssoc[t][u][b] = IF b = a THEN k ELSE d.tagAssoc[t][u][b]
  BY <1>2, <1>5, <1>7, <1>8
<1> QED BY <1>8, <1>9, <1>10 DEF e, OnlyRelation

-----------------------------------------------------------------------------
(* Calls that only add to the tables, and files of P only.                 *)
Adds(d, e, P) ==
  /\ Sound(d) /\ Sound(e)
  /\ \A f \in FileIds : \/ e.files[f] = d.files[f]
                        \/ d.files[f] = NoRow /\ e.files[f] \in P
  /\ \A t \in TagIds : d.tags[t] # NoRow => e.tags[t] = d.tags[t]
  /\ \A t \in TagIds, f \in FileIds : d.fileAssoc[t][f] <= e.fileAssoc[t][f]
  /\ \A t, u \in TagIds, a \in AssocIds : d.tagAssoc[t][u][a] <= e.tagAssoc[t][u][a]

LEMMA AddsSound ==
  ASSUME NEW d, NEW e, NEW P, Adds(d, e, P)
  PROVE  Sound(d) /\ Sound(e)
BY DEF Adds

LEMMA AddsNothing ==
  ASSUME NEW d, Sound(d), NEW P
  PROVE  Adds(d, d, P)
BY DEF Adds, Sound, Databases, FileAssociationTable, TagAssociationTable

LEMMA AddsOn ==
  ASSUME NEW d, NEW e, NEW f, NEW P, Adds(d, e, P), Adds(e, f, P)
  PROVE  Adds(d, f, P)
<1>1. \A t \in TagIds, g \in FileIds : d.fileAssoc[t][g] <= f.fileAssoc[t][g]
  BY DEF Adds, Sound, Databases, FileAssociationTable
<1>2. \A t, u \in TagIds, a \in AssocIds : d.tagAssoc[t][u][a] <= f.tagAssoc[t][u][a]
  BY DEF Adds, Sound, Databases, TagAssociationTable
<1>3. \A t \in TagIds : d.tags[t] # NoRow => f.tags[t] = d.tags[t]
  BY DEF Adds
<1>4. ASSUME NEW g \in FileIds
      PROVE  f.files[g] = d.files[g] \/ (d.files[g] = NoRow /\ f.files[g] \in P)
  <2>1. /\ e.files[g] = d.files[g] \/ (d.files[g] = NoRow /\ e.files[g] \in P)
        /\ f.files[g] = e.files[g] \/ (e.files[g] = NoRow /\ f.files[g] \in P)
    BY DEF Adds
  <2> QED BY <2>1
<1> QED BY <1>1, <1>2, <1>3, <1>4 DEF Adds

LEMMA AddTagAdds ==
  ASSUME NEW d, Sound(d), NEW n \in TagNames, NEW type \in TagTypes, NEW P
  PROVE  Adds(d, add_tag(d, n, type).db, P)
<1> DEFINE e == add_tag(d, n, type).db
<1>1. Sound(e)
  BY AddTagSound
<1>2. \/ e = d
      \/ \E t \in TagIds : e = [d EXCEPT !.tags[t] = n] /\ d.tags[t] = NoRow
  BY AddTagEffect DEF Return
<1> HIDE DEF e
<1>3. CASE e = d
  BY <1>3, AddsNothing DEF e
<1>4. ASSUME NEW t \in TagIds, e = [d EXCEPT !.tags[t] = n], d.tags[t] = NoRow
      PROVE  Adds(d, e, P)
  <2>1. /\ e.files = d.files /\ e.fileAssoc = d.fileAssoc /\ e.tagAssoc = d.tagAssoc
        /\ \A u \in TagIds : e.tags[u] = IF u = t THEN n ELSE d.tags[u]
    BY <1>4, SetTag DEF Sound
  <2>2. /\ \A v \in TagIds, h \in FileIds : d.fileAssoc[v][h] <= d.fileAssoc[v][h]
        /\ \A v, w \in TagIds, b \in AssocIds : d.tagAssoc[v][w][b] <= d.tagAssoc[v][w][b]
    BY DEF Sound, Databases, FileAssociationTable, TagAssociationTable
  <2> QED BY <1>1, <1>4, <2>1, <2>2, Zenon DEF Adds
<1> QED BY <1>2, <1>3, <1>4 DEF e

LEMMA AddFileRowAdds ==
  ASSUME NEW d, Sound(d), NEW P, NEW p \in P, p \in AbsPaths
  PROVE  Adds(d, add_file_row(d, p).db, P)
<1> DEFINE e == add_file_row(d, p).db
<1>1. Sound(e)
  BY AddFileRowSound
<1>2. \/ e = d
      \/ \E f \in FileIds : e = [d EXCEPT !.files[f] = p] /\ d.files[f] = NoRow
  <2>1. CASE add_file_row(d, p) \in {Return(d, KW_ERROR), Return(d, KW_FAIL)}
    BY <2>1 DEF Return
  <2>2. ASSUME NEW f \in FileIds, d.files[f] = NoRow,
               add_file_row(d, p) = Return([d EXCEPT !.files[f] = p], KW_SUCCESS)
        PROVE  e = [d EXCEPT !.files[f] = p]
    BY <2>2 DEF Return
  <2> HIDE DEF e
  <2> QED BY <2>1, <2>2, AddFileRowEffect
<1> HIDE DEF e
<1>3. CASE e = d
  BY <1>3, AddsNothing DEF e
<1>4. ASSUME NEW f \in FileIds, e = [d EXCEPT !.files[f] = p], d.files[f] = NoRow
      PROVE  Adds(d, e, P)
  <2>1. /\ e.tags = d.tags /\ e.fileAssoc = d.fileAssoc /\ e.tagAssoc = d.tagAssoc
        /\ \A g \in FileIds : e.files[g] = IF g = f THEN p ELSE d.files[g]
    BY <1>4, SetFile DEF Sound
  <2>2. /\ \A v \in TagIds, h \in FileIds : d.fileAssoc[v][h] <= d.fileAssoc[v][h]
        /\ \A v, w \in TagIds, b \in AssocIds : d.tagAssoc[v][w][b] <= d.tagAssoc[v][w][b]
    BY DEF Sound, Databases, FileAssociationTable, TagAssociationTable
  <2> QED BY <1>1, <1>4, <2>1, <2>2, Zenon DEF Adds
<1> QED BY <1>2, <1>3, <1>4 DEF e

LEMMA TagFileAdds ==
  ASSUME NEW d, Sound(d), NEW t \in TagNames, NEW n \in FileNames, NEW P
  PROVE  Adds(d, tag_file(d, t, n).db, P)
<1> DEFINE e == tag_file(d, t, n).db
           f == get_file_id(d, n)
           u == get_tag_id(d, t)
<1>1. Sound(e)
  BY TagFileSound
<1>2. CASE f = KW_FAIL \/ u = KW_FAIL \/ d.fileAssoc[u][f] > 0
  <2>1. e = d
    BY <1>2 DEF tag_file, Return
  <2> QED BY <2>1, AddsNothing
<1>3. CASE ~(f = KW_FAIL \/ u = KW_FAIL \/ d.fileAssoc[u][f] > 0)
  <2>1. u \in TagIds /\ f \in FileIds
    BY <1>3, TagIdFound, FileIdFound DEF Sound
  <2>2. d.fileAssoc[u][f] + 1 = 1 /\ d.fileAssoc[u][f] = 0
    BY <1>3, <2>1 DEF Sound, Databases, FileAssociationTable
  <2>3. e = [d EXCEPT !.fileAssoc[u][f] = 1]
    BY <1>3, <2>2 DEF tag_file, Return
  <2> HIDE DEF e, f, u
  <2>4. /\ e.tags = d.tags /\ e.files = d.files /\ e.tagAssoc = d.tagAssoc
        /\ \A v \in TagIds, g \in FileIds :
             e.fileAssoc[v][g] = IF v = u /\ g = f THEN 1 ELSE d.fileAssoc[v][g]
    BY <2>1, <2>3, SetRow DEF Sound
  <2>5. Adds(d, e, P)
    BY <1>1, <2>1, <2>2, <2>4
    DEF Adds, Sound, Databases, FileAssociationTable, TagAssociationTable
  <2> QED BY <2>5 DEF e
<1> QED BY <1>2, <1>3

LEMMA AddAssociationAdds ==
  ASSUME NEW d, Sound(d), NEW m \in TagNames, NEW n \in TagNames, NEW a \in AssocIds, NEW P
  PROVE  Adds(d, add_association(d, m, n, a).db, P)
<1> DEFINE e == add_association(d, m, n, a).db
           t == get_tag_id(d, m)
           u == get_tag_id(d, n)
           refused == t = KW_FAIL \/ u = KW_FAIL \/ get_association(d, m, n) # KW_FAIL
<1>1. Sound(e)
  BY AddAssociationSound
<1>2. CASE refused
  <2>1. e = d
    BY <1>2 DEF add_association, Return
  <2> QED BY <2>1, AddsNothing
<1>3. CASE ~refused
  <2>1. t \in TagIds /\ u \in TagIds
    BY <1>3, TagIdFound DEF Sound
  <2>2. d.tagAssoc[t][u][a] + 1 \in Nat /\ d.tagAssoc[t][u][a] <= d.tagAssoc[t][u][a] + 1
    BY <2>1 DEF Sound, Databases, TagAssociationTable
  <2>3. e = [d EXCEPT !.tagAssoc[t][u][a] = @ + 1]
    BY <1>3 DEF add_association, is_association_type, Return, KW_FAIL
  <2> HIDE DEF e, t, u
  <2>4. e = WithRelation(d, t, u, a, d.tagAssoc[t][u][a] + 1)
    BY <2>3, Zenon DEF WithRelation
  <2>5. OnlyRelation(d, e, t, u, a, d.tagAssoc[t][u][a] + 1)
    BY <2>1, <2>2, <2>4, SetRelation DEF Sound
  <2>6. \A v, w \in TagIds, b \in AssocIds : d.tagAssoc[v][w][b] <= e.tagAssoc[v][w][b]
    <3>1. TAKE v, w \in TagIds, b \in AssocIds
    <3>2. CASE v = t /\ w = u
      <4>1. e.tagAssoc[t][u][b] = IF b = a THEN d.tagAssoc[t][u][a] + 1 ELSE d.tagAssoc[t][u][b]
        BY <2>5 DEF OnlyRelation
      <4>2. d.tagAssoc[t][u][b] \in Nat
        BY <2>1 DEF Sound, Databases, TagAssociationTable
      <4> QED BY <2>2, <3>2, <4>1, <4>2
    <3>3. CASE ~(v = t /\ w = u)
      BY <2>5, <3>3 DEF OnlyRelation, Sound, Databases, TagAssociationTable
    <3> QED BY <3>2, <3>3
  <2>7. Adds(d, e, P)
    BY <1>1, <2>5, <2>6 DEF Adds, OnlyRelation, Sound, Databases, FileAssociationTable
  <2> QED BY <2>7 DEF e
<1> QED BY <1>2, <1>3

-----------------------------------------------------------------------------
(* The tables by name.                                                     *)

(* A tag is in the store of names exactly when its lookup succeeds.        *)
LEMMA TagView ==
  ASSUME NEW d, Sound(d), NEW n \in TagNames
  PROVE  /\ n \in TagsOf(d) <=> get_tag_id(d, n) # KW_FAIL
         /\ \A t \in TagIds : d.tags[t] = n <=> t = get_tag_id(d, n)
<1>1. PICK t : t = get_tag_id(d, n)
  OBVIOUS
<1>2. \/ t = KW_FAIL /\ \A u \in TagIds : d.tags[u] # n
      \/ t \in TagIds /\ t # KW_FAIL /\ d.tags[t] = n
  BY <1>1, TagIdFound DEF Sound
<1>3. \A u \in TagIds : u # KW_FAIL
  BY BoundAssumption DEF TagIds, KW_FAIL
<1> QED
  BY <1>1, <1>2, <1>3, NoRowAssumption DEF TagsOf, Sound, UniqueNamesOf

(* A file name is in the store of names exactly when its lookup succeeds.  *)
LEMMA FileView ==
  ASSUME NEW d, Sound(d), NEW n \in FileNames
  PROVE  /\ (\E p \in PathsOf(d) : BaseName[p] = n) <=> get_file_id(d, n) # KW_FAIL
         /\ \A f \in FileIds : d.files[f] # NoRow /\ BaseName[d.files[f]] = n
                                 <=> f = get_file_id(d, n)
<1>1. PICK f : f = get_file_id(d, n)
  OBVIOUS
<1>2. \/ f = KW_FAIL /\ \A g \in FileIds : d.files[g] # NoRow => BaseName[d.files[g]] # n
      \/ f \in FileIds /\ f # KW_FAIL /\ d.files[f] # NoRow /\ BaseName[d.files[f]] = n
  BY <1>1, FileIdFound DEF Sound
<1>3. \A g \in FileIds : g # KW_FAIL /\ d.files[g] \in AbsPaths \cup {NoRow}
  BY BoundAssumption DEF FileIds, KW_FAIL, Sound, Databases, FileTable
<1>4. \A p \in PathsOf(d) : p # NoRow /\ \E g \in FileIds : d.files[g] = p
  BY NoRowAssumption DEF PathsOf
<1>5. \A g \in FileIds : d.files[g] # NoRow => d.files[g] \in PathsOf(d)
  BY <1>3 DEF PathsOf
<1>6. \A g \in FileIds : d.files[g] # NoRow /\ BaseName[d.files[g]] = n <=> g = f
  BY <1>2, <1>3 DEF Sound, UniqueNamesOf
<1> QED
  BY <1>1, <1>2, <1>4, <1>5, <1>6

(* A file is under a tag in the store of names exactly when there is a row *)
(* with the two ids.                                                       *)
LEMMA TaggedView ==
  ASSUME NEW d, Sound(d), NEW t \in TagNames, NEW n \in FileNames
  PROVE  <<t, n>> \in TaggedOf(d) <=>
           /\ get_tag_id(d, t) # KW_FAIL /\ get_file_id(d, n) # KW_FAIL
           /\ d.fileAssoc[get_tag_id(d, t)][get_file_id(d, n)] > 0
<1>1. \A u \in TagIds : d.tags[u] = t <=> u = get_tag_id(d, t)
  BY TagView
<1>2. \A f \in FileIds : d.files[f] # NoRow /\ BaseName[d.files[f]] = n
                           <=> f = get_file_id(d, n)
  BY FileView
<1>3. get_tag_id(d, t) # KW_FAIL => get_tag_id(d, t) \in TagIds
  BY TagIdFound DEF Sound
<1>4. get_file_id(d, n) # KW_FAIL => get_file_id(d, n) \in FileIds
  BY FileIdFound DEF Sound
<1>5. KW_FAIL \notin TagIds /\ KW_FAIL \notin FileIds
  BY BoundAssumption DEF TagIds, FileIds, KW_FAIL
<1> QED
  BY <1>1, <1>2, <1>3, <1>4, <1>5 DEF TaggedOf

(* Two tags are related in the store of names exactly when there is a row  *)
(* with the two ids.                                                       *)
LEMMA BelowView ==
  ASSUME NEW d, Sound(d), NEW m \in TagNames, NEW n \in TagNames, NEW a \in AssocIds
  PROVE  <<m, n, a>> \in BelowOf(d) <=>
           /\ get_tag_id(d, m) # KW_FAIL /\ get_tag_id(d, n) # KW_FAIL
           /\ d.tagAssoc[get_tag_id(d, m)][get_tag_id(d, n)][a] > 0
<1>1. \A u \in TagIds : d.tags[u] = m <=> u = get_tag_id(d, m)
  BY TagView
<1>2. \A u \in TagIds : d.tags[u] = n <=> u = get_tag_id(d, n)
  BY TagView
<1>3. get_tag_id(d, m) # KW_FAIL => get_tag_id(d, m) \in TagIds
  BY TagIdFound DEF Sound
<1>4. get_tag_id(d, n) # KW_FAIL => get_tag_id(d, n) \in TagIds
  BY TagIdFound DEF Sound
<1>5. KW_FAIL \notin TagIds
  BY BoundAssumption DEF TagIds, KW_FAIL
<1> QED
  BY <1>1, <1>2, <1>3, <1>4, <1>5 DEF BelowOf

(* A new row for a tag adds its name and nothing else: no row of the       *)
(* association tables mentions an id without a tag.                        *)
LEMMA NewTagRowView ==
  ASSUME NEW d, Sound(d), NEW n \in TagNames, NEW t \in TagIds, d.tags[t] = NoRow,
         NEW e, e = [d EXCEPT !.tags[t] = n]
  PROVE  /\ TagsOf(e) = TagsOf(d) \cup {n} /\ PathsOf(e) = PathsOf(d)
         /\ TaggedOf(e) = TaggedOf(d) /\ BelowOf(e) = BelowOf(d)
<1>1. /\ e.tags = [d.tags EXCEPT ![t] = n] /\ e.files = d.files
      /\ e.fileAssoc = d.fileAssoc /\ e.tagAssoc = d.tagAssoc
  BY DEF Sound, Databases
<1>2. /\ \A u \in TagIds : e.tags[u] = IF u = t THEN n ELSE d.tags[u]
      /\ \A u \in TagIds, f \in FileIds : d.fileAssoc[u][f] > 0 => u # t
      /\ \A u, v \in TagIds, a \in AssocIds : d.tagAssoc[u][v][a] > 0 => u # t /\ v # t
  BY <1>1 DEF Sound, Databases, TagTable, NoDanglingRowsOf
<1>3. TagsOf(e) = TagsOf(d) \cup {n}
  BY <1>2, NoRowAssumption DEF TagsOf
<1>4. PathsOf(e) = PathsOf(d)
  BY <1>1 DEF PathsOf
<1>5. TaggedOf(e) = TaggedOf(d)
  BY <1>1, <1>2 DEF TaggedOf
<1>6. BelowOf(e) = BelowOf(d)
  <2>1. \A r \in TagNames \X TagNames \X AssocIds : r[3] \in AssocIds
    OBVIOUS
  <2> QED BY <1>1, <1>2, <2>1 DEF BelowOf
<1> QED BY <1>3, <1>4, <1>5, <1>6

(* A new row for a file adds its path and nothing else.                    *)
LEMMA NewFileRowView ==
  ASSUME NEW d, Sound(d), NEW p \in AbsPaths, NEW f \in FileIds, d.files[f] = NoRow,
         NEW e, e = [d EXCEPT !.files[f] = p]
  PROVE  /\ TagsOf(e) = TagsOf(d) /\ PathsOf(e) = PathsOf(d) \cup {p}
         /\ TaggedOf(e) = TaggedOf(d) /\ BelowOf(e) = BelowOf(d)
<1>1. /\ e.files = [d.files EXCEPT ![f] = p] /\ e.tags = d.tags
      /\ e.fileAssoc = d.fileAssoc /\ e.tagAssoc = d.tagAssoc
  BY DEF Sound, Databases
<1>2. /\ \A g \in FileIds : e.files[g] = IF g = f THEN p ELSE d.files[g]
      /\ \A u \in TagIds, g \in FileIds : d.fileAssoc[u][g] > 0 => g # f
  BY <1>1 DEF Sound, Databases, FileTable, NoDanglingRowsOf
<1>3. PathsOf(e) = PathsOf(d) \cup {p}
  BY <1>2, NoRowAssumption DEF PathsOf
<1>4. TaggedOf(e) = TaggedOf(d)
  BY <1>1, <1>2 DEF TaggedOf
<1> QED BY <1>1, <1>3, <1>4 DEF TagsOf, BelowOf

(* A new row for a file under a tag adds that pair of names.               *)
LEMMA NewFileAssocView ==
  ASSUME NEW d, Sound(d), NEW t \in TagNames, NEW n \in FileNames,
         NEW u, u = get_tag_id(d, t), u # KW_FAIL,
         NEW f, f = get_file_id(d, n), f # KW_FAIL,
         ~(d.fileAssoc[u][f] > 0),
         NEW e, e = [d EXCEPT !.fileAssoc[u][f] = @ + 1]
  PROVE  /\ TagsOf(e) = TagsOf(d) /\ PathsOf(e) = PathsOf(d) /\ BelowOf(e) = BelowOf(d)
         /\ TaggedOf(e) = TaggedOf(d) \cup {<<t, n>>}
<1>1. /\ u \in TagIds /\ \A v \in TagIds : d.tags[v] = t <=> v = u
      /\ f \in FileIds
      /\ \A g \in FileIds : d.files[g] # NoRow /\ BaseName[d.files[g]] = n <=> g = f
  BY TagView, TagIdFound, FileView, FileIdFound DEF Sound
<1>2. d.fileAssoc[u][f] = 0
  BY <1>1 DEF Sound, Databases, FileAssociationTable
<1>3. /\ e.tags = d.tags /\ e.files = d.files /\ e.tagAssoc = d.tagAssoc
      /\ \A v \in TagIds, g \in FileIds :
            e.fileAssoc[v][g] = IF v = u /\ g = f THEN 1 ELSE d.fileAssoc[v][g]
  BY <1>1, <1>2 DEF Sound, Databases, FileAssociationTable
<1>4. TagsOf(e) = TagsOf(d) /\ PathsOf(e) = PathsOf(d) /\ BelowOf(e) = BelowOf(d)
  BY <1>3 DEF TagsOf, PathsOf, BelowOf
<1>5. TaggedOf(e) = TaggedOf(d) \cup {<<t, n>>}
  BY <1>1, <1>3 DEF TaggedOf
<1> QED BY <1>4, <1>5

(* get_association finds a relation exactly when the store of names has    *)
(* one.                                                                    *)
LEMMA RelatedView ==
  ASSUME NEW d, Sound(d), NEW m \in TagNames, NEW n \in TagNames,
         get_tag_id(d, m) # KW_FAIL, get_tag_id(d, n) # KW_FAIL
  PROVE  get_association(d, m, n) # KW_FAIL <=>
           \E a \in AssocIds : <<m, n, a>> \in BelowOf(d)
<1> DEFINE t == get_tag_id(d, m)
           u == get_tag_id(d, n)
           related == get_association(d, m, n) # KW_FAIL
<1>1. \A a \in AssocIds : <<m, n, a>> \in BelowOf(d) <=> d.tagAssoc[t][u][a] > 0
  BY BelowView
<1>2. related <=> AssociationRows(d, t, u) # {}
  <2>1. CASE AssociationRows(d, t, u) = {}
    BY <2>1 DEF get_association
  <2>2. CASE AssociationRows(d, t, u) # {}
    <3>1. get_association(d, m, n) = CHOOSE a \in AssociationRows(d, t, u) : TRUE
      BY <2>2 DEF get_association
    <3>2. get_association(d, m, n) \in AssocIds
      BY <2>2, <3>1 DEF AssociationRows
    <3> QED BY <2>2, <3>2, AssocAssumption DEF KW_FAIL
  <2> QED BY <2>1, <2>2
<1> QED BY <1>1, <1>2 DEF AssociationRows

(* A new row that relates two tags adds that relation of names.            *)
LEMMA NewTagAssocView ==
  ASSUME NEW d, Sound(d), NEW m \in TagNames, NEW n \in TagNames, NEW id \in AssocIds,
         NEW t, t = get_tag_id(d, m), t # KW_FAIL,
         NEW u, u = get_tag_id(d, n), u # KW_FAIL,
         get_association(d, m, n) = KW_FAIL,
         NEW e, e = [d EXCEPT !.tagAssoc[t][u][id] = @ + 1]
  PROVE  /\ TagsOf(e) = TagsOf(d) /\ PathsOf(e) = PathsOf(d) /\ TaggedOf(e) = TaggedOf(d)
         /\ BelowOf(e) = BelowOf(d) \cup {<<m, n, id>>}
<1>1. /\ t \in TagIds /\ \A v \in TagIds : d.tags[v] = m <=> v = t
      /\ u \in TagIds /\ \A v \in TagIds : d.tags[v] = n <=> v = u
  BY TagView, TagIdFound DEF Sound
<1>2. d.tagAssoc[t][u][id] = 0
  <2>1. <<m, n, id>> \notin BelowOf(d)
    BY RelatedView
  <2>2. ~(d.tagAssoc[t][u][id] > 0)
    BY <2>1, BelowView
  <2> QED BY <1>1, <2>2 DEF Sound, Databases, TagAssociationTable
<1>3. /\ e.tags = d.tags /\ e.files = d.files /\ e.fileAssoc = d.fileAssoc
      /\ \A v, w \in TagIds, a \in AssocIds :
            e.tagAssoc[v][w][a] = IF v = t /\ w = u /\ a = id THEN 1
                                  ELSE d.tagAssoc[v][w][a]
  BY <1>1, <1>2 DEF Sound, Databases, TagAssociationTable
<1>4. TagsOf(e) = TagsOf(d) /\ PathsOf(e) = PathsOf(d) /\ TaggedOf(e) = TaggedOf(d)
  BY <1>3 DEF TagsOf, PathsOf, TaggedOf
<1>5. BelowOf(e) = BelowOf(d) \cup {<<m, n, id>>}
  <2>1. \A r \in TagNames \X TagNames \X AssocIds : r[3] \in AssocIds
    OBVIOUS
  <2> QED BY <1>1, <1>3, <2>1 DEF BelowOf
<1> QED BY <1>4, <1>5

=============================================================================
