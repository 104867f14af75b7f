----------------------------- MODULE KwestTables -----------------------------
(***************************************************************************)
(* The sqlite tables of kwest and the calls of dbkey.c and dbbasic.c on    *)
(* them, as operators from a database to a database and a return code.    *)
(* The state machines of the project (the store, the daemon, the start-up  *)
(* of the program) are built from these operators.                         *)
(*                                                                         *)
(* A table with a primary key is a function from ids to its text column,   *)
(* with NoRow where there is no row.  A table without a key may hold a row *)
(* twice, so it is a bag: a count for each possible row.                   *)
(***************************************************************************)
EXTENDS Integers, FiniteSetsExt

CONSTANTS
  TagNames,      \* the strings used as tag names
  AbsPaths,      \* the absolute paths of files on the disk
  BaseName,      \* [AbsPaths -> names]: what follows the last '/' of a path
  NoRow,         \* marks an id without a row
  AssocIds,      \* the association ids passed to the calls
  UserTagStart,  \* first id of an imported tag (100 in flags.h)
  UserMadeTag,   \* first id of a tag made with mkdir (500 in flags.h)
  MaxTno,        \* bound: sqlite refuses to insert a tag id above this one
  MaxFno         \* bound: sqlite refuses to insert a file id above this one

ASSUME NoRowAssumption == NoRow \notin TagNames \cup AbsPaths
ASSUME PathAssumption  == BaseName = [p \in AbsPaths |-> BaseName[p]]
ASSUME AssocAssumption == AssocIds \subseteq Nat
ASSUME BoundAssumption ==
  /\ MaxTno \in Nat /\ MaxFno \in Nat
  /\ UserTagStart \in Nat /\ UserMadeTag \in Nat
  /\ 0 < UserTagStart /\ UserTagStart < UserMadeTag

(* Return codes (flags.h).  KW_ERROR is also the id of an association.     *)
KW_SUCCESS == 0
KW_FAIL    == -1
KW_ERROR   == 1
Codes      == {KW_SUCCESS, KW_FAIL, KW_ERROR}

(* Tag classes, the argument of add_tag (flags.h).                         *)
USER_TAG      == 1
SYSTEM_TAG    == 2
USER_MADE_TAG == 500
TagTypes      == {USER_TAG, SYSTEM_TAG, USER_MADE_TAG}

ASSOC_SUBGROUP == 2

TagIds    == 0..MaxTno
FileIds   == 0..MaxFno
FileNames == {BaseName[p] : p \in AbsPaths}

-----------------------------------------------------------------------------
(* The tables.                                                             *)

TagTable  == [TagIds -> TagNames \cup {NoRow}]     \* TagDetails(tno, tagname)
FileTable == [FileIds -> AbsPaths \cup {NoRow}]    \* FileDetails(fno, fname, abspath)
FileAssociationTable == [TagIds -> [FileIds -> Nat]] \* rows (tno, fno)
TagAssociationTable  == [TagIds -> [TagIds -> [AssocIds -> Nat]]]
                                                   \* rows (t1, t2, associationid)

Databases == [tags      : TagTable,
              files     : FileTable,
              fileAssoc : FileAssociationTable,
              tagAssoc  : TagAssociationTable]

(* What the "create table if not exists" statements leave on a first run.  *)
EmptyDb ==
  [tags      |-> [t \in TagIds |-> NoRow],
   files     |-> [f \in FileIds |-> NoRow],
   fileAssoc |-> [t \in TagIds |-> [f \in FileIds |-> 0]],
   tagAssoc  |-> [t \in TagIds |-> [u \in TagIds |-> [a \in AssocIds |-> 0]]]]

(* The result of a call: the database it leaves and its return code.       *)
Return(db, code) == [db |-> db, code |-> code]

-----------------------------------------------------------------------------
(* dbkey.c: ids from names and ids for new rows.                           *)

TagsNamed(db, n)  == {t \in TagIds : db.tags[t] = n}
FilesNamed(db, n) == {f \in FileIds : /\ db.files[f] # NoRow
                                      /\ BaseName[db.files[f]] = n}

(* The first row of "select ... where name = n": a scan in key order.      *)
FirstRow(ids) == CHOOSE i \in ids : \A j \in ids : i <= j

get_tag_id(db, n) ==
  IF TagsNamed(db, n) = {} THEN KW_FAIL ELSE FirstRow(TagsNamed(db, n))

get_file_id(db, n) ==
  IF FilesNamed(db, n) = {} THEN KW_FAIL ELSE FirstRow(FilesNamed(db, n))

(* One more than "select max(id)" of the rows in use, or the first id.     *)
IdAfter(used, first) == IF used = {} THEN first ELSE Max(used) + 1

(* MUTANT: a file counts as known only under the same absolute path.       *)
set_file_id_by_path(db, p) ==
  IF \E f \in FileIds : db.files[f] = p
  THEN KW_FAIL
  ELSE IdAfter({f \in FileIds : db.files[f] # NoRow}, 0)

set_file_id(db, p) ==
  IF get_file_id(db, BaseName[p]) # KW_FAIL
  THEN KW_FAIL
  ELSE IdAfter({f \in FileIds : db.files[f] # NoRow}, 0)

FirstIdOf(type) ==
  CASE type = USER_TAG      -> UserTagStart
    [] type = SYSTEM_TAG    -> 0
    [] type = USER_MADE_TAG -> UserMadeTag

(* The ids the "where tno ..." clause of the class selects.                *)
IdsOf(type) ==
  CASE type = USER_TAG      -> {t \in TagIds : UserTagStart <= t /\ t < UserMadeTag}
    [] type = SYSTEM_TAG    -> {t \in TagIds : t < UserTagStart}
    [] type = USER_MADE_TAG -> {t \in TagIds : UserMadeTag <= t}

(* MUTANT: the number of tags of the class instead of their largest id.    *)
set_tag_id_by_count(db, n, type) ==
  IF get_tag_id(db, n) # KW_FAIL
  THEN KW_FAIL
  ELSE FirstIdOf(type) + Cardinality({t \in IdsOf(type) : db.tags[t] # NoRow})

set_tag_id(db, n, type) ==
  IF get_tag_id(db, n) # KW_FAIL
  THEN KW_FAIL
  ELSE IdAfter({t \in IdsOf(type) : db.tags[t] # NoRow}, FirstIdOf(type))

(* The primary key refuses an id in use; the bound, one out of range.      *)
Insertable(table, id) == id \in DOMAIN table /\ table[id] = NoRow

-----------------------------------------------------------------------------
(* dbbasic.c: tags and files.                                              *)

(* MUTANT: answers the id it used.                                         *)
add_tag_returning_id(db, n, type) ==
  LET tno == set_tag_id(db, n, type) IN
  CASE tno = KW_FAIL -> Return(db, KW_ERROR)
    [] tno # KW_FAIL /\ ~Insertable(db.tags, tno) -> Return(db, KW_FAIL)
    [] OTHER -> Return([db EXCEPT !.tags[tno] = n], tno)

add_tag(db, n, type) ==
  LET tno == set_tag_id(db, n, type) IN
  CASE tno = KW_FAIL -> Return(db, KW_ERROR)
    [] tno # KW_FAIL /\ ~Insertable(db.tags, tno) -> Return(db, KW_FAIL)
    [] OTHER -> Return([db EXCEPT !.tags[tno] = n], KW_SUCCESS)

(* MUTANT: the relations in which the tag is the parent stay.              *)
WithoutTag_as_child(db, tno) ==
  [tags      |-> [db.tags EXCEPT ![tno] = NoRow],
   files     |-> db.files,
   fileAssoc |-> [t \in TagIds |-> [f \in FileIds |->
                    IF t = tno THEN 0 ELSE db.fileAssoc[t][f]]],
   tagAssoc  |-> [t \in TagIds |-> [u \in TagIds |-> [a \in AssocIds |->
                    IF t = tno THEN 0 ELSE db.tagAssoc[t][u][a]]]]]

(* remove_tag deletes from the three tables that mention the id.           *)
WithoutTag(db, tno) ==
  [tags      |-> [db.tags EXCEPT ![tno] = NoRow],
   files     |-> db.files,
   fileAssoc |-> [t \in TagIds |-> [f \in FileIds |->
                    IF t = tno THEN 0 ELSE db.fileAssoc[t][f]]],
   tagAssoc  |-> [t \in TagIds |-> [u \in TagIds |-> [a \in AssocIds |->
                    IF t = tno \/ u = tno THEN 0 ELSE db.tagAssoc[t][u][a]]]]]

remove_tag(db, n) ==
  LET tno == get_tag_id(db, n) IN
  IF tno = KW_FAIL THEN Return(db, KW_ERROR)
  ELSE Return(WithoutTag(db, tno), KW_SUCCESS)

(* The row add_file inserts, before a plugin looks at the file: the whole  *)
(* of add_file is in KwestPlugins.                                         *)
add_file_row(db, p) ==
  LET fno == set_file_id(db, p) IN
  CASE fno = KW_FAIL -> Return(db, KW_ERROR)
    [] fno # KW_FAIL /\ ~Insertable(db.files, fno) -> Return(db, KW_FAIL)
    [] OTHER -> Return([db EXCEPT !.files[fno] = p], KW_SUCCESS)

WithoutFile(db, fno) ==
  [tags      |-> db.tags,
   files     |-> [db.files EXCEPT ![fno] = NoRow],
   fileAssoc |-> [t \in TagIds |-> [f \in FileIds |->
                    IF f = fno THEN 0 ELSE db.fileAssoc[t][f]]],
   tagAssoc  |-> db.tagAssoc]

remove_file(db, n) ==
  LET fno == get_file_id(db, n) IN
  IF fno = KW_FAIL THEN Return(db, KW_ERROR)
  ELSE Return(WithoutFile(db, fno), KW_SUCCESS)

(* MUTANT: the row is added without looking for it.                        *)
tag_file_unchecked(db, t, n) ==
  LET fno == get_file_id(db, n)
      tno == get_tag_id(db, t)
  IN IF fno = KW_FAIL \/ tno = KW_FAIL
     THEN Return(db, KW_ERROR)
     ELSE Return([db EXCEPT !.fileAssoc[tno][fno] = @ + 1], KW_SUCCESS)

(* dbbasic.c: the tags of a file.                                          *)
tag_file(db, t, n) ==
  LET fno == get_file_id(db, n)
      tno == get_tag_id(db, t)
  IN IF fno = KW_FAIL \/ tno = KW_FAIL \/ db.fileAssoc[tno][fno] > 0
     THEN Return(db, KW_ERROR)
     ELSE Return([db EXCEPT !.fileAssoc[tno][fno] = @ + 1], KW_SUCCESS)

(* MUTANT: "where fno = %d" alone takes the file from every tag.           *)
untag_file_everywhere(db, t, n) ==
  LET fno == get_file_id(db, n)
      tno == get_tag_id(db, t)
  IN IF fno = KW_FAIL \/ tno = KW_FAIL
     THEN Return(db, KW_ERROR)
     ELSE Return([db EXCEPT !.fileAssoc = [u \in TagIds |-> [db.fileAssoc[u] EXCEPT ![fno] = 0]]], KW_SUCCESS)

(* The row goes; the file stays, whether or not it has another tag.        *)
untag_file(db, t, n) ==
  LET fno == get_file_id(db, n)
      tno == get_tag_id(db, t)
  IN IF fno = KW_FAIL \/ tno = KW_FAIL
     THEN Return(db, KW_ERROR)
     ELSE Return([db EXCEPT !.fileAssoc[tno][fno] = 0], KW_SUCCESS)

-----------------------------------------------------------------------------
(* dbbasic.c: relations between tags.  is_association_type reads a table   *)
(* that does not exist, so it answers KW_FAIL for every id and no caller   *)
(* ever rejects one.                                                       *)
is_association_type(id) == KW_FAIL

AssociationRows(db, t1, t2) == {a \in AssocIds : db.tagAssoc[t1][t2][a] > 0}

get_association(db, m, n) ==
  LET t1 == get_tag_id(db, m)
      t2 == get_tag_id(db, n)
  IN CASE t1 = KW_FAIL \/ t2 = KW_FAIL -> KW_ERROR
       [] t1 # KW_FAIL /\ t2 # KW_FAIL /\ AssociationRows(db, t1, t2) = {} -> KW_FAIL
       [] OTHER -> CHOOSE a \in AssociationRows(db, t1, t2) : TRUE

(* MUTANT: the row is added without looking for it.                        *)
add_association_unchecked(db, m, n, id) ==
  LET t1 == get_tag_id(db, m)
      t2 == get_tag_id(db, n)
  IN IF is_association_type(id) = 0 \/ t1 = KW_FAIL \/ t2 = KW_FAIL
     THEN Return(db, KW_ERROR)
     ELSE Return([db EXCEPT !.tagAssoc[t1][t2][id] = @ + 1], KW_SUCCESS)

(* MUTANT: only a relation of the same kind counts as one.                 *)
add_association_per_kind(db, m, n, id) ==
  LET t1 == get_tag_id(db, m)
      t2 == get_tag_id(db, n)
  IN IF \/ is_association_type(id) = 0
        \/ t1 = KW_FAIL \/ t2 = KW_FAIL
        \/ db.tagAssoc[t1][t2][id] > 0
     THEN Return(db, KW_ERROR)
     ELSE Return([db EXCEPT !.tagAssoc[t1][t2][id] = @ + 1], KW_SUCCESS)

add_association(db, m, n, id) ==
  LET t1 == get_tag_id(db, m)
      t2 == get_tag_id(db, n)
  IN IF \/ is_association_type(id) = 0
        \/ t1 = KW_FAIL \/ t2 = KW_FAIL
        \/ get_association(db, m, n) # KW_FAIL
     THEN Return(db, KW_ERROR)
     ELSE Return([db EXCEPT !.tagAssoc[t1][t2][id] = @ + 1], KW_SUCCESS)

(* MUTANT: the relation the other way round goes too.                      *)
remove_association_both_ways(db, m, n, id) ==
  LET t1 == get_tag_id(db, m)
      t2 == get_tag_id(db, n)
  IN IF is_association_type(id) = 0 \/ t1 = KW_FAIL \/ t2 = KW_FAIL
     THEN Return(db, KW_ERROR)
     ELSE Return([db EXCEPT !.tagAssoc[t1][t2][id] = 0, !.tagAssoc[t2][t1][id] = 0],
                 KW_SUCCESS)

remove_association(db, m, n, id) ==
  LET t1 == get_tag_id(db, m)
      t2 == get_tag_id(db, n)
  IN IF is_association_type(id) = 0 \/ t1 = KW_FAIL \/ t2 = KW_FAIL
     THEN Return(db, KW_ERROR)
     ELSE Return([db EXCEPT !.tagAssoc[t1][t2][id] = 0], KW_SUCCESS)

-----------------------------------------------------------------------------
(* What keeps the tables meaningful.                                       *)

(* No two rows carry the same name, although neither name column is UNIQUE *)
(* in the schema: set_tag_id and set_file_id are all that keeps it so.     *)
UniqueNamesOf(d) ==
  /\ \A t, u \in TagIds : d.tags[t] # NoRow /\ d.tags[t] = d.tags[u] => t = u
  /\ \A f, g \in FileIds :
       /\ d.files[f] # NoRow /\ d.files[g] # NoRow
       /\ BaseName[d.files[f]] = BaseName[d.files[g]]
       => f = g

(* Every row of the association tables is about rows that exist, although  *)
(* the schema has no foreign keys: the deletes of remove_tag and           *)
(* remove_file are all that keeps it so.  An id is used again after the    *)
(* row with the largest id is removed, so a row left behind would attach   *)
(* itself to a tag or file created later.                                  *)
NoDanglingRowsOf(d) ==
  /\ \A t \in TagIds, f \in FileIds :
       d.fileAssoc[t][f] > 0 => d.tags[t] # NoRow /\ d.files[f] # NoRow
  /\ \A t, u \in TagIds, a \in AssocIds :
       d.tagAssoc[t][u][a] > 0 => d.tags[t] # NoRow /\ d.tags[u] # NoRow

(* A file is under a tag at most once and two tags are related by at most  *)
(* one row.  is_file_tagged_as compares a count with 1, so a duplicate     *)
(* would hide the file from every path lookup.                             *)
NoDuplicateRowsOf(d) ==
  /\ \A t \in TagIds, f \in FileIds : d.fileAssoc[t][f] <= 1
  /\ \A t, u \in TagIds, a \in AssocIds : d.tagAssoc[t][u][a] <= 1
  /\ \A t, u \in TagIds, a, b \in AssocIds :
       d.tagAssoc[t][u][a] > 0 /\ d.tagAssoc[t][u][b] > 0 => a = b

Sound(d) == /\ d \in Databases
            /\ UniqueNamesOf(d) /\ NoDanglingRowsOf(d) /\ NoDuplicateRowsOf(d)

-----------------------------------------------------------------------------
(* The tables as callers see them: names only, no ids.                    *)
TagsOf(d)  == {n \in TagNames : \E t \in TagIds : d.tags[t] = n}
PathsOf(d) == {p \in AbsPaths : \E f \in FileIds : d.files[f] = p}

TaggedOf(d) ==
  {r \in TagNames \X FileNames :
     \E t \in TagIds, f \in FileIds :
        /\ d.fileAssoc[t][f] > 0
        /\ d.tags[t] = r[1] /\ d.files[f] # NoRow /\ BaseName[d.files[f]] = r[2]}

BelowOf(d) ==
  {r \in TagNames \X TagNames \X AssocIds :
     \E t, u \in TagIds :
        d.tagAssoc[t][u][r[3]] > 0 /\ d.tags[t] = r[1] /\ d.tags[u] = r[2]}

=============================================================================
