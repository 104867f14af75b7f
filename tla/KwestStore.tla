------------------------------ MODULE KwestStore ------------------------------
(***************************************************************************)
(* The tag store of kwest: the database of KwestTables driven through the  *)
(* calls of dbbasic.c by any client (the importer, the consistency check   *)
(* and the daemon are such clients), one call at a time.  `code' is what   *)
(* the last call returned.                                                 *)
(***************************************************************************)
EXTENDS KwestPlugins

VARIABLES db, code

vars == <<db, code>>

Init == db = EmptyDb /\ code = KW_SUCCESS

Call(result) == db' = result.db /\ code' = result.code

AddTag(n, type)             == Call(add_tag(db, n, type))
RemoveTag(n)                == Call(remove_tag(db, n))
AddFile(p)                  == Call(add_file(db, p))
RemoveFile(n)               == Call(remove_file(db, n))
TagFile(t, n)               == Call(tag_file(db, t, n))
UntagFile(t, n)             == Call(untag_file(db, t, n))
AddAssociation(m, n, id)    == Call(add_association(db, m, n, id))
RemoveAssociation(m, n, id) == Call(remove_association(db, m, n, id))

Next ==
  \/ \E n \in TagNames, type \in TagTypes : AddTag(n, type)
  \/ \E n \in TagNames : RemoveTag(n)
  \/ \E p \in AbsPaths : AddFile(p)
  \/ \E n \in FileNames : RemoveFile(n)
  \/ \E t \in TagNames, n \in FileNames : TagFile(t, n)
  \/ \E t \in TagNames, n \in FileNames : UntagFile(t, n)
  \/ \E m, n \in TagNames, id \in AssocIds : AddAssociation(m, n, id)
  \/ \E m, n \in TagNames, id \in AssocIds : RemoveAssociation(m, n, id)

Spec == Init /\ [][Next]_vars

-----------------------------------------------------------------------------
(* The type invariant.                                                     *)
TypeOK == db \in Databases /\ code \in Codes

(* Every call leaves the tables sound; the parts are stated in KwestTables *)
(* and told apart here so that each is a property of its own.              *)
UniqueNames     == UniqueNamesOf(db)
NoDanglingRows  == NoDanglingRowsOf(db)
NoDuplicateRows == NoDuplicateRowsOf(db)

(* An insert fails only where the id ranges end: as long as the id after   *)
(* the largest of the class is in the class, no other tag has it, although *)
(* the three classes share one primary key.                                *)
FailsOnlyAtRangeEnd ==
  [][\A n \in TagNames, type \in TagTypes :
       AddTag(n, type) /\ code' = KW_FAIL
         => set_tag_id(db, n, type) \notin IdsOf(type)]_vars

-----------------------------------------------------------------------------
(* The store as its callers see it; see KwestTagStore for what it promises.*)
TagStore == INSTANCE KwestTagStore WITH
  tags   <- TagsOf(db),
  paths  <- PathsOf(db),
  tagged <- TaggedOf(db),
  below  <- BelowOf(db),
  Describes <- [p \in AbsPaths |-> DescribedBy(p)]

(* The tables implement the store of names: no caller can tell that tags   *)
(* and files are found by ids which come back after a removal.             *)
ImplementsTagStore == TagStore!Spec

=============================================================================
