------------------------------- MODULE MCExport -------------------------------
(* Small instances of an export beside the daemon, for TLC.                *)
EXTENDS KwestExport, TLC

CONSTANTS path1, name1, tagA, tagB, tagC, thread1

MCBaseName == path1 :> name1

(* One file, under all tags or under the last, and the subgroups: a tag    *)
(* below two others, or two tags below each other.                         *)
MCTables(below, under) ==
  [EmptyDb EXCEPT
     !.tags  = (0 :> tagA @@ 1 :> tagB @@ 2 :> tagC),
     !.files = [f \in FileIds |-> path1],
     !.fileAssoc = [t \in TagIds |-> [f \in FileIds |-> IF t \in under THEN 1 ELSE 0]],
     !.tagAssoc  = [t \in TagIds |-> [u \in TagIds |-> [a \in AssocIds |->
                      IF <<t, u>> \in below THEN 1 ELSE 0]]]]
MCFirstDbs ==
  {MCTables({<<1, 0>>, <<2, 0>>, <<2, 1>>}, {0, 2}), MCTables({<<1, 0>>, <<0, 1>>}, {1})}
=============================================================================
