----------------------------- MODULE MCStatements -----------------------------
(* Small instances of the calls of several threads, for TLC.               *)
EXTENDS KwestStatements, TLC

CONSTANTS path1, name1, tagA, tagB, thread1, thread2

MCBaseName == path1 :> name1
MCSymmetry == Permutations({thread1, thread2})

(* Tables main, or requests before, may leave: a tag of main's own, with   *)
(* one below it that was made with mkdir or without; one tag made with     *)
(* mkdir, whose id comes back when it is removed.                          *)
MCTables(tags, under, below) ==
  [EmptyDb EXCEPT
     !.tags  = [t \in TagIds |-> IF t \in DOMAIN tags THEN tags[t] ELSE NoRow],
     !.files = [f \in FileIds |-> path1],
     !.fileAssoc = [t \in TagIds |-> [f \in FileIds |-> IF t = under THEN 1 ELSE 0]],
     !.tagAssoc  = [t \in TagIds |-> [u \in TagIds |-> [a \in AssocIds |->
                      IF <<t, u>> \in below THEN 1 ELSE 0]]]]
MCFirstDbs ==
  {MCTables(0 :> tagA @@ 2 :> tagB, 2, {<<2, 0>>}), MCTables(0 :> tagA, 0, {}),
   MCTables(2 :> tagA, 2, {})}
=============================================================================
