---------------------------- MODULE MCSuggestions ----------------------------
(* Small databases to learn from, for TLC.                                 *)
EXTENDS KwestSuggestions, TLC

CONSTANTS f0, f1, f2, f3   \* files, each with its path for its name

MCBaseName == f0 :> "0" @@ f1 :> "1" @@ f2 :> "2" @@ f3 :> "3"
MCMetadata == [f \in AbsPaths |-> NoMetadata]
MCNames    == {"me", "A", "B", "C", "D", "E"}

(* A database with these tags, the three files, what is under the tags and *)
(* which tag is below which.                                               *)
MCDb(tagsof, filesof, below) ==
  [tags      |-> [t \in TagIds |-> IF t \in DOMAIN tagsof THEN tagsof[t] ELSE NoRow],
   files     |-> [f \in FileIds |-> CASE f = 0 -> f0 [] f = 1 -> f1 [] f = 2 -> f2
                                      [] OTHER -> NoRow],
   fileAssoc |-> [t \in TagIds |-> [f \in FileIds |->
                    IF t \in DOMAIN filesof /\ f \in filesof[t] THEN 1 ELSE 0]],
   tagAssoc  |-> [t \in TagIds |-> [u \in TagIds |-> [a \in AssocIds |->
                    IF <<t, u>> \in below THEN 1 ELSE 0]]]]

UserMade == 0 :> "me" @@ 4 :> "A" @@ 5 :> "B" @@ 6 :> "C" @@ 7 :> "D" @@ 8 :> "E"
SmallHome == 0 :> "me" @@ 4 :> "A" @@ 5 :> "B" @@ 7 :> "D" @@ 8 :> "E"
Imported == 0 :> "me" @@ 1 :> "A" @@ 2 :> "B" @@ 3 :> "C"

InHome == {<<4, 0>>, <<5, 0>>, <<6, 0>>}

Filled(a, b, c, d) == 4 :> a @@ 5 :> b @@ 6 :> c @@ 7 :> d @@ 8 :> {}
Unfilled           == Filled({}, {}, {}, {})

(* Files: pairs that are frequent and a triple that is; then one that is   *)
(* not, which takes counting to see.  Tags: D and E below the directories  *)
(* of the user, in a table of five and of four tags.  The last has items   *)
(* but no transactions.                                                    *)
MCStartDbs ==
  {MCDb(UserMade, Filled({0, 1, 2}, {0, 1, 2}, {0, 1}, {0}), {}),
   MCDb(UserMade, Filled({0, 1, 2}, {0, 1}, {1, 2}, {0, 2}), {}),
   MCDb(UserMade, Unfilled, InHome \cup {<<7, 4>>, <<7, 5>>, <<7, 6>>, <<8, 4>>, <<8, 5>>}),
   MCDb(SmallHome, Unfilled, {<<4, 0>>, <<5, 0>>, <<7, 4>>, <<8, 4>>, <<7, 5>>}),
   MCDb(Imported, Unfilled, {<<1, 0>>, <<2, 1>>, <<3, 1>>})}
=============================================================================
