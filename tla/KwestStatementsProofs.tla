------------------------- MODULE KwestStatementsProofs -------------------------
(***************************************************************************)
(* The calls of several threads, statement by statement, for any number of *)
(* threads, requests and names, and any tables main may leave: what the    *)
(* ids that a call has looked up are still worth when it uses them.        *)
(***************************************************************************)
EXTENDS KwestStatements, KwestTablesProofs, FiniteSetTheorems

FileCalls == {"tag_file", "untag_file"}

(* A call is at one of its own statements, names what it may name, and has *)
(* the ids it has looked up.                                               *)
CallFits(c) ==
  /\ c = [op |-> c.op, at |-> c.at, a |-> c.a, b |-> c.b, to |-> c.to, x |-> c.x, y |-> c.y]
  /\ \/ c = Idle
     \/ /\ c.op = "add_tag" /\ c.at \in {"new", "max", "insert"}
        /\ c.a \in TagNames /\ c.to \in TagNames
     \/ /\ c.op = "remove_tag" /\ c.at \in {"tag", "relations", "files", "row"}
        /\ c.a \in TagNames
        /\ IF c.at = "tag" THEN c.x = KW_FAIL ELSE c.x \in TagIds
     \/ /\ c.op \in FileCalls
        /\ c.at \in {"file", "tag"} \cup IF c.op = "tag_file" THEN {"rows", "insert"} ELSE {"delete"}
        /\ c.a \in TagNames /\ c.b \in FileNames /\ c.to \in TagNames \cup {NoRow}
        /\ IF c.at \in {"file", "tag"} THEN c.x = KW_FAIL ELSE c.x \in TagIds
        /\ c.at # "file" => c.y \in FileIds
     \/ /\ c.op = "add_association" /\ c.at \in {"tag", "other", "rows", "insert"}
        /\ c.a \in TagNames /\ c.b \in TagNames
        /\ IF c.at = "tag" THEN c.x = KW_FAIL ELSE c.x \in TagIds
        /\ IF c.at \in {"tag", "other"} THEN c.y = KW_FAIL ELSE c.y \in TagIds

(* What a call knows of the tables from its earlier statements, but for    *)
(* the ids in l: of which names the ids are that it has looked up, and     *)
(* what a removal has deleted.                                             *)
Holding(c) == c.op # "add_tag"
KnowsTag(d, l, c) == Holding(c) /\ c.x \in TagIds \ l => d.tags[c.x] = c.a
KnowsOther(d, l, c) ==
  c.op = "add_association" /\ c.y \in TagIds \ l => d.tags[c.y] = c.b
KnowsFile(d, c) ==
  c.op \in FileCalls /\ c.at # "file" => d.files[c.y] # NoRow /\ BaseName[d.files[c.y]] = c.b
Emptied(d, l, c) ==
  c.op = "remove_tag" /\ c.x \in TagIds \ l =>
    /\ c.at \in {"files", "row"} => NoRelationsOf(d, c.x)
    /\ c.at = "row" => NoFilesUnder(d, c.x)
Known(d, l, c) ==
  KnowsTag(d, l, c) /\ KnowsOther(d, l, c) /\ KnowsFile(d, c) /\ Emptied(d, l, c)

(* A statement of the call c takes the tables from d to e: it goes by the  *)
(* ids of the call.                                                        *)
Changes(d, e, c) ==
  /\ e \in Databases /\ e.files = d.files
  /\ \A t \in TagIds :
       \/ e.tags[t] = d.tags[t]
       \/ /\ c.op = "add_tag" /\ c.at = "insert"
          /\ t = c.x /\ d.tags[t] = NoRow /\ e.tags[t] = c.a
       \/ c.op = "remove_tag" /\ t = c.x /\ e.tags[t] = NoRow
  /\ \A t \in TagIds, f \in FileIds :
       \/ e.fileAssoc[t][f] = d.fileAssoc[t][f]
       \/ c.op = "remove_tag" /\ t = c.x /\ e.fileAssoc[t][f] = 0
       \/ c.op = "untag_file" /\ t = c.x /\ f = c.y /\ e.fileAssoc[t][f] = 0
       \/ /\ c.op = "tag_file" /\ c.at = "insert"
          /\ t = c.x /\ f = c.y /\ e.fileAssoc[t][f] = d.fileAssoc[t][f] + 1
  /\ \A t, u \in TagIds :
       \/ e.tagAssoc[t][u] = d.tagAssoc[t][u]
       \/ c.op = "add_association" /\ t = c.x /\ u = c.y
       \/ c.op = "remove_tag" /\ c.x \in {t, u} /\ \A i \in AssocIds : e.tagAssoc[t][u][i] = 0

(* The tables as a whole.                                                  *)
FilesThere(d) ==
  \A t \in TagIds, f \in FileIds : d.fileAssoc[t][f] > 0 => d.files[f] # NoRow
Dangling(d, t) == d.tags[t] = NoRow /\ ~(NoFilesUnder(d, t) /\ NoRelationsOf(d, t))
Tidy(d, l) ==
  /\ d \in Databases /\ OnlySubgroups(d) /\ FilesThere(d)
  /\ \A t \in TagIds \ l : ~Dangling(d, t)

-----------------------------------------------------------------------------
LEMMA NoId == KW_FAIL \notin TagIds
BY BoundAssumption DEF TagIds, KW_FAIL

LEMMA HeldAre ==
  ASSUME NEW c, CallFits(c)
  PROVE  /\ Held(c) \subseteq TagIds
         /\ Holding(c) /\ c.x \in TagIds => c.x \in Held(c)
         /\ c.op = "add_association" /\ c.y \in TagIds => c.y \in Held(c)
<1>1. CASE c = Idle
  BY <1>1, NoId DEF Idle, Held, Holding
<1>2. CASE c.op \in {"add_tag", "add_association"}
  BY <1>2, NoId DEF CallFits, Idle, Held, Holding, FileCalls
<1>3. CASE c.op \in {"remove_tag"} \cup FileCalls
  <2>1. Held(c) = {c.x} \ {KW_FAIL}
    BY <1>3 DEF Held, FileCalls
  <2>2. c.x = KW_FAIL \/ c.x \in TagIds
    BY <1>3 DEF CallFits, Idle, FileCalls
  <2>3. c.op # "add_association"
    BY <1>3 DEF FileCalls
  <2> QED BY <2>1, <2>2, <2>3, NoId
<1> QED BY <1>1, <1>2, <1>3 DEF CallFits

(* What a call knows it knows with more ids excepted, too.                 *)
LEMMA KnowsLess ==
  ASSUME NEW d, NEW l, NEW m, l \subseteq m, NEW c, Known(d, l, c)
  PROVE  Known(d, m, c)
BY DEF Known, KnowsTag, KnowsOther, KnowsFile, Emptied

(* And it knows it after a statement of another call, unless one of the    *)
(* two removes a tag whose id both hold.                                   *)
LEMMA OthersKnow ==
  ASSUME NEW d \in Databases, NEW e, NEW l, NEW c, NEW q, CallFits(c), CallFits(q),
         c.op = "remove_tag" \/ q.op = "remove_tag" => Held(c) \cap Held(q) \subseteq l,
         Changes(d, e, c), Known(d, l, q)
  PROVE  Known(e, l, q)
<1>1. /\ Holding(q) /\ q.x \in TagIds => q.x \in Held(q)
      /\ q.op = "add_association" /\ q.y \in TagIds => q.y \in Held(q)
      /\ Holding(c) /\ c.x \in TagIds => c.x \in Held(c)
      /\ c.op = "add_association" /\ c.y \in TagIds => c.y \in Held(c)
  BY HeldAre
<1>2. c.op \in FileCalls \cup {"remove_tag", "add_association"} => Holding(c)
  BY DEF Holding, FileCalls
<1>3. q.op = "remove_tag" => Holding(q)
  BY DEF Holding
<1>4. (Holding(q) => q.a # NoRow) \/ q = Idle
  BY NoRowAssumption DEF CallFits, Holding, FileCalls
<1>5. q = Idle => q.x \notin TagIds /\ q.op # "add_association" /\ q.op \notin FileCalls
  BY NoId DEF Idle, FileCalls
<1>6. KnowsTag(e, l, q)
  <2>1. SUFFICES ASSUME Holding(q), q.x \in TagIds \ l PROVE e.tags[q.x] = q.a
    BY DEF KnowsTag
  <2>2. d.tags[q.x] = q.a /\ q.a # NoRow
    BY <2>1, <1>4, <1>5 DEF Known, KnowsTag
  <2>3. ~(c.op = "remove_tag" /\ q.x = c.x)
    BY <1>1, <1>2, <2>1
  <2> QED BY <2>1, <2>2, <2>3 DEF Changes
<1>7. KnowsOther(e, l, q)
  <2>1. SUFFICES ASSUME q.op = "add_association", q.y \in TagIds \ l PROVE e.tags[q.y] = q.b
    BY DEF KnowsOther
  <2>2. d.tags[q.y] = q.b /\ q.b # NoRow
    <3>1. q.b \in TagNames
      BY <2>1 DEF CallFits, Idle, FileCalls
    <3> QED BY <2>1, <3>1, NoRowAssumption DEF Known, KnowsOther
  <2>3. ~(c.op = "remove_tag" /\ q.y = c.x)
    BY <1>1, <1>2, <2>1
  <2> QED BY <2>1, <2>2, <2>3 DEF Changes
<1>8. KnowsFile(e, q)
  BY DEF Known, KnowsFile, Changes
<1>9. Emptied(e, l, q)
  <2>1. SUFFICES ASSUME q.op = "remove_tag", q.x \in TagIds \ l
                 PROVE  /\ q.at \in {"files", "row"} => NoRelationsOf(e, q.x)
                        /\ q.at = "row" => NoFilesUnder(e, q.x)
    BY DEF Emptied
  <2>2. q.x \notin Held(c)
    BY <1>1, <1>3, <2>1
  <2>3. ASSUME NEW u \in TagIds, NEW i \in AssocIds, NoRelationsOf(d, q.x)
        PROVE  e.tagAssoc[q.x][u][i] = 0 /\ e.tagAssoc[u][q.x][i] = 0
    <3>1. ~(c.op = "add_association" /\ (q.x = c.x \/ q.x = c.y))
      BY <1>1, <1>2, <2>1, <2>2
    <3> QED BY <2>1, <2>3, <3>1 DEF Changes, NoRelationsOf
  <2>4. ASSUME NEW f \in FileIds, NoFilesUnder(d, q.x)
        PROVE  e.fileAssoc[q.x][f] = 0
    <3>1. ~(c.op \in FileCalls /\ q.x = c.x)
      BY <1>1, <1>2, <2>1, <2>2
    <3>2. c.op \notin FileCalls \/ q.x # c.x
      BY <3>1
    <3>3. d.fileAssoc[q.x][f] = 0
      BY <2>4 DEF NoFilesUnder
    <3> QED BY <2>1, <3>2, <3>3 DEF Changes, FileCalls
  <2> QED BY <2>1, <2>3, <2>4 DEF Known, Emptied, NoRelationsOf, NoFilesUnder
<1> QED BY <1>6, <1>7, <1>8, <1>9 DEF Known

-----------------------------------------------------------------------------
(* The inductive invariant: each call is at one of its statements and what *)
(* it has found out still holds, but for the ids in loose.                 *)
StInv ==
  /\ Tidy(db, loose) /\ loose \subseteq TagIds
  /\ calls = [p \in Threads |-> calls[p]]
  /\ \A p \in Threads : CallFits(calls[p]) /\ Known(db, loose, calls[p])
  /\ Met(calls) \subseteq loose

(* A call is past a check: it has found the name free or the row missing,  *)
(* and has not inserted one yet.                                           *)
IsPast(c, n) == c.op = "add_tag" /\ c.a = n /\ c.at \in {"max", "insert"}
IsAdding(c, t, f) == c.op = "tag_file" /\ c.at = "insert" /\ c.x = t /\ c.y = f

(* The call c becomes n.                                                   *)
Checks(d, c, n) ==
  /\ \A m \in TagNames : IsPast(n, m) =>
       \/ c.at = "max" /\ IsPast(c, m)
       \/ c.at = "new" /\ TagsNamed(d, m) = {}
  /\ \A t \in TagIds, f \in FileIds : IsAdding(n, t, f) => c.at = "rows" /\ d.fileAssoc[t][f] = 0

(* A statement that takes a call where it may be, and only its own rows    *)
(* with it.                                                                *)
Moves(p, c) ==
  /\ Goes(p, c) /\ CallFits(c) /\ Known(db', loose', c) /\ Checks(db, calls[p], c)
  /\ Changes(db, db', calls[p]) /\ Tidy(db', loose')
Advances(p) == \E c : Moves(p, c)

LEMMA MetAre ==
  ASSUME NEW cs
  PROVE  /\ Met(cs) \subseteq TagIds
         /\ \A p, q \in Threads :
              p # q /\ (cs[p].op = "remove_tag" \/ cs[q].op = "remove_tag")
              => Held(cs[p]) \cap Held(cs[q]) \cap TagIds \subseteq Met(cs)
BY DEF Met

LEMMA GoesOn ==
  ASSUME StInv, NEW p \in Threads, NEW c, Goes(p, c)
  PROVE  /\ calls' = [q \in Threads |-> IF q = p THEN c ELSE calls[q]]
         /\ calls'[p] = c
         /\ loose \subseteq loose' /\ loose' \subseteq TagIds /\ Met(calls') \subseteq loose'
<1>1. /\ calls' = [q \in Threads |-> IF q = p THEN c ELSE calls[q]]
      /\ loose' = loose \cup Met(calls') \cup Torn(p)
  BY DEF Goes, StInv
<1>2. calls'[p] = c
  BY <1>1
<1>3. Torn(p) \subseteq TagIds
  <2>1. calls[p].at \in {"relations", "files"} => calls[p].x \in TagIds
    BY DEF StInv, CallFits, Idle, FileCalls
  <2> QED BY <2>1 DEF Torn
<1>4. Met(calls') \subseteq TagIds
  BY MetAre
<1> QED BY <1>1, <1>2, <1>3, <1>4 DEF StInv

LEMMA MovesKeepInv ==
  ASSUME StInv, NEW p \in Threads, Advances(p)
  PROVE  StInv'
<1>1. PICK c : Moves(p, c)
  BY DEF Advances
<1>2. /\ calls' = [q \in Threads |-> IF q = p THEN c ELSE calls[q]]
      /\ loose \subseteq loose' /\ loose' \subseteq TagIds /\ Met(calls') \subseteq loose'
  BY <1>1, GoesOn DEF Moves
<1>3. calls' = [q \in Threads |-> calls'[q]]
  BY <1>2
<1>4. CallFits(calls'[p]) /\ Known(db', loose', calls'[p])
  BY <1>1, <1>2 DEF Moves
<1>5. ASSUME NEW q \in Threads, q # p
      PROVE  CallFits(calls'[q]) /\ Known(db', loose', calls'[q])
  <2>1. calls'[q] = calls[q] /\ CallFits(calls[q]) /\ CallFits(calls[p]) /\ Known(db, loose, calls[q])
    BY <1>2, <1>5 DEF StInv
  <2>2. Changes(db, db', calls[p]) /\ db \in Databases
    BY <1>1 DEF Moves, StInv, Tidy
  <2>3. calls[p].op = "remove_tag" \/ calls[q].op = "remove_tag"
          => Held(calls[p]) \cap Held(calls[q]) \subseteq loose
    <3>1. Held(calls[p]) \subseteq TagIds
      BY <2>1, HeldAre
    <3>2. Met(calls) \subseteq loose
      BY DEF StInv
    <3> QED BY <1>5, <3>1, <3>2, MetAre
  <2>4. Known(db', loose, calls[q])
    BY <2>1, <2>2, <2>3, OthersKnow
  <2> QED BY <1>2, <2>1, <2>4, KnowsLess
<1>6. Tidy(db', loose')
  BY <1>1 DEF Moves
<1> QED BY <1>2, <1>3, <1>4, <1>5, <1>6 DEF StInv

-----------------------------------------------------------------------------
(* get_tag_id and get_file_id answer a row of the name, or that there is   *)
(* none, whatever the tables.                                              *)
LEMMA SomeTagFound ==
  ASSUME NEW d, NEW n
  PROVE  LET t == get_tag_id(d, n) IN
         \/ t = KW_FAIL /\ \A u \in TagIds : d.tags[u] # n
         \/ t \in TagIds /\ d.tags[t] = n
<1>1. CASE TagsNamed(d, n) = {}
  BY <1>1 DEF get_tag_id, TagsNamed
<1>2. CASE TagsNamed(d, n) # {}
  <2>1. TagsNamed(d, n) \subseteq Nat
    BY BoundAssumption DEF TagsNamed, TagIds
  <2>2. \E t \in TagsNamed(d, n) : \A u \in TagsNamed(d, n) : t <= u
    BY <1>2, <2>1, MinExists
  <2>3. FirstRow(TagsNamed(d, n)) \in TagsNamed(d, n)
    BY <2>2 DEF FirstRow
  <2> QED BY <1>2, <2>3 DEF get_tag_id, TagsNamed
<1> QED BY <1>1, <1>2

LEMMA SomeFileFound ==
  ASSUME NEW d, NEW n
  PROVE  LET f == get_file_id(d, n) IN
         f = KW_FAIL \/ (f \in FileIds /\ d.files[f] # NoRow /\ BaseName[d.files[f]] = n)
<1>1. CASE FilesNamed(d, n) = {}
  BY <1>1 DEF get_file_id
<1>2. CASE FilesNamed(d, n) # {}
  <2>1. FilesNamed(d, n) \subseteq Nat
    BY BoundAssumption DEF FilesNamed, FileIds
  <2>2. \E f \in FilesNamed(d, n) : \A g \in FilesNamed(d, n) : f <= g
    BY <1>2, <2>1, MinExists
  <2>3. FirstRow(FilesNamed(d, n)) \in FilesNamed(d, n)
    BY <2>2 DEF FirstRow
  <2> QED BY <1>2, <2>3 DEF get_file_id, FilesNamed
<1> QED BY <1>1, <1>2

(* A call that has looked up nothing yet knows nothing.                    *)
Fresh(c) ==
  /\ c.x = KW_FAIL /\ c.y = KW_FAIL
  /\ c.op \in FileCalls => c.at = "file"
  /\ c.op = "add_tag" => c.at = "new"

LEMMA FreshKnows ==
  ASSUME NEW c, Fresh(c), NEW d, NEW l
  PROVE  Known(d, l, c)
BY NoId DEF Fresh, Known, KnowsTag, KnowsOther, KnowsFile, Emptied

LEMMA FreshChecks ==
  ASSUME NEW n, Fresh(n), NEW d, NEW c
  PROVE  Checks(d, c, n)
BY DEF Fresh, Checks, IsPast, IsAdding, FileCalls

LEMMA IdleFits == CallFits(Idle) /\ Fresh(Idle)
BY DEF CallFits, Idle, Fresh, FileCalls

LEMMA AfterFits ==
  ASSUME NEW c, CallFits(c)
  PROVE  CallFits(AfterCall(c)) /\ Fresh(AfterCall(c))
<1>1. CASE c.op = "add_tag"
  <2>1. AfterCall(c) = Call("add_association", "tag", c.a, c.to, NoRow)
    BY <1>1 DEF AfterCall
  <2>2. c.a \in TagNames /\ c.to \in TagNames
    BY <1>1 DEF CallFits, Idle, FileCalls
  <2> QED BY <2>1, <2>2 DEF Call, CallFits, Fresh, FileCalls
<1>2. CASE c.op = "untag_file" /\ c.to # NoRow
  <2>1. AfterCall(c) = Call("tag_file", "file", c.to, c.b, NoRow)
    BY <1>2 DEF AfterCall
  <2>2. c.b \in FileNames /\ c.to \in TagNames
    BY <1>2 DEF CallFits, Idle, FileCalls
  <2> QED BY <2>1, <2>2 DEF Call, CallFits, Fresh, FileCalls
<1>3. CASE c.op # "add_tag" /\ ~(c.op = "untag_file" /\ c.to # NoRow)
  <2>1. AfterCall(c) = Idle
    BY <1>3 DEF AfterCall
  <2> QED BY <2>1, IdleFits
<1> QED BY <1>1, <1>2, <1>3

LEMMA RequestsFit ==
  ASSUME NEW c \in Requests
  PROVE  CallFits(c) /\ Fresh(c)
<1>1. \/ \E n, m \in TagNames : c = make_directory(n, m)
      \/ \E n \in TagNames : c = remove_directory(n)
      \/ \E n \in TagNames, f \in FileNames : c = remove_this_file(n, f)
      \/ \E m, n \in TagNames, f \in FileNames : c = rename_this_file(m, n, f)
      \/ \E n \in TagNames, f \in FileNames : c = copy_this_file(n, f)
  BY DEF Requests
<1> QED
  BY <1>1 DEF make_directory, remove_directory, remove_this_file, rename_this_file,
              copy_this_file, Call, CallFits, Fresh, FileCalls

(* A statement that only reads.                                            *)
LEMMA ReadMoves ==
  ASSUME StInv, NEW p \in Threads, Reads, NEW c, Goes(p, c), CallFits(c), Known(db, loose', c),
         Checks(db, calls[p], c)
  PROVE  Moves(p, c)
<1>1. db' = db /\ loose \subseteq loose'
  BY GoesOn DEF Reads
<1>2. Changes(db, db', calls[p])
  BY <1>1 DEF Changes, StInv, Tidy
<1>3. Tidy(db', loose')
  BY <1>1 DEF StInv, Tidy
<1> QED BY <1>1, <1>2, <1>3 DEF Moves

(* A call that ends.                                                       *)
LEMMA ReadEnds ==
  ASSUME StInv, NEW p \in Threads, Reads, Goes(p, Idle)
  PROVE  Moves(p, Idle)
BY ReadMoves, IdleFits, FreshKnows, FreshChecks

(* The record a call becomes that takes an id, or goes on with those it has. *)
LEMMA CallTakesX ==
  ASSUME NEW c, CallFits(c), NEW at, NEW id
  PROVE  [c EXCEPT !.x = id, !.at = at]
           = [op |-> c.op, at |-> at, a |-> c.a, b |-> c.b, to |-> c.to, x |-> id, y |-> c.y]
<1>1. PICK o, s, a, b, k, x, y :
        c = [op |-> o, at |-> s, a |-> a, b |-> b, to |-> k, x |-> x, y |-> y]
  BY DEF CallFits
<1> DEFINE d == [c EXCEPT !.x = id]
<1>2. d = [op |-> o, at |-> s, a |-> a, b |-> b, to |-> k, x |-> id, y |-> y]
  BY <1>1
<1>3. [c EXCEPT !.x = id, !.at = at] = [d EXCEPT !.at = at]
  OBVIOUS
<1> HIDE DEF d
<1>4. [d EXCEPT !.at = at]
        = [op |-> o, at |-> at, a |-> a, b |-> b, to |-> k, x |-> id, y |-> y]
  BY <1>2
<1>5. c.op = o /\ c.a = a /\ c.b = b /\ c.to = k /\ c.x = x /\ c.y = y
  BY <1>1
<1> QED BY <1>3, <1>4, <1>5

LEMMA CallTakesY ==
  ASSUME NEW c, CallFits(c), NEW at, NEW id
  PROVE  [c EXCEPT !.y = id, !.at = at]
           = [op |-> c.op, at |-> at, a |-> c.a, b |-> c.b, to |-> c.to, x |-> c.x, y |-> id]
<1>1. PICK o, s, a, b, k, x, y :
        c = [op |-> o, at |-> s, a |-> a, b |-> b, to |-> k, x |-> x, y |-> y]
  BY DEF CallFits
<1> DEFINE d == [c EXCEPT !.y = id]
<1>2. d = [op |-> o, at |-> s, a |-> a, b |-> b, to |-> k, x |-> x, y |-> id]
  BY <1>1
<1>3. [c EXCEPT !.y = id, !.at = at] = [d EXCEPT !.at = at]
  OBVIOUS
<1> HIDE DEF d
<1>4. [d EXCEPT !.at = at]
        = [op |-> o, at |-> at, a |-> a, b |-> b, to |-> k, x |-> x, y |-> id]
  BY <1>2
<1>5. c.op = o /\ c.a = a /\ c.b = b /\ c.to = k /\ c.x = x /\ c.y = y
  BY <1>1
<1> QED BY <1>3, <1>4, <1>5

LEMMA CallGoesOn ==
  ASSUME NEW c, CallFits(c), NEW at
  PROVE  [c EXCEPT !.at = at]
           = [op |-> c.op, at |-> at, a |-> c.a, b |-> c.b, to |-> c.to, x |-> c.x, y |-> c.y]
<1>1. PICK o, s, a, b, k, x, y :
        c = [op |-> o, at |-> s, a |-> a, b |-> b, to |-> k, x |-> x, y |-> y]
  BY DEF CallFits
<1>2. [c EXCEPT !.at = at]
        = [op |-> o, at |-> at, a |-> a, b |-> b, to |-> k, x |-> x, y |-> y]
  BY <1>1
<1>3. c.op = o /\ c.a = a /\ c.b = b /\ c.to = k /\ c.x = x /\ c.y = y
  BY <1>1
<1> QED BY <1>2, <1>3

-----------------------------------------------------------------------------
(* The statements that read.                                               *)
LEMMA NewNameMoves ==
  ASSUME StInv, NEW p \in Threads, NewName(p)
  PROVE  Advances(p)
<1> DEFINE c == calls[p]
           n == [c EXCEPT !.at = "max"]
<1>1. CallFits(c) /\ Known(db, loose, c) /\ c.at = "new" /\ Reads
  BY DEF StInv, NewName, At
<1>2. n = [op |-> c.op, at |-> "max", a |-> c.a, b |-> c.b, to |-> c.to, x |-> c.x, y |-> c.y]
  BY <1>1, CallGoesOn
<1>3. Goes(p, Idle) \/ (Goes(p, n) /\ get_tag_id(db, c.a) = KW_FAIL)
  BY DEF NewName
<1>4. c.op = "add_tag" /\ c.a \in TagNames /\ c.to \in TagNames
  BY <1>1 DEF CallFits, Idle, FileCalls
<1> HIDE DEF n, c
<1>5. CallFits(n)
  BY <1>2, <1>4 DEF CallFits
<1>6. Known(db, loose', n)
  BY <1>2, <1>4 DEF Known, KnowsTag, KnowsOther, KnowsFile, Emptied, Holding, FileCalls
<1>7. get_tag_id(db, c.a) = KW_FAIL => Checks(db, c, n)
  <2>1. get_tag_id(db, c.a) = KW_FAIL => \A t \in TagIds : db.tags[t] # c.a
    BY SomeTagFound, NoId
  <2> QED BY <1>1, <1>2, <1>4, <2>1 DEF Checks, IsPast, IsAdding, TagsNamed
<1> QED BY <1>1, <1>3, <1>5, <1>6, <1>7, ReadMoves, ReadEnds DEF Advances, c

LEMMA LastIdMoves ==
  ASSUME StInv, NEW p \in Threads, LastId(p)
  PROVE  Advances(p)
<1> DEFINE c == calls[p]
<1>1. CallFits(c) /\ c.at = "max" /\ Reads
  BY DEF StInv, LastId, At
<1>2. PICK id : Goes(p, [c EXCEPT !.x = id, !.at = "insert"])
  BY DEF LastId
<1> DEFINE n == [c EXCEPT !.x = id, !.at = "insert"]
<1>3. n = [op |-> c.op, at |-> "insert", a |-> c.a, b |-> c.b, to |-> c.to, x |-> id, y |-> c.y]
  BY <1>1, CallTakesX
<1>4. c.op = "add_tag" /\ c.a \in TagNames /\ c.to \in TagNames
  BY <1>1 DEF CallFits, Idle, FileCalls
<1> HIDE DEF n, c
<1>5. CallFits(n)
  BY <1>3, <1>4 DEF CallFits
<1>6. Known(db, loose', n)
  BY <1>3, <1>4 DEF Known, KnowsTag, KnowsOther, KnowsFile, Emptied, Holding, FileCalls
<1>7. Goes(p, n)
  BY <1>2 DEF n, c
<1>8. Checks(db, c, n)
  BY <1>1, <1>3, <1>4 DEF Checks, IsPast, IsAdding
<1> QED BY <1>1, <1>5, <1>6, <1>7, <1>8, ReadMoves DEF Advances, c

LEMMA FindFileMoves ==
  ASSUME StInv, NEW p \in Threads, FindFile(p)
  PROVE  Advances(p)
<1> DEFINE c  == calls[p]
           id == get_file_id(db, c.b)
           n  == [c EXCEPT !.y = id, !.at = "tag"]
<1>1. CallFits(c) /\ c.at = "file" /\ Reads /\ Found(p, id, n)
  BY DEF StInv, FindFile, At
<1>2. n = [op |-> c.op, at |-> "tag", a |-> c.a, b |-> c.b, to |-> c.to, x |-> c.x, y |-> id]
  BY <1>1, CallTakesY
<1>3. /\ c.op \in FileCalls /\ c.x = KW_FAIL
      /\ c.a \in TagNames /\ c.b \in FileNames /\ c.to \in TagNames \cup {NoRow}
  BY <1>1 DEF CallFits, Idle, FileCalls
<1>4. id = KW_FAIL \/ (id \in FileIds /\ db.files[id] # NoRow /\ BaseName[db.files[id]] = c.b)
  BY SomeFileFound
<1>5. Goes(p, IF id = KW_FAIL THEN Idle ELSE n)
  BY <1>1 DEF Found
<1> HIDE DEF n, c, id
<1>6. CASE id = KW_FAIL
  BY <1>1, <1>5, <1>6, ReadEnds DEF Advances
<1>7. CASE id # KW_FAIL
  <2>1. CallFits(n)
    BY <1>2, <1>3, <1>4, <1>7 DEF CallFits, FileCalls
  <2>2. Known(db, loose', n)
    <3>1. n.x \notin TagIds /\ n.op \in FileCalls
      BY <1>2, <1>3, NoId
    <3>2. KnowsFile(db, n)
      BY <1>2, <1>4, <1>7 DEF KnowsFile
    <3> QED BY <3>1, <3>2 DEF Known, KnowsTag, KnowsOther, Emptied, FileCalls
  <2>3. Checks(db, c, n)
    BY <1>2, <1>3 DEF Checks, IsPast, IsAdding, FileCalls
  <2> QED BY <1>1, <1>5, <1>7, <2>1, <2>2, <2>3, ReadMoves DEF Advances, c
<1> QED BY <1>6, <1>7

LEMMA FindTagMoves ==
  ASSUME StInv, NEW p \in Threads, FindTag(p)
  PROVE  Advances(p)
<1> DEFINE c  == calls[p]
           id == get_tag_id(db, c.a)
           at == CASE c.op = "remove_tag" -> "relations"
                   [] c.op = "tag_file"   -> "rows"
                   [] c.op = "untag_file" -> "delete"
                   [] OTHER               -> "other"
           n  == [c EXCEPT !.x = id, !.at = at]
<1>1. CallFits(c) /\ Known(db, loose, c) /\ c.at = "tag" /\ Reads /\ Found(p, id, n)
  BY DEF StInv, FindTag, At
<1>2. n = [op |-> c.op, at |-> at, a |-> c.a, b |-> c.b, to |-> c.to, x |-> id, y |-> c.y]
  BY <1>1, CallTakesX
<1>3. /\ c.op = "remove_tag" => at = "relations"
      /\ c.op = "tag_file" => at = "rows"
      /\ c.op = "untag_file" => at = "delete"
      /\ c.op = "add_association" => at = "other"
  OBVIOUS
<1>4. \/ c.op = "remove_tag" /\ c.a \in TagNames
      \/ /\ c.op \in FileCalls /\ c.y \in FileIds
         /\ c.a \in TagNames /\ c.b \in FileNames /\ c.to \in TagNames \cup {NoRow}
      \/ /\ c.op = "add_association" /\ c.y = KW_FAIL /\ c.a \in TagNames /\ c.b \in TagNames
  BY <1>1 DEF CallFits, Idle, FileCalls
<1>5. id = KW_FAIL \/ (id \in TagIds /\ db.tags[id] = c.a)
  BY SomeTagFound
<1>6. Goes(p, IF id = KW_FAIL THEN Idle ELSE n)
  BY <1>1 DEF Found
<1> HIDE DEF n, c, id, at
<1>7. CASE id = KW_FAIL
  BY <1>1, <1>6, <1>7, ReadEnds DEF Advances
<1>8. CASE id # KW_FAIL
  <2>1. CallFits(n)
    BY <1>2, <1>3, <1>4, <1>5, <1>8 DEF CallFits, FileCalls
  <2>2. Known(db, loose', n)
    <3>1. KnowsTag(db, loose', n)
      BY <1>2, <1>5, <1>8 DEF KnowsTag
    <3>2. KnowsOther(db, loose', n)
      BY <1>2, <1>4, NoId DEF KnowsOther, FileCalls
    <3>3. KnowsFile(db, n)
      BY <1>1, <1>2 DEF KnowsFile, Known
    <3>4. Emptied(db, loose', n)
      BY <1>2, <1>3 DEF Emptied
    <3> QED BY <3>1, <3>2, <3>3, <3>4 DEF Known
  <2>3. Checks(db, c, n)
    BY <1>2, <1>3, <1>4 DEF Checks, IsPast, IsAdding, FileCalls
  <2> QED BY <1>1, <1>6, <1>8, <2>1, <2>2, <2>3, ReadMoves DEF Advances, c
<1> QED BY <1>7, <1>8

LEMMA FindOtherMoves ==
  ASSUME StInv, NEW p \in Threads, FindOther(p)
  PROVE  Advances(p)
<1> DEFINE c  == calls[p]
           id == get_tag_id(db, c.b)
           n  == [c EXCEPT !.y = id, !.at = "rows"]
<1>1. CallFits(c) /\ Known(db, loose, c) /\ c.at = "other" /\ Reads /\ Found(p, id, n)
  BY DEF StInv, FindOther, At
<1>2. n = [op |-> c.op, at |-> "rows", a |-> c.a, b |-> c.b, to |-> c.to, x |-> c.x, y |-> id]
  BY <1>1, CallTakesY
<1>3. c.op = "add_association" /\ c.a \in TagNames /\ c.b \in TagNames /\ c.x \in TagIds
  BY <1>1 DEF CallFits, Idle, FileCalls
<1>4. id = KW_FAIL \/ (id \in TagIds /\ db.tags[id] = c.b)
  BY SomeTagFound
<1>5. Goes(p, IF id = KW_FAIL THEN Idle ELSE n)
  BY <1>1 DEF Found
<1>6. loose \subseteq loose'
  BY <1>5, GoesOn
<1> HIDE DEF n, c, id
<1>7. CASE id = KW_FAIL
  BY <1>1, <1>5, <1>7, ReadEnds DEF Advances
<1>8. CASE id # KW_FAIL
  <2>1. CallFits(n)
    BY <1>2, <1>3, <1>4, <1>8 DEF CallFits, FileCalls
  <2>2. Known(db, loose', n)
    <3>1. KnowsTag(db, loose', n)
      BY <1>1, <1>2, <1>6 DEF Known, KnowsTag, Holding
    <3>2. KnowsOther(db, loose', n)
      BY <1>2, <1>4, <1>8 DEF KnowsOther
    <3> QED BY <1>2, <1>3, <3>1, <3>2 DEF Known, KnowsFile, Emptied, FileCalls
  <2>3. Checks(db, c, n)
    BY <1>2, <1>3 DEF Checks, IsPast, IsAdding, FileCalls
  <2> QED BY <1>1, <1>5, <1>8, <2>1, <2>2, <2>3, ReadMoves DEF Advances, c
<1> QED BY <1>7, <1>8

LEMMA CheckMoves ==
  ASSUME StInv, NEW p \in Threads, Check(p)
  PROVE  Advances(p)
<1> DEFINE c == calls[p]
           n == [c EXCEPT !.at = "insert"]
<1>1. CallFits(c) /\ Known(db, loose, c) /\ c.at = "rows" /\ Reads
  BY DEF StInv, Check, At
<1>2. n = [op |-> c.op, at |-> "insert", a |-> c.a, b |-> c.b, to |-> c.to, x |-> c.x, y |-> c.y]
  BY <1>1, CallGoesOn
<1>3. \/ Goes(p, Idle)
      \/ Goes(p, n) /\ (c.op = "tag_file" => ~(db.fileAssoc[c.x][c.y] > 0))
  BY DEF Check
<1>4. \/ /\ c.op = "tag_file" /\ c.x \in TagIds /\ c.y \in FileIds
         /\ c.a \in TagNames /\ c.b \in FileNames /\ c.to \in TagNames \cup {NoRow}
      \/ /\ c.op = "add_association" /\ c.x \in TagIds /\ c.y \in TagIds
         /\ c.a \in TagNames /\ c.b \in TagNames
  BY <1>1 DEF CallFits, Idle, FileCalls
<1>5. Goes(p, n) => loose \subseteq loose'
  BY GoesOn
<1> HIDE DEF n, c
<1>6. CallFits(n)
  BY <1>2, <1>4 DEF CallFits, FileCalls
<1>7. Goes(p, n) => Known(db, loose', n)
  BY <1>1, <1>2, <1>4, <1>5
  DEF Known, KnowsTag, KnowsOther, KnowsFile, Emptied, Holding, FileCalls
<1>8. ASSUME c.op = "tag_file" => ~(db.fileAssoc[c.x][c.y] > 0)
      PROVE  Checks(db, c, n)
  <2>1. c.op = "tag_file" => db.fileAssoc[c.x][c.y] \in Nat
    BY <1>4 DEF StInv, Tidy, Databases, FileAssociationTable
  <2> QED BY <1>1, <1>2, <1>4, <1>8, <2>1 DEF Checks, IsPast, IsAdding
<1> QED BY <1>1, <1>3, <1>6, <1>7, <1>8, ReadMoves, ReadEnds DEF Advances, c

-----------------------------------------------------------------------------
(* The statements that write.                                              *)

(* A table of rows or of relations written as a whole.                     *)
LEMMA SetRows ==
  ASSUME NEW d \in Databases, NEW table \in FileAssociationTable
  PROVE  LET e == [d EXCEPT !.fileAssoc = table] IN
         /\ e \in Databases /\ e.fileAssoc = table
         /\ e.tags = d.tags /\ e.files = d.files /\ e.tagAssoc = d.tagAssoc
  BY DEF Databases

LEMMA SetRelations ==
  ASSUME NEW d \in Databases, NEW table \in TagAssociationTable
  PROVE  LET e == [d EXCEPT !.tagAssoc = table] IN
         /\ e \in Databases /\ e.tagAssoc = table
         /\ e.tags = d.tags /\ e.files = d.files /\ e.fileAssoc = d.fileAssoc
  BY DEF Databases

(* A write of the call c leaves tables in order and keeps to its ids.      *)
Keeps(d, e, l, c) == Changes(d, e, c) /\ Tidy(e, l)

LEMMA WritesNothing ==
  ASSUME NEW d, NEW l, Tidy(d, l), NEW c
  PROVE  Keeps(d, d, l, c)
BY DEF Keeps, Changes, Tidy

LEMMA InsertKeeps ==
  ASSUME NEW d, NEW l, Tidy(d, l), NEW c, CallFits(c), c.at = "insert", Known(d, l, c),
         NEW e,
         \/ /\ c.op = "add_tag" /\ Insertable(d.tags, c.x) /\ e = [d EXCEPT !.tags[c.x] = c.a]
         \/ /\ c.op = "tag_file"
            /\ e = [d EXCEPT !.fileAssoc[c.x][c.y] = d.fileAssoc[c.x][c.y] + 1]
         \/ /\ c.op = "add_association"
            /\ e = WithRelation(d, c.x, c.y, ASSOC_SUBGROUP,
                                d.tagAssoc[c.x][c.y][ASSOC_SUBGROUP] + 1)
  PROVE  Keeps(d, e, l, c)
<1>1. d \in Databases
  BY DEF Tidy
<1>2. CASE c.op = "add_tag" /\ Insertable(d.tags, c.x) /\ e = [d EXCEPT !.tags[c.x] = c.a]
  <2>1. c.x \in TagIds /\ d.tags[c.x] = NoRow /\ c.a \in TagNames
    BY <1>1, <1>2 DEF Insertable, Databases, TagTable, CallFits, Idle, FileCalls
  <2>2. /\ e \in Databases
        /\ e.files = d.files /\ e.fileAssoc = d.fileAssoc /\ e.tagAssoc = d.tagAssoc
        /\ \A u \in TagIds : e.tags[u] = IF u = c.x THEN c.a ELSE d.tags[u]
    BY <1>1, <1>2, <2>1, SetTag
  <2>3. Changes(d, e, c)
    BY <1>2, <2>1, <2>2 DEF Changes
  <2>4. Tidy(e, l)
    BY <2>1, <2>2, NoRowAssumption
    DEF Tidy, OnlySubgroups, FilesThere, Dangling, NoFilesUnder, NoRelationsOf
  <2> QED BY <2>3, <2>4 DEF Keeps
<1>3. CASE /\ c.op = "tag_file"
           /\ e = [d EXCEPT !.fileAssoc[c.x][c.y] = d.fileAssoc[c.x][c.y] + 1]
  <2> DEFINE k == d.fileAssoc[c.x][c.y] + 1
  <2>1. c.x \in TagIds /\ c.y \in FileIds /\ c.a \in TagNames
    BY <1>3 DEF CallFits, Idle, FileCalls
  <2>2. k \in Nat
    BY <1>1, <2>1 DEF Databases, FileAssociationTable
  <2>0. e = [d EXCEPT !.fileAssoc[c.x][c.y] = k]
    BY <1>3
  <2> HIDE DEF k
  <2>3. /\ e \in Databases
        /\ e.tags = d.tags /\ e.files = d.files /\ e.tagAssoc = d.tagAssoc
        /\ \A u \in TagIds, g \in FileIds :
             e.fileAssoc[u][g] = IF u = c.x /\ g = c.y THEN k ELSE d.fileAssoc[u][g]
    BY <1>1, <2>0, <2>1, <2>2, SetRow
  <2>8. k = d.fileAssoc[c.x][c.y] + 1
    BY DEF k
  <2>4. Changes(d, e, c)
    BY <1>3, <2>3, <2>8 DEF Changes
  <2>5. d.files[c.y] # NoRow
    BY <1>3 DEF Known, KnowsFile, FileCalls
  <2>6. c.x \notin l => d.tags[c.x] # NoRow
    BY <1>3, <2>1, NoRowAssumption DEF Known, KnowsTag, Holding
  <2>7. Tidy(e, l)
    <3>1. OnlySubgroups(e) /\ FilesThere(e)
      BY <2>3, <2>5 DEF Tidy, OnlySubgroups, FilesThere
    <3>2. \A t \in TagIds \ l : ~Dangling(e, t)
      BY <2>3, <2>6 DEF Tidy, Dangling, NoFilesUnder, NoRelationsOf
    <3> QED BY <2>3, <3>1, <3>2 DEF Tidy
  <2> QED BY <2>4, <2>7 DEF Keeps
<1>4. CASE /\ c.op = "add_association"
           /\ e = WithRelation(d, c.x, c.y, ASSOC_SUBGROUP,
                               d.tagAssoc[c.x][c.y][ASSOC_SUBGROUP] + 1)
  <2> DEFINE k == d.tagAssoc[c.x][c.y][ASSOC_SUBGROUP] + 1
  <2>1. /\ c.x \in TagIds /\ c.y \in TagIds /\ c.a \in TagNames /\ c.b \in TagNames
        /\ ASSOC_SUBGROUP \in AssocIds
    BY <1>4, ThreadsAssumption DEF CallFits, Idle, FileCalls
  <2>2. k \in Nat
    BY <1>1, <2>1 DEF Databases, TagAssociationTable
  <2>3. OnlyRelation(d, e, c.x, c.y, ASSOC_SUBGROUP, k)
    BY <1>1, <1>4, <2>1, <2>2, SetRelation
  <2> HIDE DEF k
  <2>4. Changes(d, e, c)
    <3>1. \A v, w \in TagIds : v # c.x \/ w # c.y => e.tagAssoc[v][w] = d.tagAssoc[v][w]
      BY <2>3 DEF OnlyRelation
    <3>2. e \in Databases /\ e.tags = d.tags /\ e.files = d.files /\ e.fileAssoc = d.fileAssoc
      BY <2>3 DEF OnlyRelation
    <3> QED BY <1>4, <3>1, <3>2 DEF Changes
  <2>5. /\ c.x \notin l => d.tags[c.x] # NoRow
        /\ c.y \notin l => d.tags[c.y] # NoRow
    BY <1>4, <2>1, NoRowAssumption DEF Known, KnowsTag, KnowsOther, Holding
  <2>6. Tidy(e, l)
    <3>1. \A t, u \in TagIds, i \in AssocIds \ {ASSOC_SUBGROUP} : e.tagAssoc[t][u][i] = 0
      <4>1. TAKE t, u \in TagIds, i \in AssocIds \ {ASSOC_SUBGROUP}
      <4>2. d.tagAssoc[t][u][i] = 0
        BY DEF Tidy, OnlySubgroups
      <4>3. CASE t = c.x /\ u = c.y
        BY <2>3, <4>2, <4>3 DEF OnlyRelation
      <4>4. CASE ~(t = c.x /\ u = c.y)
        BY <2>3, <4>2, <4>4 DEF OnlyRelation
      <4> QED BY <4>3, <4>4
    <3>2. FilesThere(e)
      BY <2>3 DEF Tidy, FilesThere, OnlyRelation
    <3>3. ASSUME NEW t \in TagIds \ l PROVE ~Dangling(e, t)
      <4>1. e.tags = d.tags /\ e.fileAssoc = d.fileAssoc /\ ~Dangling(d, t)
        BY <2>3 DEF OnlyRelation, Tidy
      <4>2. CASE t = c.x \/ t = c.y
        BY <2>5, <4>1, <4>2 DEF Dangling
      <4>3. CASE t # c.x /\ t # c.y
        <5>1. \A u \in TagIds :
                e.tagAssoc[t][u] = d.tagAssoc[t][u] /\ e.tagAssoc[u][t] = d.tagAssoc[u][t]
          BY <2>3, <4>3 DEF OnlyRelation
        <5> QED BY <4>1, <5>1 DEF Dangling, NoFilesUnder, NoRelationsOf
      <4> QED BY <4>2, <4>3
    <3> QED BY <2>3, <3>1, <3>2, <3>3 DEF Tidy, OnlySubgroups, OnlyRelation
  <2> QED BY <2>4, <2>6 DEF Keeps
<1> QED BY <1>2, <1>3, <1>4

LEMMA InsertMoves ==
  ASSUME StInv, NEW p \in Threads, Insert(p)
  PROVE  Advances(p)
<1> DEFINE c == calls[p]
           n == IF ~locked /\ (c.op = "add_tag" => Insertable(db.tags, c.x))
                THEN AfterCall(c) ELSE Idle
<1>1. /\ CallFits(c) /\ Known(db, loose, c) /\ c.at = "insert" /\ Tidy(db, loose)
      /\ Writes(Inserted(c)) /\ Goes(p, n)
  BY DEF StInv, Insert, At
<1>2. CallFits(n) /\ Fresh(n)
  BY <1>1, AfterFits, IdleFits
<1> HIDE DEF n
<1>3. loose \subseteq loose'
  BY <1>1, GoesOn
<1>4. c.op \in {"add_tag", "tag_file", "add_association"}
  BY <1>1 DEF CallFits, Idle, FileCalls
<1>5. Known(db', loose', n) /\ Checks(db, c, n)
  BY <1>2, FreshKnows, FreshChecks
<1> HIDE DEF c
<1>6. Keeps(db, Inserted(c), loose, c)
  <2>1. CASE c.op = "add_tag" /\ Insertable(db.tags, c.x)
    <3>1. Inserted(c) = [db EXCEPT !.tags[c.x] = c.a]
      BY <2>1 DEF Inserted
    <3> QED BY <1>1, <2>1, <3>1, InsertKeeps
  <2>2. CASE c.op = "add_tag" /\ ~Insertable(db.tags, c.x)
    <3>1. Inserted(c) = db
      BY <2>2 DEF Inserted
    <3> QED BY <1>1, <3>1, WritesNothing
  <2>3. CASE c.op = "tag_file"
    <3>1. Inserted(c) = [db EXCEPT !.fileAssoc[c.x][c.y] = db.fileAssoc[c.x][c.y] + 1]
      BY <2>3 DEF Inserted
    <3> QED BY <1>1, <2>3, <3>1, InsertKeeps
  <2>4. CASE c.op = "add_association"
    <3>1. Inserted(c) = WithRelation(db, c.x, c.y, ASSOC_SUBGROUP,
                                     db.tagAssoc[c.x][c.y][ASSOC_SUBGROUP] + 1)
      BY <2>4 DEF Inserted, WithRelation
    <3> QED BY <1>1, <2>4, <3>1, InsertKeeps
  <2> QED BY <1>4, <2>1, <2>2, <2>3, <2>4
<1>7. db' = db \/ db' = Inserted(c)
  BY <1>1 DEF Writes
<1>8. Keeps(db, db', loose, c)
  BY <1>1, <1>6, <1>7, WritesNothing
<1>9. Tidy(db', loose')
  BY <1>3, <1>8 DEF Keeps, Tidy
<1> QED BY <1>1, <1>2, <1>5, <1>8, <1>9 DEF Moves, Advances, Keeps, c

LEMMA DeleteMoves ==
  ASSUME StInv, NEW p \in Threads, Delete(p)
  PROVE  Advances(p)
<1> DEFINE c == calls[p]
           n == IF locked THEN Idle ELSE AfterCall(c)
           e == [db EXCEPT !.fileAssoc[c.x][c.y] = 0]
<1>1. /\ CallFits(c) /\ c.at = "delete" /\ Tidy(db, loose) /\ Writes(e) /\ Goes(p, n)
  BY DEF StInv, Delete, At
<1>2. CallFits(n) /\ Fresh(n)
  BY <1>1, AfterFits, IdleFits
<1> HIDE DEF n
<1>3. loose \subseteq loose' /\ Known(db', loose', n) /\ Checks(db, c, n)
  BY <1>1, <1>2, GoesOn, FreshKnows, FreshChecks
<1> HIDE DEF c
<1>4. c.op = "untag_file" /\ c.x \in TagIds /\ c.y \in FileIds
  BY <1>1 DEF CallFits, Idle, FileCalls
<1>5. db \in Databases
  BY <1>1 DEF Tidy
<1>6. /\ e \in Databases
      /\ e.tags = db.tags /\ e.files = db.files /\ e.tagAssoc = db.tagAssoc
      /\ \A u \in TagIds, g \in FileIds :
           e.fileAssoc[u][g] = IF u = c.x /\ g = c.y THEN 0 ELSE db.fileAssoc[u][g]
  BY <1>4, <1>5, SetRow
<1>7. db' = db \/ db' = e
  BY <1>1 DEF Writes
<1> HIDE DEF e
<1>8. Changes(db, e, c)
  BY <1>4, <1>6 DEF Changes, FileCalls
<1>9. Tidy(e, loose)
  BY <1>1, <1>6 DEF Tidy, OnlySubgroups, FilesThere, Dangling, NoFilesUnder, NoRelationsOf
<1>10. Keeps(db, db', loose, c)
  BY <1>1, <1>7, <1>8, <1>9, WritesNothing DEF Keeps
<1>11. Tidy(db', loose')
  BY <1>3, <1>10 DEF Keeps, Tidy
<1> QED BY <1>1, <1>2, <1>3, <1>10, <1>11 DEF Moves, Advances, Keeps, c

(* The deletes of remove_tag; one that fails puts the id in loose.         *)
LEMMA TornIsLoose ==
  ASSUME StInv, NEW p \in Threads, NEW c, Goes(p, c), calls[p].at \in {"relations", "files"}
  PROVE  locked => calls[p].x \in loose'
BY DEF Goes, Torn

LEMMA DeleteRelationsMoves ==
  ASSUME StInv, NEW p \in Threads, DeleteRelations(p)
  PROVE  Advances(p)
<1> DEFINE c == calls[p]
           n == [c EXCEPT !.at = "files"]
           table == [t \in TagIds |-> [u \in TagIds |-> [i \in AssocIds |->
                       IF t = c.x \/ u = c.x THEN 0 ELSE db.tagAssoc[t][u][i]]]]
           e == [db EXCEPT !.tagAssoc = table]
<1>1. /\ CallFits(c) /\ Known(db, loose, c) /\ c.at = "relations" /\ Tidy(db, loose)
      /\ Writes(e) /\ Goes(p, n)
  BY DEF StInv, DeleteRelations, At
<1>2. n = [op |-> c.op, at |-> "files", a |-> c.a, b |-> c.b, to |-> c.to, x |-> c.x, y |-> c.y]
  BY <1>1, CallGoesOn
<1>3. c.op = "remove_tag" /\ c.a \in TagNames /\ c.x \in TagIds
  BY <1>1 DEF CallFits, Idle, FileCalls
<1>4. db \in Databases
  BY <1>1 DEF Tidy
<1>5. table \in TagAssociationTable
  BY <1>4 DEF Databases, TagAssociationTable
<1>6. \A t, u \in TagIds, i \in AssocIds :
        table[t][u][i] = IF t = c.x \/ u = c.x THEN 0 ELSE db.tagAssoc[t][u][i]
  OBVIOUS
<1>7. \A t, u \in TagIds : t # c.x /\ u # c.x => table[t][u] = db.tagAssoc[t][u]
  BY <1>4 DEF Databases, TagAssociationTable
<1> HIDE DEF n, table
<1>8. /\ e \in Databases /\ e.tagAssoc = table
      /\ e.tags = db.tags /\ e.files = db.files /\ e.fileAssoc = db.fileAssoc
  BY <1>4, <1>5, SetRelations
<1>9. IF locked THEN db' = db ELSE db' = e
  BY <1>1 DEF Writes
<1>10. loose \subseteq loose' /\ (locked => c.x \in loose')
  BY <1>1, GoesOn, TornIsLoose
<1> HIDE DEF e, c
<1>11. Keeps(db, e, loose, c)
  <2>1. Changes(db, e, c)
    BY <1>3, <1>6, <1>7, <1>8 DEF Changes
  <2>2. Tidy(e, loose)
    BY <1>1, <1>6, <1>8 DEF Tidy, OnlySubgroups, FilesThere, Dangling, NoFilesUnder, NoRelationsOf
  <2> QED BY <2>1, <2>2 DEF Keeps
<1>12. Keeps(db, db', loose, c)
  BY <1>1, <1>9, <1>11, WritesNothing
<1>13. Tidy(db', loose')
  BY <1>10, <1>12 DEF Keeps, Tidy
<1>14. CallFits(n) /\ Checks(db, c, n)
  BY <1>2, <1>3 DEF CallFits, Checks, IsPast, IsAdding
<1>15. Known(db', loose', n)
  <2>1. db'.tags = db.tags
    BY <1>8, <1>9
  <2>2. KnowsTag(db', loose', n)
    BY <1>1, <1>2, <1>10, <2>1 DEF Known, KnowsTag, Holding
  <2>3. Emptied(db', loose', n)
    BY <1>2, <1>3, <1>6, <1>8, <1>9, <1>10 DEF Emptied, NoRelationsOf
  <2> QED BY <1>2, <1>3, <2>2, <2>3 DEF Known, KnowsOther, KnowsFile, FileCalls
<1> QED BY <1>1, <1>12, <1>13, <1>14, <1>15 DEF Moves, Advances, Keeps, c

LEMMA DeleteFilesMoves ==
  ASSUME StInv, NEW p \in Threads, DeleteFiles(p)
  PROVE  Advances(p)
<1> DEFINE c == calls[p]
           n == [c EXCEPT !.at = "row"]
           none == [f \in FileIds |-> 0]
           table == [db.fileAssoc EXCEPT ![c.x] = none]
           e == [db EXCEPT !.fileAssoc = table]
<1>1. /\ CallFits(c) /\ Known(db, loose, c) /\ c.at = "files" /\ Tidy(db, loose)
      /\ Writes([db EXCEPT !.fileAssoc[c.x] = none]) /\ Goes(p, n)
  BY DEF StInv, DeleteFiles, At
<1>2. n = [op |-> c.op, at |-> "row", a |-> c.a, b |-> c.b, to |-> c.to, x |-> c.x, y |-> c.y]
  BY <1>1, CallGoesOn
<1>3. c.op = "remove_tag" /\ c.a \in TagNames /\ c.x \in TagIds
  BY <1>1 DEF CallFits, Idle, FileCalls
<1>4. db \in Databases
  BY <1>1 DEF Tidy
<1>5. none \in [FileIds -> Nat] /\ \A f \in FileIds : none[f] = 0
  OBVIOUS
<1>0. [db EXCEPT !.fileAssoc[c.x] = none] = e
  OBVIOUS
<1> HIDE DEF none
<1>6. table \in FileAssociationTable
  BY <1>4, <1>5 DEF Databases, FileAssociationTable
<1>7. \A t \in TagIds : table[t] = IF t = c.x THEN none ELSE db.fileAssoc[t]
  BY <1>4 DEF Databases, FileAssociationTable
<1> HIDE DEF n, table
<1>8. /\ e \in Databases /\ e.fileAssoc = table
      /\ e.tags = db.tags /\ e.files = db.files /\ e.tagAssoc = db.tagAssoc
  BY <1>4, <1>6, SetRows
<1>9. IF locked THEN db' = db ELSE db' = e
  BY <1>0, <1>1 DEF Writes
<1>10. loose \subseteq loose' /\ (locked => c.x \in loose')
  BY <1>1, GoesOn, TornIsLoose
<1> HIDE DEF e, c
<1>11. \A t \in TagIds, f \in FileIds :
         e.fileAssoc[t][f] = IF t = c.x THEN 0 ELSE db.fileAssoc[t][f]
  BY <1>5, <1>7, <1>8
<1>12. Keeps(db, e, loose, c)
  <2>1. Changes(db, e, c)
    BY <1>3, <1>8, <1>11 DEF Changes
  <2>2. Tidy(e, loose)
    BY <1>1, <1>8, <1>11 DEF Tidy, OnlySubgroups, FilesThere, Dangling, NoFilesUnder, NoRelationsOf
  <2> QED BY <2>1, <2>2 DEF Keeps
<1>13. Keeps(db, db', loose, c)
  BY <1>1, <1>9, <1>12, WritesNothing
<1>14. Tidy(db', loose')
  BY <1>10, <1>13 DEF Keeps, Tidy
<1>15. CallFits(n) /\ Checks(db, c, n)
  BY <1>2, <1>3 DEF CallFits, Checks, IsPast, IsAdding
<1>16. Known(db', loose', n)
  <2>1. db'.tags = db.tags /\ db'.tagAssoc = db.tagAssoc
    BY <1>8, <1>9
  <2>2. KnowsTag(db', loose', n)
    BY <1>1, <1>2, <1>10, <2>1 DEF Known, KnowsTag, Holding
  <2>3. c.x \notin loose' => NoRelationsOf(db', c.x)
    BY <1>1, <1>3, <1>10, <2>1 DEF Known, Emptied, NoRelationsOf
  <2>4. c.x \notin loose' => NoFilesUnder(db', c.x)
    BY <1>3, <1>9, <1>10, <1>11 DEF NoFilesUnder
  <2>5. Emptied(db', loose', n)
    BY <1>2, <2>3, <2>4 DEF Emptied
  <2> QED BY <1>2, <1>3, <2>2, <2>5 DEF Known, KnowsOther, KnowsFile, FileCalls
<1> QED BY <1>1, <1>13, <1>14, <1>15, <1>16 DEF Moves, Advances, Keeps, c

LEMMA DeleteRowMoves ==
  ASSUME StInv, NEW p \in Threads, DeleteRow(p)
  PROVE  Advances(p)
<1> DEFINE c == calls[p]
           e == [db EXCEPT !.tags[c.x] = NoRow]
<1>1. /\ CallFits(c) /\ Known(db, loose, c) /\ c.at = "row" /\ Tidy(db, loose)
      /\ Writes(e) /\ Goes(p, Idle)
  BY DEF StInv, DeleteRow, At
<1>2. c.op = "remove_tag" /\ c.x \in TagIds
  BY <1>1 DEF CallFits, Idle, FileCalls
<1>3. db \in Databases
  BY <1>1 DEF Tidy
<1>4. /\ e \in Databases
      /\ e.files = db.files /\ e.fileAssoc = db.fileAssoc /\ e.tagAssoc = db.tagAssoc
      /\ \A u \in TagIds : e.tags[u] = IF u = c.x THEN NoRow ELSE db.tags[u]
  BY <1>2, <1>3, SetTag
<1>5. db' = db \/ db' = e
  BY <1>1 DEF Writes
<1>6. loose \subseteq loose' /\ CallFits(Idle) /\ Known(db', loose', Idle) /\ Checks(db, c, Idle)
  BY <1>1, GoesOn, IdleFits, FreshKnows, FreshChecks
<1> HIDE DEF e, c, Idle
<1>7. Keeps(db, e, loose, c)
  <2>1. Changes(db, e, c)
    BY <1>2, <1>4 DEF Changes
  <2>2. c.x \notin loose => NoRelationsOf(db, c.x) /\ NoFilesUnder(db, c.x)
    BY <1>1, <1>2 DEF Known, Emptied
  <2>3. Tidy(e, loose)
    BY <1>1, <1>4, <2>2
    DEF Tidy, OnlySubgroups, FilesThere, Dangling, NoFilesUnder, NoRelationsOf
  <2> QED BY <2>1, <2>3 DEF Keeps
<1>8. Keeps(db, db', loose, c)
  BY <1>1, <1>5, <1>7, WritesNothing
<1>9. Tidy(db', loose')
  BY <1>6, <1>8 DEF Keeps, Tidy
<1> QED BY <1>1, <1>6, <1>8, <1>9 DEF Moves, Advances, Keeps, c

-----------------------------------------------------------------------------
LEMMA StatementAdvances ==
  ASSUME StInv, NEW p \in Threads, Statement(p)
  PROVE  Advances(p)
BY NewNameMoves, LastIdMoves, FindFileMoves, FindTagMoves, FindOtherMoves, CheckMoves,
   InsertMoves, DeleteMoves, DeleteRelationsMoves, DeleteFilesMoves, DeleteRowMoves DEF Statement

LEMMA FewerMet ==
  ASSUME NEW cs, NEW ds,
         \A p \in Threads : ds[p] = cs[p] \/ Held(ds[p]) = {}
  PROVE  Met(ds) \subseteq Met(cs)
BY DEF Met

LEMMA FreshHoldsNothing ==
  ASSUME NEW c, Fresh(c)
  PROVE  Held(c) = {}
<1>1. c.x = KW_FAIL /\ c.y = KW_FAIL
  BY DEF Fresh
<1> QED BY <1>1 DEF Held

(* Calls that begin or are forgotten.                                      *)
LEMMA NewCallsKeepInv ==
  ASSUME StInv, db' = db, loose' = loose, calls' = [p \in Threads |-> calls'[p]],
         \A p \in Threads :
           calls'[p] = calls[p] \/ (CallFits(calls'[p]) /\ Fresh(calls'[p]))
  PROVE  StInv'
<1>1. \A p \in Threads : calls'[p] = calls[p] \/ Held(calls'[p]) = {}
  BY FreshHoldsNothing
<1>2. Met(calls') \subseteq Met(calls)
  BY <1>1, FewerMet
<1>3. ASSUME NEW p \in Threads PROVE CallFits(calls'[p]) /\ Known(db', loose', calls'[p])
  BY FreshKnows DEF StInv
<1>4. Tidy(db', loose') /\ loose' \subseteq TagIds /\ Met(calls') \subseteq loose'
  BY <1>2 DEF StInv
<1> QED BY <1>3, <1>4 DEF StInv

LEMMA BeginKeepsInv ==
  ASSUME StInv, NEW p \in Threads, Begin(p)
  PROVE  StInv'
<1>1. db' = db /\ loose' = loose
  BY DEF Begin, Reads
<1>2. PICK c \in Requests : calls' = [calls EXCEPT ![p] = c]
  BY DEF Begin
<1>3. calls' = [q \in Threads |-> IF q = p THEN c ELSE calls[q]]
  BY <1>2 DEF StInv
<1>4. CallFits(c) /\ Fresh(c)
  BY RequestsFit
<1> QED BY <1>1, <1>3, <1>4, NewCallsKeepInv

LEMMA CrashKeepsInv ==
  ASSUME StInv, Crash
  PROVE  StInv'
<1>1. db' = db /\ loose' = loose /\ calls' = [p \in Threads |-> Idle]
  BY DEF Crash
<1> QED BY <1>1, IdleFits, NewCallsKeepInv

LEMMA SameKeepsInv ==
  ASSUME StInv, UNCHANGED <<db, calls, loose>>
  PROVE  StInv'
BY DEF StInv, Tidy

LEMMA StepKeepsInv ==
  ASSUME StInv, [StatementsNext]_statementVars
  PROVE  StInv'
<1>1. ASSUME NEW p \in Threads, Statement(p) PROVE StInv'
  BY <1>1, StatementAdvances, MovesKeepInv
<1>2. ASSUME Reader PROVE UNCHANGED <<db, calls, loose>>
  BY <1>2 DEF Reader
<1>3. UNCHANGED statementVars => UNCHANGED <<db, calls, loose>>
  BY DEF statementVars
<1> QED BY <1>1, <1>2, <1>3, BeginKeepsInv, CrashKeepsInv, SameKeepsInv DEF StatementsNext

LEMMA InitInv ==
  ASSUME StatementsInit
  PROVE  StInv
<1>1. db \in FirstDbs /\ calls = [p \in Threads |-> Idle] /\ loose = {}
  BY DEF StatementsInit
<1>2. Sound(db) /\ OnlySubgroups(db)
  BY <1>1, ThreadsAssumption
<1>3. db \in Databases /\ NoDanglingRowsOf(db)
  BY <1>2 DEF Sound
<1>4. /\ \A t \in TagIds, f \in FileIds : db.fileAssoc[t][f] \in Nat
      /\ \A t, u \in TagIds, i \in AssocIds : db.tagAssoc[t][u][i] \in Nat
  BY <1>3 DEF Databases, FileAssociationTable, TagAssociationTable
<1>5. ASSUME NEW t \in TagIds, db.tags[t] = NoRow PROVE NoFilesUnder(db, t) /\ NoRelationsOf(db, t)
  <2>1. NoFilesUnder(db, t)
    BY <1>3, <1>4, <1>5 DEF NoDanglingRowsOf, NoFilesUnder
  <2>2. NoRelationsOf(db, t)
    BY <1>3, <1>4, <1>5 DEF NoDanglingRowsOf, NoRelationsOf
  <2> QED BY <2>1, <2>2
<1>6. Tidy(db, loose)
  BY <1>2, <1>3, <1>5 DEF Tidy, FilesThere, NoDanglingRowsOf, Dangling
<1>7. \A p \in Threads : CallFits(calls[p]) /\ Known(db, loose, calls[p]) /\ Held(calls[p]) = {}
  BY <1>1, IdleFits, FreshKnows, FreshHoldsNothing
<1>8. Met(calls) = {}
  BY <1>7 DEF Met
<1> QED BY <1>1, <1>6, <1>7, <1>8 DEF StInv

LEMMA StatementsInductive == Statements => []StInv
BY InitInv, StepKeepsInv, PTL DEF Statements

-----------------------------------------------------------------------------
Flags == locked \in BOOLEAN /\ begun \in 0..MaxCalls

LEMMA FlagsKept ==
  ASSUME Flags, [StatementsNext]_statementVars
  PROVE  Flags'
<1>1. begun \in 0..MaxCalls /\ MaxCalls \in Nat
  BY ThreadsAssumption DEF Flags
<1>2. begun' \in 0..MaxCalls
  <2>1. ASSUME NEW p \in Threads, Begin(p) PROVE begun' \in 0..MaxCalls
    BY <1>1, <2>1 DEF Begin
  <2>2. ASSUME NEW p \in Threads, Statement(p) PROVE begun' = begun
    BY <2>2 DEF Statement, NewName, LastId, FindFile, FindTag, FindOther, Check, Insert, Delete,
                DeleteRelations, DeleteFiles, DeleteRow, Found, Goes
  <2>3. Reader \/ Crash \/ UNCHANGED statementVars => begun' = begun
    BY DEF Reader, Crash, statementVars
  <2> QED BY <1>1, <2>1, <2>2, <2>3 DEF StatementsNext
<1>3. locked' \in BOOLEAN
  <2>1. ASSUME NEW p \in Threads, Begin(p) \/ Statement(p) PROVE locked' = locked
    BY <2>1, Zenon
    DEF Begin, Statement, NewName, LastId, FindFile, FindTag, FindOther, Check, Insert, Delete,
        DeleteRelations, DeleteFiles, DeleteRow, Reads, Writes
  <2>2. Crash \/ UNCHANGED statementVars => locked' = locked
    BY Zenon DEF Crash, statementVars
  <2>3. Reader => locked' \in BOOLEAN
    BY DEF Reader
  <2>4. locked \in BOOLEAN
    BY Zenon DEF Flags
  <2> QED BY <2>1, <2>2, <2>3, <2>4, Zenon DEF StatementsNext
<1> QED BY <1>2, <1>3, Zenon DEF Flags

(* Whatever the statements of the calls are interleaved with, they leave   *)
(* tables, and a call holds ids.                                           *)
THEOREM StatementsType == Statements => []StatementTypeOK
<1>1. StatementsInit => Flags
  <2> SUFFICES ASSUME StatementsInit PROVE Flags
    OBVIOUS
  <2>1. locked \in BOOLEAN
    BY DEF StatementsInit
  <2>2. begun \in 0..MaxCalls
    BY ThreadsAssumption DEF StatementsInit
  <2> QED BY <2>1, <2>2, Zenon DEF Flags
<1>2. StInv /\ Flags => StatementTypeOK
  <2> SUFFICES ASSUME StInv, Flags PROVE StatementTypeOK
    OBVIOUS
  <2>1. db \in Databases /\ loose \subseteq TagIds
    BY DEF StInv, Tidy
  <2>2. \A p \in Threads : Held(calls[p]) \subseteq TagIds
    BY HeldAre DEF StInv
  <2> QED BY <2>1, <2>2, Zenon DEF StatementTypeOK, Flags
<1>3. Statements => []Flags
  BY <1>1, FlagsKept, PTL DEF Statements
<1> QED BY <1>2, <1>3, StatementsInductive, PTL

(* The rows a removed tag would leave are those of an id that another call *)
(* held at the removal, or that a delete failed for: every other order of  *)
(* statements and every crash between them leaves nothing behind.          *)
THEOREM StatementsLeaveNothingDangling == Statements => []NothingDangles
<1>1. StInv => NothingDangles
  BY DEF StInv, Tidy, Dangling, NothingDangles
<1> QED BY <1>1, StatementsInductive, PTL

-----------------------------------------------------------------------------
(* How often a name or a row can be there: each thread that is past its    *)
(* check may add one more, and after the first is there no other thread    *)
(* gets past it.                                                           *)
Past(cs, n)      == {p \in Threads : IsPast(cs[p], n)}
Adding(cs, t, f) == {p \in Threads : IsAdding(cs[p], t, f)}

FewNames ==
  \A n \in TagNames :
    Cardinality(TagsNamed(db, n)) + Cardinality(Past(calls, n)) <= Cardinality(Threads)
FewRows ==
  \A t \in TagIds, f \in FileIds :
    db.fileAssoc[t][f] + Cardinality(Adding(calls, t, f)) <= Cardinality(Threads)

LEMMA ThreadSets ==
  ASSUME NEW P \in SUBSET Threads
  PROVE  IsFiniteSet(P) /\ Cardinality(P) \in Nat /\ Cardinality(P) <= Cardinality(Threads)
BY ThreadsAssumption, FS_Subset, FS_CardinalityType

LEMMA FewerThreads ==
  ASSUME NEW P \in SUBSET Threads, NEW Q \in SUBSET P
  PROVE  /\ Cardinality(Q) <= Cardinality(P)
         /\ \A p \in P \ Q : Cardinality(Q) <= Cardinality(P) - 1
<1>1. IsFiniteSet(P)
  BY ThreadSets
<1>2. ASSUME NEW p \in P \ Q PROVE Cardinality(Q) <= Cardinality(P) - 1
  <2>1. IsFiniteSet(P \ {p}) /\ Cardinality(P \ {p}) = Cardinality(P) - 1
    BY <1>1, FS_RemoveElement
  <2>2. Q \in SUBSET (P \ {p})
    BY <1>2
  <2> QED BY <2>1, <2>2, FS_Subset
<1> QED BY <1>1, <1>2, FS_Subset

LEMMA IdSets ==
  ASSUME NEW N \in SUBSET TagIds, NEW M
  PROVE  /\ IsFiniteSet(N) /\ Cardinality(N) \in Nat
         /\ M \subseteq N => Cardinality(M) \in Nat /\ Cardinality(M) <= Cardinality(N)
         /\ \A x : M \subseteq N \cup {x} => Cardinality(M) \in Nat /\ Cardinality(M) <= Cardinality(N) + 1
<1>1. IsFiniteSet(TagIds)
  BY BoundAssumption, FS_Interval DEF TagIds
<1>2. IsFiniteSet(N) /\ Cardinality(N) \in Nat
  BY <1>1, FS_Subset, FS_CardinalityType
<1>3. ASSUME M \subseteq N PROVE Cardinality(M) \in Nat /\ Cardinality(M) <= Cardinality(N)
  BY <1>2, <1>3, FS_Subset, FS_CardinalityType
<1>4. ASSUME NEW x, M \subseteq N \cup {x}
      PROVE  Cardinality(M) \in Nat /\ Cardinality(M) <= Cardinality(N) + 1
  <2>1. /\ IsFiniteSet(N \cup {x}) /\ Cardinality(N \cup {x}) \in Nat
        /\ Cardinality(N \cup {x}) <= Cardinality(N) + 1
    BY <1>2, FS_AddElement, FS_CardinalityType
  <2>2. Cardinality(M) \in Nat /\ Cardinality(M) <= Cardinality(N \cup {x})
    BY <1>4, <2>1, FS_Subset, FS_CardinalityType
  <2> QED BY <1>2, <2>1, <2>2
<1> QED BY <1>2, <1>3, <1>4

LEMMA MovesKeepFewNames ==
  ASSUME StInv, FewNames, NEW p \in Threads, NEW c, Moves(p, c)
  PROVE  FewNames'
<1> SUFFICES ASSUME NEW n \in TagNames
             PROVE  Cardinality(TagsNamed(db', n)) + Cardinality(Past(calls', n))
                      <= Cardinality(Threads)
  BY DEF FewNames
<1>1. calls' = [q \in Threads |-> IF q = p THEN c ELSE calls[q]]
  BY GoesOn DEF Moves
<1> DEFINE N == TagsNamed(db, n)
           M == TagsNamed(db', n)
           P == Past(calls, n)
           Q == Past(calls', n)
<1>2. /\ Cardinality(N) + Cardinality(P) <= Cardinality(Threads)
      /\ Changes(db, db', calls[p]) /\ Checks(db, calls[p], c) /\ CallFits(calls[p])
  BY DEF FewNames, Moves, StInv
<1>3. N \in SUBSET TagIds /\ P \in SUBSET Threads /\ Q \in SUBSET Threads
  BY DEF TagsNamed, Past
<1>4. \A q \in Threads \ {p} : q \in Q <=> q \in P
  BY <1>1 DEF Past
<1>5. /\ p \in Q <=> IsPast(c, n)
      /\ p \in P <=> IsPast(calls[p], n)
  BY <1>1 DEF Past
<1>6. calls[p].at # "insert" \/ calls[p].op # "add_tag" \/ calls[p].a # n => M \subseteq N
  BY <1>2, NoRowAssumption DEF Changes, TagsNamed
<1>7. M \subseteq N \cup {calls[p].x}
  BY <1>2, NoRowAssumption DEF Changes, TagsNamed
<1>8. p \in Q => (calls[p].at = "max" /\ p \in P) \/ (calls[p].at = "new" /\ N = {})
  BY <1>2, <1>5 DEF Checks
<1>9. calls[p].at = "insert" /\ calls[p].op = "add_tag" /\ calls[p].a = n => p \in P
  BY <1>5 DEF IsPast
<1> HIDE DEF N, M, P, Q
<1>10. Cardinality(N) \in Nat /\ Cardinality(P) \in Nat /\ Cardinality(Q) \in Nat
       /\ Cardinality(Threads) \in Nat /\ Cardinality(Q) <= Cardinality(Threads)
  BY <1>3, IdSets, ThreadSets
<1>11. CASE calls[p].at = "insert" /\ calls[p].op = "add_tag" /\ calls[p].a = n
  <2>1. p \in P \ Q /\ Q \in SUBSET P
    BY <1>3, <1>4, <1>8, <1>9, <1>11
  <2>2. Cardinality(Q) <= Cardinality(P) - 1
    BY <1>3, <2>1, FewerThreads
  <2>3. Cardinality(M) \in Nat /\ Cardinality(M) <= Cardinality(N) + 1
    BY <1>3, <1>7, IdSets
  <2> QED BY <1>2, <1>10, <2>2, <2>3 DEF N, M, P, Q
<1>12. CASE ~(calls[p].at = "insert" /\ calls[p].op = "add_tag" /\ calls[p].a = n)
  <2>1. M \subseteq N
    BY <1>6, <1>12
  <2>2. Cardinality(M) \in Nat /\ Cardinality(M) <= Cardinality(N)
    BY <1>3, <2>1, IdSets
  <2>3. CASE Q \subseteq P
    <3>1. Cardinality(Q) <= Cardinality(P)
      BY <1>3, <2>3, FewerThreads
    <3> QED BY <1>2, <1>10, <2>2, <3>1 DEF N, M, P, Q
  <2>4. CASE N = {}
    <3>1. Cardinality(M) = 0
      BY <2>1, <2>4, FS_EmptySet
    <3> QED BY <1>10, <3>1 DEF M, Q
  <2> QED BY <1>3, <1>4, <1>8, <2>3, <2>4
<1> QED BY <1>11, <1>12

LEMMA MovesKeepFewRows ==
  ASSUME StInv, FewRows, NEW p \in Threads, NEW c, Moves(p, c)
  PROVE  FewRows'
<1> SUFFICES ASSUME NEW t \in TagIds, NEW f \in FileIds
             PROVE  db'.fileAssoc[t][f] + Cardinality(Adding(calls', t, f))
                      <= Cardinality(Threads)
  BY DEF FewRows
<1>1. calls' = [q \in Threads |-> IF q = p THEN c ELSE calls[q]]
  BY GoesOn DEF Moves
<1> DEFINE k == db.fileAssoc[t][f]
           m == db'.fileAssoc[t][f]
           P == Adding(calls, t, f)
           Q == Adding(calls', t, f)
<1>2. /\ k + Cardinality(P) <= Cardinality(Threads)
      /\ Changes(db, db', calls[p]) /\ Checks(db, calls[p], c) /\ CallFits(calls[p])
  BY DEF FewRows, Moves, StInv
<1>3. P \in SUBSET Threads /\ Q \in SUBSET Threads
  BY DEF Adding
<1>4. \A q \in Threads \ {p} : q \in Q <=> q \in P
  BY <1>1 DEF Adding
<1>5. p \in Q => calls[p].at = "rows" /\ k = 0
  BY <1>1, <1>2 DEF Adding, Checks
<1>6. \/ m = k \/ m = 0
      \/ calls[p].at = "insert" /\ p \in P /\ m = k + 1
  BY <1>2 DEF Changes, Adding, IsAdding
<1>7. k \in Nat
  BY DEF StInv, Tidy, Databases, FileAssociationTable
<1> HIDE DEF k, m, P, Q
<1>8. Cardinality(P) \in Nat /\ Cardinality(Q) \in Nat
      /\ Cardinality(Threads) \in Nat /\ Cardinality(Q) <= Cardinality(Threads)
  BY <1>3, ThreadSets
<1>9. CASE calls[p].at = "insert" /\ p \in P /\ m = k + 1
  <2>1. p \in P \ Q /\ Q \in SUBSET P
    BY <1>3, <1>4, <1>5, <1>9
  <2>2. Cardinality(Q) <= Cardinality(P) - 1
    BY <1>3, <2>1, FewerThreads
  <2> QED BY <1>2, <1>7, <1>8, <1>9, <2>2 DEF m, k, P, Q
<1>10. CASE m = k \/ m = 0
  <2>1. CASE p \in Q
    BY <1>5, <1>8, <1>10, <2>1 DEF m, Q
  <2>2. CASE p \notin Q
    <3>1. Q \in SUBSET P
      BY <1>3, <1>4, <2>2
    <3>2. Cardinality(Q) <= Cardinality(P)
      BY <1>3, <3>1, FewerThreads
    <3> QED BY <1>2, <1>7, <1>8, <1>10, <3>2 DEF m, Q
  <2> QED BY <2>1, <2>2
<1> QED BY <1>6, <1>9, <1>10

LEMMA NewCallsKeepFew ==
  ASSUME FewNames, FewRows, StInv, db' = db,
         \A p \in Threads : calls'[p] = calls[p] \/ Fresh(calls'[p])
  PROVE  FewNames' /\ FewRows'
<1>1. ASSUME NEW n \in TagNames PROVE
        Cardinality(TagsNamed(db', n)) + Cardinality(Past(calls', n)) <= Cardinality(Threads)
  <2>1. Past(calls', n) \in SUBSET Past(calls, n) /\ Past(calls, n) \in SUBSET Threads
    BY DEF Past, IsPast, Fresh
  <2>2. Cardinality(Past(calls', n)) <= Cardinality(Past(calls, n))
    BY <2>1, FewerThreads
  <2>3. TagsNamed(db, n) \in SUBSET TagIds
    BY DEF TagsNamed
  <2>4. /\ Cardinality(TagsNamed(db, n)) \in Nat /\ Cardinality(Threads) \in Nat
        /\ Cardinality(Past(calls, n)) \in Nat /\ Cardinality(Past(calls', n)) \in Nat
    BY <2>1, <2>3, IdSets, ThreadSets
  <2>5. Cardinality(TagsNamed(db, n)) + Cardinality(Past(calls, n)) <= Cardinality(Threads)
    BY DEF FewNames
  <2> QED BY <2>2, <2>4, <2>5
<1>2. ASSUME NEW t \in TagIds, NEW f \in FileIds PROVE
        db'.fileAssoc[t][f] + Cardinality(Adding(calls', t, f)) <= Cardinality(Threads)
  <2>1. Adding(calls', t, f) \in SUBSET Adding(calls, t, f) /\ Adding(calls, t, f) \in SUBSET Threads
    BY DEF Adding, IsAdding, Fresh, FileCalls
  <2>2. Cardinality(Adding(calls', t, f)) <= Cardinality(Adding(calls, t, f))
    BY <2>1, FewerThreads
  <2>3. /\ db.fileAssoc[t][f] \in Nat /\ Cardinality(Threads) \in Nat
        /\ Cardinality(Adding(calls, t, f)) \in Nat /\ Cardinality(Adding(calls', t, f)) \in Nat
    BY <2>1, ThreadSets DEF StInv, Tidy, Databases, FileAssociationTable
  <2>4. db.fileAssoc[t][f] + Cardinality(Adding(calls, t, f)) <= Cardinality(Threads)
    BY DEF FewRows
  <2> QED BY <2>2, <2>3, <2>4
<1> QED BY <1>1, <1>2 DEF FewNames, FewRows

LEMMA StepKeepsFew ==
  ASSUME StInv, FewNames, FewRows, [StatementsNext]_statementVars
  PROVE  FewNames' /\ FewRows'
<1>1. ASSUME NEW p \in Threads, Statement(p) PROVE FewNames' /\ FewRows'
  BY <1>1, StatementAdvances, MovesKeepFewNames, MovesKeepFewRows DEF Advances
<1>2. ASSUME NEW p \in Threads, Begin(p) PROVE FewNames' /\ FewRows'
  <2>1. PICK c \in Requests : calls' = [calls EXCEPT ![p] = c]
    BY <1>2 DEF Begin
  <2>2. calls' = [q \in Threads |-> IF q = p THEN c ELSE calls[q]] /\ Fresh(c)
    BY <2>1, RequestsFit DEF StInv
  <2>3. db' = db
    BY <1>2 DEF Begin, Reads
  <2> QED BY <2>2, <2>3, NewCallsKeepFew
<1>3. CASE Crash
  BY <1>3, IdleFits, NewCallsKeepFew DEF Crash
<1>4. CASE Reader \/ UNCHANGED statementVars
  BY <1>4, NewCallsKeepFew DEF Reader, statementVars
<1> QED BY <1>1, <1>2, <1>3, <1>4 DEF StatementsNext

LEMMA InitFew ==
  ASSUME StatementsInit
  PROVE  FewNames /\ FewRows
<1>1. calls = [p \in Threads |-> Idle] /\ db \in Databases /\ UniqueNamesOf(db) /\ NoDuplicateRowsOf(db)
  BY ThreadsAssumption DEF StatementsInit, Sound
<1>2. /\ \A n \in TagNames : Past(calls, n) = {}
      /\ \A t \in TagIds, f \in FileIds : Adding(calls, t, f) = {}
  BY <1>1 DEF Past, Adding, IsPast, IsAdding, Idle
<1>3. Cardinality({}) = 0 /\ Cardinality(Threads) \in Nat /\ 1 <= Cardinality(Threads)
  BY ThreadsAssumption, FS_EmptySet, FS_CardinalityType
<1>4. ASSUME NEW n \in TagNames PROVE Cardinality(TagsNamed(db, n)) \in 0..1
  <2>1. CASE TagsNamed(db, n) = {}
    BY <1>3, <2>1
  <2>2. CASE TagsNamed(db, n) # {}
    <3>1. PICK t \in TagsNamed(db, n) : TRUE
      BY <2>2
    <3>2. TagsNamed(db, n) = {t}
      BY <1>1, <3>1, NoRowAssumption DEF TagsNamed, UniqueNamesOf
    <3> QED BY <3>2, FS_Singleton
  <2> QED BY <2>1, <2>2
<1>5. FewNames
  <2> SUFFICES ASSUME NEW n \in TagNames
               PROVE  Cardinality(TagsNamed(db, n)) + Cardinality(Past(calls, n)) <= Cardinality(Threads)
    BY DEF FewNames
  <2>1. Cardinality(Past(calls, n)) = 0
    BY <1>2, <1>3
  <2> QED BY <1>3, <1>4, <2>1
<1>6. \A t \in TagIds, f \in FileIds : db.fileAssoc[t][f] \in 0..1
  BY <1>1 DEF Databases, FileAssociationTable, NoDuplicateRowsOf
<1>7. FewRows
  <2> SUFFICES ASSUME NEW t \in TagIds, NEW f \in FileIds
               PROVE  db.fileAssoc[t][f] + Cardinality(Adding(calls, t, f)) <= Cardinality(Threads)
    BY DEF FewRows
  <2>1. Cardinality(Adding(calls, t, f)) = 0
    BY <1>2, <1>3
  <2> QED BY <1>3, <1>6, <2>1
<1> QED BY <1>5, <1>7

LEMMA StatementsFew == Statements => [](FewNames /\ FewRows)
<1>1. Statements => FewNames /\ FewRows
  BY InitFew DEF Statements
<1>2. StInv /\ FewNames /\ FewRows /\ [StatementsNext]_statementVars => FewNames' /\ FewRows'
  BY StepKeepsFew
<1> QED BY <1>1, <1>2, StatementsInductive, PTL DEF Statements

(* Two threads may add one name, and so may more; but there are never more *)
(* rows of one name than threads, though calls go on for ever: who checks  *)
(* after the first row finds it, and each of the others was past its check *)
(* by then.                                                                *)
THEOREM StatementsBoundNames == Statements => []NamesBounded
<1>1. FewNames => NamesBounded
  <2> SUFFICES ASSUME FewNames, NEW n \in TagNames
               PROVE  Cardinality(TagsNamed(db, n)) <= Cardinality(Threads)
    BY DEF NamesBounded
  <2>1. TagsNamed(db, n) \in SUBSET TagIds /\ Past(calls, n) \in SUBSET Threads
    BY DEF TagsNamed, Past
  <2>2. /\ Cardinality(TagsNamed(db, n)) \in Nat /\ Cardinality(Threads) \in Nat
        /\ Cardinality(Past(calls, n)) \in Nat
    BY <2>1, IdSets, ThreadSets
  <2>3. Cardinality(TagsNamed(db, n)) + Cardinality(Past(calls, n)) <= Cardinality(Threads)
    BY DEF FewNames
  <2> QED BY <2>2, <2>3
<1> QED BY <1>1, StatementsFew, PTL

(* So it is with the rows that put one file under one tag, whatever tags   *)
(* are removed and files renamed meanwhile.                                *)
THEOREM StatementsBoundRows == Statements => []RowsBounded
<1>1. StInv /\ FewRows => RowsBounded
  <2> SUFFICES ASSUME StInv, FewRows, NEW t \in TagIds, NEW f \in FileIds
               PROVE  db.fileAssoc[t][f] <= Cardinality(Threads)
    BY DEF RowsBounded
  <2>1. Adding(calls, t, f) \in SUBSET Threads
    BY DEF Adding
  <2>2. /\ db.fileAssoc[t][f] \in Nat /\ Cardinality(Threads) \in Nat
        /\ Cardinality(Adding(calls, t, f)) \in Nat
    BY <2>1, ThreadSets DEF StInv, Tidy, Databases, FileAssociationTable
  <2>3. db.fileAssoc[t][f] + Cardinality(Adding(calls, t, f)) <= Cardinality(Threads)
    BY DEF FewRows
  <2> QED BY <2>2, <2>3
<1> QED BY <1>1, StatementsInductive, StatementsFew, PTL

-----------------------------------------------------------------------------
(* What a statement changes its call names, by what the ids still are.     *)
LEMMA ChangedIsOwn ==
  ASSUME StInv, NEW p \in Threads, Changes(db, db', calls[p]), NEW t \in TagIds \ loose,
         db.tags[t] # NoRow
  PROVE  LET n == db.tags[t] IN
         /\ ~Busy(n) => db'.tags[t] = n
         /\ \A f \in FileIds :
              db.files[f] # NoRow /\ ~BusyPair(n, BaseName[db.files[f]])
              => db'.fileAssoc[t][f] = db.fileAssoc[t][f]
         /\ \A u \in TagIds \ loose :
              db.tags[u] # NoRow /\ ~BusyPair(n, db.tags[u])
              => db'.tagAssoc[t][u] = db.tagAssoc[t][u]
<1> DEFINE c == calls[p]
           n == db.tags[t]
<1>1. CallFits(c) /\ Known(db, loose, c) /\ Changes(db, db', c)
  BY DEF StInv
<1>2. ASSUME NEW u \in TagIds \ loose, u = c.x, c.op \in FileCalls \cup {"remove_tag", "add_association"}
      PROVE  db.tags[u] = c.a
  BY <1>1, <1>2 DEF Known, KnowsTag, Holding, FileCalls
<1>3. c.op \in FileCalls \cup {"remove_tag", "add_association"} => c.a \in About(c)
  <2>1. c.op \in FileCalls \cup {"remove_tag", "add_association"} => c.a \in TagNames
    BY <1>1 DEF CallFits, Idle, FileCalls
  <2> QED BY <2>1, NoRowAssumption DEF About
<1> HIDE DEF c
<1>4. ~Busy(n) => db'.tags[t] = n
  <2>1. SUFFICES ASSUME db'.tags[t] # n PROVE Busy(n)
    OBVIOUS
  <2>2. c.op = "remove_tag" /\ t = c.x
    BY <1>1, <2>1 DEF Changes
  <2>3. n \in About(c)
    BY <1>2, <1>3, <2>2
  <2> QED BY <2>3 DEF Busy, c
<1>5. ASSUME NEW f \in FileIds, db.files[f] # NoRow, ~BusyPair(n, BaseName[db.files[f]])
      PROVE  db'.fileAssoc[t][f] = db.fileAssoc[t][f]
  <2>1. SUFFICES ASSUME db'.fileAssoc[t][f] # db.fileAssoc[t][f] PROVE FALSE
    OBVIOUS
  <2>2. CASE c.op = "remove_tag" /\ t = c.x
    <3>1. c.a = n
      BY <1>2, <2>2
    <3> QED BY <1>5, <2>2, <3>1 DEF BusyPair, c
  <2>3. CASE c.op \in FileCalls /\ t = c.x /\ f = c.y
    <3>1. c.a = n /\ n \in About(c)
      BY <1>2, <1>3, <2>3
    <3>2. c.b \in FileNames /\ c.at # "file"
      BY <1>1, <2>3, NoId DEF CallFits, Idle, FileCalls
    <3>3. c.b = BaseName[db.files[f]]
      BY <1>1, <2>3, <3>2 DEF Known, KnowsFile
    <3>4. c.b \in About(c)
      BY <3>2, ThreadsAssumption DEF About
    <3> QED BY <1>5, <3>1, <3>3, <3>4 DEF BusyPair, c
  <2>4. \/ c.op = "remove_tag" /\ t = c.x
        \/ c.op \in FileCalls /\ t = c.x /\ f = c.y
    BY <1>1, <2>1 DEF Changes, FileCalls
  <2> QED BY <2>2, <2>3, <2>4
<1>6. ASSUME NEW u \in TagIds \ loose, db.tags[u] # NoRow, ~BusyPair(n, db.tags[u])
      PROVE  db'.tagAssoc[t][u] = db.tagAssoc[t][u]
  <2>1. SUFFICES ASSUME db'.tagAssoc[t][u] # db.tagAssoc[t][u] PROVE FALSE
    OBVIOUS
  <2>2. CASE c.op = "remove_tag" /\ c.x \in {t, u}
    <3>1. c.a \in {n, db.tags[u]}
      BY <1>2, <2>2
    <3> QED BY <1>6, <2>2, <3>1 DEF BusyPair, c
  <2>3. CASE c.op = "add_association" /\ t = c.x /\ u = c.y
    <3>1. c.a = n /\ n \in About(c)
      BY <1>2, <1>3, <2>3
    <3>2. c.b = db.tags[u]
      BY <1>1, <2>3 DEF Known, KnowsOther
    <3>3. c.b \in About(c)
      BY <1>6, <3>2 DEF About
    <3> QED BY <1>6, <3>1, <3>2, <3>3 DEF BusyPair, c
  <2> QED BY <1>1, <2>1, <2>2, <2>3 DEF Changes
<1> QED BY <1>4, <1>5, <1>6

(* An id that a call has looked up and uses some statements later still    *)
(* stands for the name, unless another call held it when it was removed:   *)
(* so a statement changes nothing of names no call is about.               *)
THEOREM StatementsKeepOthers == Statements => OthersKeepTheirs
<1> DEFINE Kept ==
      \A t \in TagIds \ loose : LET n == db.tags[t] IN n # NoRow =>
       /\ ~Busy(n) => db'.tags[t] = n
       /\ \A f \in FileIds :
            db.files[f] # NoRow /\ ~BusyPair(n, BaseName[db.files[f]])
            => db'.fileAssoc[t][f] = db.fileAssoc[t][f]
       /\ \A u \in TagIds \ loose :
            db.tags[u] # NoRow /\ ~BusyPair(n, db.tags[u])
            => db'.tagAssoc[t][u] = db.tagAssoc[t][u]
<1>1. StInv /\ [StatementsNext]_statementVars => [Kept]_statementVars
  <2> SUFFICES ASSUME StInv, StatementsNext PROVE Kept
    BY Zenon
  <2>1. ASSUME NEW p \in Threads, Statement(p) PROVE Kept
    <3>1. Changes(db, db', calls[p])
      BY <2>1, StatementAdvances DEF Advances, Moves
    <3> QED BY <3>1, ChangedIsOwn
  <2>2. CASE db' = db
    BY <2>2
  <2>3. ASSUME NEW p \in Threads, Begin(p) PROVE db' = db
    BY <2>3 DEF Begin, Reads
  <2>4. Reader \/ Crash => db' = db
    BY DEF Reader, Crash
  <2> QED BY <2>1, <2>2, <2>3, <2>4 DEF StatementsNext
<1>2. Statements => [][Kept]_statementVars
  <2> HIDE DEF Kept
  <2> QED BY <1>1, StatementsInductive, PTL DEF Statements
<1> QED BY <1>2 DEF OthersKeepTheirs

-----------------------------------------------------------------------------
(* The calls as what they do to the names: where ids that two calls hold   *)
(* are not removed, no delete has failed, and no name is there twice.      *)
Clear ==
  StInv /\ loose = {} /\ loose' = {} /\ UniqueNamesOf(db) /\ UniqueNamesOf(db')

(* What the removals of the other threads are half way through.            *)
LeavesTag(c) == c.op = "remove_tag" /\ c.at \in {"files", "row"}
OtherTags(p) == {calls[q].a : q \in {r \in Threads \ {p} : LeavesTag(calls[r])}}

LEMMA LeavingSplit ==
  ASSUME StInv, NEW p \in Threads, NEW c, Goes(p, c)
  PROVE  /\ LeavingTags = OtherTags(p) \cup {n \in {calls[p].a} : LeavesTag(calls[p])}
         /\ LeavingTags' = OtherTags(p) \cup {n \in {c.a} : LeavesTag(c)}
<1>1. \A q \in Threads : calls'[q] = IF q = p THEN c ELSE calls[q]
  BY GoesOn
<1>2. LeavingTags = {calls[q].a : q \in {r \in Threads : LeavesTag(calls[r])}}
  BY DEF LeavingTags, LeavesTag
<1>3. LeavingTags' = {calls'[q].a : q \in {r \in Threads : LeavesTag(calls'[r])}}
  BY DEF LeavingTags, LeavesTag
<1>4. LeavingTags = OtherTags(p) \cup {n \in {calls[p].a} : LeavesTag(calls[p])}
  BY <1>2 DEF OtherTags
<1>5. LeavingTags' = OtherTags(p) \cup {n \in {c.a} : LeavesTag(c)}
  BY <1>1, <1>3 DEF OtherTags
<1> QED BY <1>4, <1>5

(* A removal that is half way still has the id of its tag.                 *)
LEMMA LeavingHas ==
  ASSUME StInv, loose = {}, NEW q \in Threads, LeavesTag(calls[q])
  PROVE  calls[q].x \in TagIds /\ calls[q].x \in Held(calls[q]) /\ db.tags[calls[q].x] = calls[q].a
<1>1. CallFits(calls[q]) /\ Known(db, {}, calls[q]) /\ calls[q].op = "remove_tag"
  BY DEF StInv, LeavesTag
<1>2. calls[q].x \in TagIds
  BY <1>1 DEF CallFits, Idle, FileCalls, LeavesTag
<1>3. Holding(calls[q])
  BY <1>1 DEF Holding
<1> QED BY <1>1, <1>2, <1>3, HeldAre DEF Known, KnowsTag

(* So no call holds the id of a tag that another is removing.              *)
LEMMA HeldStay ==
  ASSUME StInv, loose = {}, UniqueNamesOf(db), NEW p \in Threads, NEW t \in Held(calls[p]),
         t \in TagIds, db.tags[t] # NoRow
  PROVE  db.tags[t] \notin OtherTags(p)
<1> SUFFICES ASSUME NEW q \in Threads \ {p}, LeavesTag(calls[q]), calls[q].a = db.tags[t]
             PROVE  FALSE
  BY DEF OtherTags
<1>1. calls[q].x \in TagIds /\ calls[q].x \in Held(calls[q]) /\ db.tags[calls[q].x] = calls[q].a
  BY LeavingHas
<1>2. calls[q].x = t
  BY <1>1 DEF UniqueNamesOf
<1>3. calls[q].op = "remove_tag" /\ Met(calls) = {}
  BY DEF LeavesTag, StInv
<1> QED BY <1>1, <1>2, <1>3, MetAre

(* The ids of a call stand for its names, and only they do.                *)
LEMMA OwnTag ==
  ASSUME StInv, loose = {}, UniqueNamesOf(db), NEW p \in Threads, Holding(calls[p]),
         calls[p].x \in TagIds, calls[p].a \in TagNames
  PROVE  /\ \A t \in TagIds : db.tags[t] = calls[p].a <=> t = calls[p].x
         /\ calls[p].a \notin OtherTags(p)
<1>1. CallFits(calls[p]) /\ db.tags[calls[p].x] = calls[p].a /\ calls[p].a # NoRow
  BY NoRowAssumption DEF StInv, Known, KnowsTag
<1>2. calls[p].x \in Held(calls[p])
  BY <1>1, HeldAre
<1>3. calls[p].a \notin OtherTags(p)
  BY <1>1, <1>2, HeldStay
<1> QED BY <1>1, <1>3 DEF UniqueNamesOf

LEMMA OwnOther ==
  ASSUME StInv, loose = {}, UniqueNamesOf(db), NEW p \in Threads,
         calls[p].op = "add_association", calls[p].y \in TagIds, calls[p].b \in TagNames
  PROVE  /\ \A t \in TagIds : db.tags[t] = calls[p].b <=> t = calls[p].y
         /\ calls[p].b \notin OtherTags(p)
<1>1. CallFits(calls[p]) /\ db.tags[calls[p].y] = calls[p].b /\ calls[p].b # NoRow
  BY NoRowAssumption DEF StInv, Known, KnowsOther
<1>2. calls[p].y \in Held(calls[p])
  BY <1>1, HeldAre
<1>3. calls[p].b \notin OtherTags(p)
  BY <1>1, <1>2, HeldStay
<1> QED BY <1>1, <1>3 DEF UniqueNamesOf

LEMMA OwnFile ==
  ASSUME StInv, UniqueNamesOf(db), NEW p \in Threads, calls[p].op \in FileCalls,
         calls[p].at # "file", calls[p].y \in FileIds
  PROVE  /\ \A f \in FileIds :
              db.files[f] # NoRow /\ BaseName[db.files[f]] = calls[p].b <=> f = calls[p].y
         /\ calls[p].b \in {BaseName[q] : q \in PathsOf(db)}
<1>1. db.files[calls[p].y] # NoRow /\ BaseName[db.files[calls[p].y]] = calls[p].b
  BY DEF StInv, Known, KnowsFile
<1>2. db.files[calls[p].y] \in PathsOf(db)
  BY <1>1 DEF StInv, Tidy, Databases, FileTable, PathsOf
<1> QED BY <1>1, <1>2 DEF UniqueNamesOf

-----------------------------------------------------------------------------
(* What a change of the cells does to the tables by name.                  *)
LEMMA SameShown ==
  ASSUME db' = db, LeavingTags' = LeavingTags
  PROVE  UNCHANGED shown
BY DEF shown, ShownTags, ShownTagged, ShownBelow

LEMMA TagsSame ==
  ASSUME NEW d, NEW e, e.tags = d.tags
  PROVE  /\ TagsOf(e) = TagsOf(d)
         /\ e.files = d.files => PathsOf(e) = PathsOf(d)
         /\ e.files = d.files /\ e.fileAssoc = d.fileAssoc => TaggedOf(e) = TaggedOf(d)
         /\ e.tagAssoc = d.tagAssoc => BelowOf(e) = BelowOf(d)
BY DEF TagsOf, PathsOf, TaggedOf, BelowOf

(* The statement shows nothing, or is the one that does what its call does. *)
Effective(p) == UNCHANGED shown \/ (calls'[p] # calls[p] /\ Effect(calls[p]))

LEMMA ReadShown ==
  ASSUME StInv, NEW p \in Threads,
         NewName(p) \/ LastId(p) \/ FindFile(p) \/ FindTag(p) \/ FindOther(p) \/ Check(p)
  PROVE  UNCHANGED shown
<1>1. CallFits(calls[p]) /\ calls[p].at \in {"new", "max", "file", "tag", "other", "rows"}
  BY DEF StInv, NewName, LastId, FindFile, FindTag, FindOther, Check, At
<1>2. PICK c : Goes(p, c) /\ ~LeavesTag(c)
  <2>1. ~LeavesTag(Idle)
    BY DEF Idle, LeavesTag
  <2> HIDE DEF Idle
  <2>2. CASE NewName(p)
    <3>1. ~LeavesTag([calls[p] EXCEPT !.at = "max"])
      BY <1>1, CallGoesOn DEF LeavesTag
    <3> QED BY <2>1, <2>2, <3>1 DEF NewName
  <2>3. CASE LastId(p)
    <3>1. \A id : ~LeavesTag([calls[p] EXCEPT !.x = id, !.at = "insert"])
      BY <1>1, CallTakesX DEF LeavesTag
    <3> QED BY <2>3, <3>1 DEF LastId
  <2>4. CASE FindFile(p)
    <3> DEFINE id == get_file_id(db, calls[p].b)
    <3>2. Goes(p, IF id = KW_FAIL THEN Idle ELSE [calls[p] EXCEPT !.y = id, !.at = "tag"])
      BY <2>4 DEF FindFile, Found
    <3> HIDE DEF id
    <3>3. [calls[p] EXCEPT !.y = id, !.at = "tag"]
            = [op |-> calls[p].op, at |-> "tag", a |-> calls[p].a, b |-> calls[p].b,
               to |-> calls[p].to, x |-> calls[p].x, y |-> id]
      BY <1>1, CallTakesY
    <3>1. ~LeavesTag([calls[p] EXCEPT !.y = id, !.at = "tag"])
      BY <3>3 DEF LeavesTag
    <3> QED BY <2>1, <3>1, <3>2
  <2>5. CASE FindTag(p)
    <3> DEFINE at == CASE calls[p].op = "remove_tag" -> "relations"
                       [] calls[p].op = "tag_file"   -> "rows"
                       [] calls[p].op = "untag_file" -> "delete"
                       [] OTHER                      -> "other"
    <3>1. at \in {"relations", "rows", "delete", "other"}
      OBVIOUS
    <3> DEFINE id == get_tag_id(db, calls[p].a)
    <3>2. Goes(p, IF id = KW_FAIL THEN Idle ELSE [calls[p] EXCEPT !.x = id, !.at = at])
      BY <2>5 DEF FindTag, Found
    <3> HIDE DEF at, id
    <3>3. ~LeavesTag([calls[p] EXCEPT !.x = id, !.at = at])
      BY <1>1, <3>1, CallTakesX DEF LeavesTag
    <3> QED BY <2>1, <3>2, <3>3
  <2>6. CASE FindOther(p)
    <3> DEFINE id == get_tag_id(db, calls[p].b)
    <3>2. Goes(p, IF id = KW_FAIL THEN Idle ELSE [calls[p] EXCEPT !.y = id, !.at = "rows"])
      BY <2>6 DEF FindOther, Found
    <3> HIDE DEF id
    <3>3. [calls[p] EXCEPT !.y = id, !.at = "rows"]
            = [op |-> calls[p].op, at |-> "rows", a |-> calls[p].a, b |-> calls[p].b,
               to |-> calls[p].to, x |-> calls[p].x, y |-> id]
      BY <1>1, CallTakesY
    <3>1. ~LeavesTag([calls[p] EXCEPT !.y = id, !.at = "rows"])
      BY <3>3 DEF LeavesTag
    <3> QED BY <2>1, <3>1, <3>2
  <2>7. CASE Check(p)
    <3>1. ~LeavesTag([calls[p] EXCEPT !.at = "insert"])
      BY <1>1, CallGoesOn DEF LeavesTag
    <3> QED BY <2>1, <2>7, <3>1 DEF Check
  <2> QED BY <2>2, <2>3, <2>4, <2>5, <2>6, <2>7
<1>3. db' = db
  BY DEF NewName, LastId, FindFile, FindTag, FindOther, Check, Reads
<1>4. ~LeavesTag(calls[p])
  BY <1>1 DEF LeavesTag
<1>5. LeavingTags' = LeavingTags
  BY <1>2, <1>4, LeavingSplit
<1> QED BY <1>3, <1>5, SameShown

LEMMA BeginShown ==
  ASSUME StInv, NEW p \in Threads, Begin(p)
  PROVE  UNCHANGED shown
<1>1. calls[p] = Idle /\ db' = db
  BY DEF Begin, Reads
<1>2. PICK c \in Requests : calls' = [calls EXCEPT ![p] = c]
  BY DEF Begin
<1>3. \A q \in Threads : calls'[q] = IF q = p THEN c ELSE calls[q]
  BY <1>2 DEF StInv
<1>4. ~LeavesTag(c)
  BY DEF Requests, make_directory, remove_directory, remove_this_file, rename_this_file,
         copy_this_file, Call, LeavesTag
<1>5. ~LeavesTag(calls[p])
  BY <1>1 DEF Idle, LeavesTag
<1>6. LeavingTags' = LeavingTags
  BY <1>3, <1>4, <1>5 DEF LeavingTags, LeavesTag
<1> QED BY <1>1, <1>6, SameShown

-----------------------------------------------------------------------------
LEMMA NextAt ==
  ASSUME NEW c
  PROVE  AfterCall(c).at \in {"tag", "file", "none"} /\ Idle.at = "none"
BY DEF AfterCall, Idle, Call

(* The calls that are no removals: what the names are before and after.    *)
LEMMA EndsCall ==
  ASSUME StInv, NEW p \in Threads, NEW n, Goes(p, n), n \in {AfterCall(calls[p]), Idle},
         calls[p].at \in {"insert", "delete"}
  PROVE  /\ calls'[p] # calls[p]
         /\ LeavingTags' = LeavingTags /\ LeavingTags = OtherTags(p)
<1>1. n.at \in {"tag", "file", "none"}
  BY NextAt
<1>2. calls'[p] = n
  BY GoesOn
<1>3. ~LeavesTag(n) /\ ~LeavesTag(calls[p])
  BY <1>1 DEF LeavesTag
<1>4. LeavingTags' = LeavingTags /\ LeavingTags = OtherTags(p)
  BY <1>3, LeavingSplit
<1> QED BY <1>1, <1>2, <1>4

(* The row of a new tag: its name was not there, and nothing was about its *)
(* id.                                                                     *)
LEMMA AddedTagShown ==
  ASSUME Clear, NEW p \in Threads, calls[p].op = "add_tag", calls[p].at = "insert",
         LeavingTags' = LeavingTags, Insertable(db.tags, calls[p].x),
         db' = [db EXCEPT !.tags[calls[p].x] = calls[p].a]
  PROVE  Names!TagAdded(calls[p].a)
<1> DEFINE x == calls[p].x
           n == calls[p].a
<1>1. db \in Databases /\ CallFits(calls[p])
  BY DEF Clear, StInv, Tidy
<1>2. n \in TagNames /\ n # NoRow
  BY <1>1, NoRowAssumption DEF CallFits, Idle, FileCalls
<1>3. x \in TagIds /\ db.tags[x] = NoRow
  BY <1>1 DEF Insertable, Databases, TagTable
<1> HIDE DEF x, n
<1>4. /\ db'.files = db.files /\ db'.fileAssoc = db.fileAssoc /\ db'.tagAssoc = db.tagAssoc
      /\ \A t \in TagIds : db'.tags[t] = IF t = x THEN n ELSE db.tags[t]
  BY <1>1, <1>2, <1>3, SetTag DEF x, n
<1>5. \A t \in TagIds : db.tags[t] # n
  BY <1>2, <1>3, <1>4 DEF Clear, UniqueNamesOf
<1>6. n \notin LeavingTags
  <2>1. \A q \in Threads : LeavesTag(calls[q]) => calls[q].a # n
    BY <1>5, LeavingHas DEF Clear
  <2> QED BY <2>1 DEF LeavingTags, LeavesTag
<1>7. NoFilesUnder(db, x) /\ NoRelationsOf(db, x)
  BY <1>3 DEF Clear, StInv, Tidy, Dangling
<1>8. TagsOf(db') = TagsOf(db) \cup {n} /\ n \notin TagsOf(db)
  BY <1>2, <1>3, <1>4, <1>5, NoRowAssumption DEF TagsOf
<1>9. PathsOf(db') = PathsOf(db)
  BY <1>4 DEF PathsOf
<1>10. TaggedOf(db') = TaggedOf(db)
  <2>1. \A t \in TagIds, f \in FileIds : db.fileAssoc[t][f] > 0 => db'.tags[t] = db.tags[t]
    BY <1>4, <1>7 DEF NoFilesUnder
  <2> QED BY <1>4, <2>1 DEF TaggedOf
<1>11. BelowOf(db') = BelowOf(db)
  <2>1. \A t, u \in TagIds, i \in AssocIds :
          db.tagAssoc[t][u][i] > 0 => db'.tags[t] = db.tags[t] /\ db'.tags[u] = db.tags[u]
    BY <1>4, <1>7 DEF NoRelationsOf
  <2>2. \A r \in TagNames \X TagNames \X AssocIds : r[3] \in AssocIds
    OBVIOUS
  <2> QED BY <1>4, <2>1, <2>2 DEF BelowOf
<1>12. n \notin ShownTags /\ ShownTags' = ShownTags \cup {n}
  BY <1>6, <1>8 DEF ShownTags
<1>13. ShownTagged' = ShownTagged /\ ShownBelow' = ShownBelow
  BY <1>10, <1>11 DEF ShownTagged, ShownBelow
<1> QED BY <1>9, <1>12, <1>13 DEF Names!TagAdded, n

(* A row that puts a file under a tag: a second one is not to be told from *)
(* the first.                                                              *)
LEMMA TaggedFileShown ==
  ASSUME Clear, NEW p \in Threads, calls[p].op = "tag_file", calls[p].at = "insert",
         LeavingTags' = LeavingTags, LeavingTags = OtherTags(p), db' = Inserted(calls[p])
  PROVE  UNCHANGED shown \/ Names!FileTagged(calls[p].a, calls[p].b)
<1> DEFINE x == calls[p].x
           y == calls[p].y
           a == calls[p].a
           b == calls[p].b
           k == db.fileAssoc[x][y]
<1>1. db \in Databases /\ CallFits(calls[p])
  BY DEF Clear, StInv, Tidy
<1>2. x \in TagIds /\ y \in FileIds /\ a \in TagNames /\ b \in FileNames
  BY <1>1 DEF CallFits, Idle, FileCalls
<1>3. /\ \A t \in TagIds : db.tags[t] = a <=> t = x
      /\ a \notin LeavingTags
  BY <1>2, OwnTag DEF Clear, Holding
<1>4. /\ \A f \in FileIds : db.files[f] # NoRow /\ BaseName[db.files[f]] = b <=> f = y
      /\ b \in {BaseName[q] : q \in PathsOf(db)}
  BY <1>2, OwnFile DEF Clear, FileCalls
<1> DEFINE m == k + 1
<1>5. k \in Nat /\ m \in Nat /\ m > 0
  BY <1>1, <1>2 DEF Databases, FileAssociationTable
<1>6. db' = [db EXCEPT !.fileAssoc[x][y] = m]
  BY DEF Inserted
<1> HIDE DEF x, y, a, b, k, m
<1>7. /\ db'.tags = db.tags /\ db'.files = db.files /\ db'.tagAssoc = db.tagAssoc
      /\ \A t \in TagIds, f \in FileIds :
            db'.fileAssoc[t][f] = IF t = x /\ f = y THEN m ELSE db.fileAssoc[t][f]
  BY <1>1, <1>2, <1>5, <1>6, SetRow
<1>8. TagsOf(db') = TagsOf(db) /\ PathsOf(db') = PathsOf(db) /\ BelowOf(db') = BelowOf(db)
  BY <1>7, TagsSame
<1>9. ShownTags' = ShownTags /\ ShownBelow' = ShownBelow
  BY <1>8 DEF ShownTags, ShownBelow
<1>10. k = db.fileAssoc[x][y]
  BY DEF k
<1>11. CASE k > 0
  <2>1. \A t \in TagIds, f \in FileIds : db'.fileAssoc[t][f] > 0 <=> db.fileAssoc[t][f] > 0
    BY <1>5, <1>7, <1>10, <1>11
  <2>2. TaggedOf(db') = TaggedOf(db)
    BY <1>7, <2>1 DEF TaggedOf
  <2>3. ShownTagged' = ShownTagged
    BY <2>2 DEF ShownTagged
  <2> QED BY <1>8, <1>9, <2>3 DEF shown
<1>12. CASE ~(k > 0)
  <2>1. \A t \in TagIds, f \in FileIds :
          db'.fileAssoc[t][f] > 0 <=> (t = x /\ f = y) \/ db.fileAssoc[t][f] > 0
    BY <1>5, <1>7, <1>10
  <2>2. TaggedOf(db') = TaggedOf(db) \cup {<<a, b>>}
    <3>1. \A r \in TagNames \X FileNames : r \in TaggedOf(db') <=>
            \E t \in TagIds, f \in FileIds :
              /\ (t = x /\ f = y) \/ db.fileAssoc[t][f] > 0
              /\ db.tags[t] = r[1] /\ db.files[f] # NoRow /\ BaseName[db.files[f]] = r[2]
      BY <1>7, <2>1 DEF TaggedOf
    <3>2. /\ db.tags[x] = a /\ db.files[y] # NoRow /\ BaseName[db.files[y]] = b
      BY <1>2, <1>3, <1>4
    <3>3. \A r \in TagNames \X FileNames :
            r \in TaggedOf(db') <=> r \in TaggedOf(db) \/ (r[1] = a /\ r[2] = b)
      BY <1>2, <3>1, <3>2 DEF TaggedOf
    <3>4. TaggedOf(db') \subseteq TagNames \X FileNames /\ TaggedOf(db) \subseteq TagNames \X FileNames
      BY DEF TaggedOf
    <3>5. \A r \in TagNames \X FileNames : r = <<a, b>> <=> r[1] = a /\ r[2] = b
      OBVIOUS
    <3>6. <<a, b>> \in TagNames \X FileNames
      BY <1>2
    <3> QED BY <3>3, <3>4, <3>5, <3>6
  <2>3. <<a, b>> \notin TaggedOf(db)
    BY <1>3, <1>4, <1>10, <1>12 DEF TaggedOf
  <2>4. a \in ShownTags
    BY <1>2, <1>3 DEF ShownTags, TagsOf
  <2>5. <<a, b>> \notin ShownTagged /\ ShownTagged' = ShownTagged \cup {<<a, b>>}
    BY <1>3, <2>2, <2>3 DEF ShownTagged
  <2>6. b \in Names!Names
    BY <1>4 DEF Names!Names
  <2> QED BY <1>8, <1>9, <2>4, <2>5, <2>6 DEF Names!FileTagged, a, b
<1> QED BY <1>11, <1>12

(* So it is with the row that relates two tags.                            *)
LEMMA RelatedTagsShown ==
  ASSUME Clear, NEW p \in Threads, calls[p].op = "add_association", calls[p].at = "insert",
         LeavingTags' = LeavingTags, LeavingTags = OtherTags(p), db' = Inserted(calls[p])
  PROVE  UNCHANGED shown \/ Names!TagsRelated(calls[p].a, calls[p].b, ASSOC_SUBGROUP)
<1> DEFINE x == calls[p].x
           y == calls[p].y
           a == calls[p].a
           b == calls[p].b
           s == ASSOC_SUBGROUP
           k == db.tagAssoc[x][y][s]
<1>1. db \in Databases /\ CallFits(calls[p]) /\ OnlySubgroups(db)
  BY DEF Clear, StInv, Tidy
<1>2. x \in TagIds /\ y \in TagIds /\ a \in TagNames /\ b \in TagNames /\ s \in AssocIds
  BY <1>1, ThreadsAssumption DEF CallFits, Idle, FileCalls
<1>3. /\ \A t \in TagIds : db.tags[t] = a <=> t = x
      /\ a \notin LeavingTags
  BY <1>2, OwnTag DEF Clear, Holding
<1>4. /\ \A t \in TagIds : db.tags[t] = b <=> t = y
      /\ b \notin LeavingTags
  BY <1>2, OwnOther DEF Clear
<1> DEFINE m == k + 1
<1>5. k \in Nat /\ m \in Nat /\ m > 0
  BY <1>1, <1>2 DEF Databases, TagAssociationTable
<1>6. db' = WithRelation(db, x, y, s, m)
  BY Zenon DEF Inserted, WithRelation
<1>16. k = db.tagAssoc[x][y][s]
  OBVIOUS
<1>7. \A i \in AssocIds : i # s => db.tagAssoc[x][y][i] = 0
  BY <1>1, <1>2 DEF OnlySubgroups
<1> HIDE DEF x, y, a, b, s, k, m
<1>8. OnlyRelation(db, db', x, y, s, m)
  BY <1>1, <1>2, <1>5, <1>6, SetRelation
<1>9. db'.tags = db.tags /\ db'.files = db.files /\ db'.fileAssoc = db.fileAssoc
  BY <1>8 DEF OnlyRelation
<1>10. TagsOf(db') = TagsOf(db) /\ PathsOf(db') = PathsOf(db) /\ TaggedOf(db') = TaggedOf(db)
  BY <1>9, TagsSame
<1>11. ShownTags' = ShownTags /\ ShownTagged' = ShownTagged
  BY <1>10 DEF ShownTags, ShownTagged
<1>12. \A t, u \in TagIds, i \in AssocIds :
         db'.tagAssoc[t][u][i] = IF t = x /\ u = y /\ i = s THEN m ELSE db.tagAssoc[t][u][i]
  BY <1>8 DEF OnlyRelation
<1>13. \A r \in TagNames \X TagNames \X AssocIds : r[3] \in AssocIds
  OBVIOUS
<1>14. CASE k > 0
  <2>1. \A t, u \in TagIds, i \in AssocIds : db'.tagAssoc[t][u][i] > 0 <=> db.tagAssoc[t][u][i] > 0
    <3>1. TAKE t, u \in TagIds, i \in AssocIds
    <3>2. CASE t = x /\ u = y /\ i = s
      BY <1>5, <1>12, <1>14, <1>16, <3>2
    <3>3. CASE ~(t = x /\ u = y /\ i = s)
      BY <1>12, <3>3
    <3> QED BY <3>2, <3>3
  <2>2. BelowOf(db') = BelowOf(db)
    BY <1>9, <1>13, <2>1 DEF BelowOf
  <2>3. ShownBelow' = ShownBelow
    BY <2>2 DEF ShownBelow
  <2> QED BY <1>10, <1>11, <2>3 DEF shown
<1>15. CASE ~(k > 0)
  <2>1. \A t, u \in TagIds, i \in AssocIds :
          db'.tagAssoc[t][u][i] > 0 <=> (t = x /\ u = y /\ i = s) \/ db.tagAssoc[t][u][i] > 0
    BY <1>5, <1>12
  <2>2. BelowOf(db') = BelowOf(db) \cup {<<a, b, s>>}
    <3>1. \A r \in TagNames \X TagNames \X AssocIds : r \in BelowOf(db') <=>
            \E t, u \in TagIds :
              /\ (t = x /\ u = y /\ r[3] = s) \/ db.tagAssoc[t][u][r[3]] > 0
              /\ db.tags[t] = r[1] /\ db.tags[u] = r[2]
      BY <1>9, <1>13, <2>1 DEF BelowOf
    <3>2. db.tags[x] = a /\ db.tags[y] = b
      BY <1>2, <1>3, <1>4
    <3>3. \A r \in TagNames \X TagNames \X AssocIds :
            r \in BelowOf(db') <=> r \in BelowOf(db) \/ (r[1] = a /\ r[2] = b /\ r[3] = s)
      BY <1>2, <3>1, <3>2 DEF BelowOf
    <3>4. /\ BelowOf(db') \subseteq TagNames \X TagNames \X AssocIds
          /\ BelowOf(db) \subseteq TagNames \X TagNames \X AssocIds
      BY DEF BelowOf
    <3>5. \A r \in TagNames \X TagNames \X AssocIds :
            r = <<a, b, s>> <=> r[1] = a /\ r[2] = b /\ r[3] = s
      OBVIOUS
    <3>6. <<a, b, s>> \in TagNames \X TagNames \X AssocIds
      BY <1>2
    <3> QED BY <3>3, <3>4, <3>5, <3>6
  <2>3. \A i \in AssocIds : <<a, b, i>> \notin BelowOf(db)
    <3>1. \A i \in AssocIds : ~(db.tagAssoc[x][y][i] > 0)
      BY <1>7, <1>15, <1>16
    <3> QED BY <1>3, <1>4, <3>1 DEF BelowOf
  <2>4. a \in ShownTags /\ b \in ShownTags
    BY <1>2, <1>3, <1>4 DEF ShownTags, TagsOf
  <2>5. /\ \A i \in AssocIds : <<a, b, i>> \notin ShownBelow
        /\ ShownBelow' = ShownBelow \cup {<<a, b, s>>}
    BY <1>3, <1>4, <2>2, <2>3 DEF ShownBelow
  <2> QED BY <1>10, <1>11, <2>4, <2>5 DEF Names!TagsRelated, a, b, s
<1> QED BY <1>14, <1>15

LEMMA InsertShown ==
  ASSUME Clear, NEW p \in Threads, Insert(p)
  PROVE  Effective(p)
<1> DEFINE c == calls[p]
           n == IF ~locked /\ (c.op = "add_tag" => Insertable(db.tags, c.x))
                THEN AfterCall(c) ELSE Idle
<1>1. StInv /\ CallFits(c) /\ c.at = "insert" /\ Goes(p, n) /\ Writes(Inserted(c))
  BY DEF Clear, StInv, Insert, At
<1>2. n \in {AfterCall(c), Idle}
  OBVIOUS
<1> HIDE DEF n
<1>3. calls'[p] # c /\ LeavingTags' = LeavingTags /\ LeavingTags = OtherTags(p)
  BY <1>1, <1>2, EndsCall
<1>4. c.op \in {"add_tag", "tag_file", "add_association"}
  BY <1>1 DEF CallFits, Idle, FileCalls
<1>5. db' = db \/ db' = Inserted(c)
  BY <1>1 DEF Writes
<1> SUFFICES UNCHANGED shown \/ Effect(c)
  BY <1>3 DEF Effective
<1>6. CASE db' = db
  BY <1>3, <1>6, SameShown
<1>7. CASE db' = Inserted(c) /\ c.op = "add_tag"
  <2>1. CASE Insertable(db.tags, c.x)
    <3>1. db' = [db EXCEPT !.tags[c.x] = c.a]
      BY <1>7, <2>1 DEF Inserted
    <3> QED BY <1>1, <1>3, <1>7, <2>1, <3>1, AddedTagShown DEF Effect
  <2>2. CASE ~Insertable(db.tags, c.x)
    <3>1. db' = db
      BY <1>7, <2>2 DEF Inserted
    <3> QED BY <1>6, <3>1
  <2> QED BY <2>1, <2>2
<1>8. CASE db' = Inserted(c) /\ c.op = "tag_file"
  BY <1>1, <1>3, <1>8, TaggedFileShown DEF Effect
<1>9. CASE db' = Inserted(c) /\ c.op = "add_association"
  BY <1>1, <1>3, <1>9, RelatedTagsShown DEF Effect
<1> QED BY <1>4, <1>5, <1>6, <1>7, <1>8, <1>9

LEMMA DeleteShown ==
  ASSUME Clear, NEW p \in Threads, Delete(p)
  PROVE  Effective(p)
<1> DEFINE c == calls[p]
           n == IF locked THEN Idle ELSE AfterCall(c)
<1>1. /\ StInv /\ CallFits(c) /\ c.at = "delete" /\ Goes(p, n) /\ db \in Databases
      /\ Writes([db EXCEPT !.fileAssoc[c.x][c.y] = 0])
  BY DEF Clear, StInv, Delete, At, Tidy
<1>2. n \in {AfterCall(c), Idle}
  OBVIOUS
<1> HIDE DEF n
<1>3. calls'[p] # c /\ LeavingTags' = LeavingTags /\ LeavingTags = OtherTags(p)
  BY <1>1, <1>2, EndsCall
<1>4. /\ c.op = "untag_file" /\ c.x \in TagIds /\ c.y \in FileIds
      /\ c.a \in TagNames /\ c.b \in FileNames
  BY <1>1 DEF CallFits, Idle, FileCalls
<1>5. db' = db \/ db' = [db EXCEPT !.fileAssoc[c.x][c.y] = 0]
  BY <1>1 DEF Writes
<1> SUFFICES UNCHANGED shown \/ Effect(c)
  BY <1>3 DEF Effective
<1>6. CASE db' = db
  BY <1>3, <1>6, SameShown
<1>7. CASE db' = [db EXCEPT !.fileAssoc[c.x][c.y] = 0]
  <2>1. /\ \A t \in TagIds : db.tags[t] = c.a <=> t = c.x
        /\ c.a \notin LeavingTags
    BY <1>3, <1>4, OwnTag DEF Clear, Holding
  <2>2. /\ \A f \in FileIds : db.files[f] # NoRow /\ BaseName[db.files[f]] = c.b <=> f = c.y
        /\ c.b \in {BaseName[q] : q \in PathsOf(db)}
    BY <1>1, <1>4, OwnFile DEF Clear, FileCalls
  <2> DEFINE x == c.x
             y == c.y
             a == c.a
             b == c.b
  <2>3. db' = [db EXCEPT !.fileAssoc[x][y] = 0] /\ x \in TagIds /\ y \in FileIds
    BY <1>4, <1>7
  <2>4. \A t \in TagIds : db.tags[t] = a <=> t = x
    BY <2>1
  <2>5. \A f \in FileIds : db.files[f] # NoRow /\ BaseName[db.files[f]] = b <=> f = y
    BY <2>2
  <2>6. a \notin LeavingTags /\ b \in {BaseName[q] : q \in PathsOf(db)} /\ a \in TagNames
    BY <1>4, <2>1, <2>2
  <2> HIDE DEF x, y, a, b, c
  <2>7. /\ db'.tags = db.tags /\ db'.files = db.files /\ db'.tagAssoc = db.tagAssoc
        /\ \A t \in TagIds, f \in FileIds :
              db'.fileAssoc[t][f] = IF t = x /\ f = y THEN 0 ELSE db.fileAssoc[t][f]
    BY <1>1, <2>3, SetRow
  <2>8. TagsOf(db') = TagsOf(db) /\ PathsOf(db') = PathsOf(db) /\ BelowOf(db') = BelowOf(db)
    BY <2>7, TagsSame
  <2>9. TaggedOf(db') = TaggedOf(db) \ {<<a, b>>}
    BY <2>4, <2>5, <2>7 DEF TaggedOf
  <2>10. a \in ShownTags
    BY <2>3, <2>4, <2>6 DEF ShownTags, TagsOf
  <2>11. ShownTags' = ShownTags /\ ShownBelow' = ShownBelow /\ ShownTagged' = ShownTagged \ {<<a, b>>}
    BY <1>3, <2>8, <2>9 DEF ShownTags, ShownBelow, ShownTagged
  <2>12. b \in Names!Names
    BY <2>6 DEF Names!Names
  <2>13. Names!FileUntagged(a, b)
    BY <2>8, <2>10, <2>11, <2>12 DEF Names!FileUntagged
  <2> QED BY <1>4, <2>13 DEF Effect, a, b
<1> QED BY <1>5, <1>6, <1>7

-----------------------------------------------------------------------------
(* A removal at its deletes, none of which fails.                          *)
LEMMA Removing ==
  ASSUME Clear, NEW p \in Threads, NEW at, Goes(p, [calls[p] EXCEPT !.at = at]),
         calls[p].at \in {"relations", "files"}, at \in {"files", "row"}, at # calls[p].at
  PROVE  /\ db \in Databases /\ ~locked /\ calls'[p] # calls[p]
         /\ calls[p].op = "remove_tag" /\ calls[p].a \in TagNames /\ calls[p].x \in TagIds
         /\ \A t \in TagIds : db.tags[t] = calls[p].a <=> t = calls[p].x
         /\ LeavingTags' = OtherTags(p) \cup {calls[p].a} /\ calls[p].a \notin OtherTags(p)
         /\ LeavingTags = OtherTags(p) \cup {n \in {calls[p].a} : LeavesTag(calls[p])}
<1> DEFINE c == calls[p]
           n == [c EXCEPT !.at = at]
<1>1. StInv /\ CallFits(c) /\ db \in Databases /\ loose' = {}
  BY DEF Clear, StInv, Tidy
<1>2. n = [op |-> c.op, at |-> at, a |-> c.a, b |-> c.b, to |-> c.to, x |-> c.x, y |-> c.y]
  BY <1>1, CallGoesOn
<1>3. c.op = "remove_tag" /\ c.a \in TagNames /\ c.x \in TagIds
  BY <1>1 DEF CallFits, Idle, FileCalls
<1>4. ~locked
  BY <1>1 DEF Goes, Torn
<1>5. calls'[p] = n
  BY <1>1, GoesOn
<1>6. /\ LeavingTags' = OtherTags(p) \cup {m \in {n.a} : LeavesTag(n)}
      /\ LeavingTags = OtherTags(p) \cup {m \in {c.a} : LeavesTag(c)}
  BY <1>1, LeavingSplit
<1>7. n.op = c.op /\ n.a = c.a /\ n.at = at
  BY <1>2
<1> HIDE DEF n
<1>8. LeavesTag(n)
  BY <1>3, <1>7 DEF LeavesTag
<1>9. /\ \A t \in TagIds : db.tags[t] = c.a <=> t = c.x
      /\ c.a \notin OtherTags(p)
  BY <1>1, <1>3, OwnTag DEF Clear, Holding
<1>10. LeavingTags' = OtherTags(p) \cup {c.a}
  BY <1>6, <1>7, <1>8
<1>11. calls'[p] # c
  BY <1>5, <1>7
<1> QED BY <1>1, <1>3, <1>4, <1>6, <1>9, <1>10, <1>11

(* Its first delete is the one the others see.                             *)
LEMMA DeleteRelationsShown ==
  ASSUME Clear, NEW p \in Threads, DeleteRelations(p)
  PROVE  Effective(p)
<1> DEFINE x == calls[p].x
           a == calls[p].a
           table == [t \in TagIds |-> [u \in TagIds |-> [i \in AssocIds |->
                       IF t = x \/ u = x THEN 0 ELSE db.tagAssoc[t][u][i]]]]
<1>1. /\ calls[p].at = "relations" /\ Goes(p, [calls[p] EXCEPT !.at = "files"])
      /\ Writes([db EXCEPT !.tagAssoc = table])
  BY DEF DeleteRelations, At
<1>2. /\ db \in Databases /\ ~locked /\ calls'[p] # calls[p] /\ calls[p].op = "remove_tag"
      /\ a \in TagNames /\ x \in TagIds /\ \A t \in TagIds : db.tags[t] = a <=> t = x
      /\ LeavingTags' = OtherTags(p) \cup {a} /\ a \notin OtherTags(p)
      /\ LeavingTags = OtherTags(p) \cup {n \in {a} : LeavesTag(calls[p])}
  BY <1>1, Removing
<1>3. LeavingTags = OtherTags(p)
  BY <1>1, <1>2 DEF LeavesTag
<1>4. db' = [db EXCEPT !.tagAssoc = table]
  BY <1>1, <1>2 DEF Writes
<1>5. \A t, u \in TagIds, i \in AssocIds :
        table[t][u][i] = IF t = x \/ u = x THEN 0 ELSE db.tagAssoc[t][u][i]
  OBVIOUS
<1>6. table \in TagAssociationTable
  BY <1>2 DEF Databases, TagAssociationTable
<1> HIDE DEF table, x, a
<1>7. /\ db'.tagAssoc = table
      /\ db'.tags = db.tags /\ db'.files = db.files /\ db'.fileAssoc = db.fileAssoc
  BY <1>2, <1>4, <1>6, SetRelations
<1>8. TagsOf(db') = TagsOf(db) /\ PathsOf(db') = PathsOf(db) /\ TaggedOf(db') = TaggedOf(db)
  BY <1>7, TagsSame
<1>9. BelowOf(db') = {r \in BelowOf(db) : r[1] # a /\ r[2] # a}
  <2>1. \A r \in TagNames \X TagNames \X AssocIds : r[3] \in AssocIds
    OBVIOUS
  <2> QED BY <1>2, <1>5, <1>7, <2>1 DEF BelowOf
<1>10. Names!TagRemoved(a)
  <2>1. a \in ShownTags
    BY <1>2, <1>3 DEF ShownTags, TagsOf
  <2>2. ShownTags' = ShownTags \ {a}
    BY <1>2, <1>3, <1>8 DEF ShownTags
  <2>3. ShownTagged' = {r \in ShownTagged : r[1] # a}
    BY <1>2, <1>3, <1>8 DEF ShownTagged
  <2>4. ShownBelow' = {r \in ShownBelow : r[1] # a /\ r[2] # a}
    BY <1>2, <1>3, <1>9 DEF ShownBelow
  <2> QED BY <1>8, <2>1, <2>2, <2>3, <2>4 DEF Names!TagRemoved
<1> QED BY <1>2, <1>10 DEF Effective, Effect, a

(* The others come after what they see.                                    *)
LEMMA DeleteFilesShown ==
  ASSUME Clear, NEW p \in Threads, DeleteFiles(p)
  PROVE  UNCHANGED shown
<1> DEFINE x == calls[p].x
           a == calls[p].a
           none == [f \in FileIds |-> 0]
           table == [db.fileAssoc EXCEPT ![x] = none]
<1>1. /\ calls[p].at = "files" /\ Goes(p, [calls[p] EXCEPT !.at = "row"])
      /\ Writes([db EXCEPT !.fileAssoc[x] = none])
  BY DEF DeleteFiles, At
<1>2. /\ db \in Databases /\ ~locked /\ calls[p].op = "remove_tag"
      /\ a \in TagNames /\ x \in TagIds /\ \A t \in TagIds : db.tags[t] = a <=> t = x
      /\ LeavingTags' = OtherTags(p) \cup {a}
      /\ LeavingTags = OtherTags(p) \cup {n \in {a} : LeavesTag(calls[p])}
  BY <1>1, Removing
<1>3. LeavingTags' = LeavingTags /\ a \in LeavingTags
  BY <1>1, <1>2 DEF LeavesTag
<1>4. db' = [db EXCEPT !.fileAssoc = table]
  BY <1>1, <1>2 DEF Writes
<1>5. none \in [FileIds -> Nat] /\ \A f \in FileIds : none[f] = 0
  OBVIOUS
<1> HIDE DEF none, x, a
<1>6. table \in FileAssociationTable
  BY <1>2, <1>5 DEF Databases, FileAssociationTable
<1>7. \A t \in TagIds : table[t] = IF t = x THEN none ELSE db.fileAssoc[t]
  BY <1>2 DEF Databases, FileAssociationTable
<1> HIDE DEF table
<1>8. /\ db'.fileAssoc = table
      /\ db'.tags = db.tags /\ db'.files = db.files /\ db'.tagAssoc = db.tagAssoc
  BY <1>2, <1>4, <1>6, SetRows
<1>9. \A t \in TagIds, f \in FileIds :
        db'.fileAssoc[t][f] = IF t = x THEN 0 ELSE db.fileAssoc[t][f]
  BY <1>5, <1>7, <1>8
<1>10. TagsOf(db') = TagsOf(db) /\ PathsOf(db') = PathsOf(db) /\ BelowOf(db') = BelowOf(db)
  BY <1>8, TagsSame
<1>11. TaggedOf(db') = {r \in TaggedOf(db) : r[1] # a}
  BY <1>2, <1>8, <1>9 DEF TaggedOf
<1>12. ShownTagged' = ShownTagged
  BY <1>3, <1>11 DEF ShownTagged
<1>13. ShownTags' = ShownTags /\ ShownBelow' = ShownBelow
  BY <1>3, <1>10 DEF ShownTags, ShownBelow
<1> QED BY <1>10, <1>12, <1>13 DEF shown

(* When its row goes, nothing is about the tag any more.                   *)
LEMMA DeleteRowShown ==
  ASSUME Clear, NEW p \in Threads, DeleteRow(p), ~locked
  PROVE  UNCHANGED shown
<1> DEFINE x == calls[p].x
           a == calls[p].a
<1>1. /\ StInv /\ CallFits(calls[p]) /\ Emptied(db, {}, calls[p]) /\ calls[p].at = "row"
      /\ Goes(p, Idle) /\ db \in Databases
  BY DEF Clear, StInv, Tidy, Known, DeleteRow, At
<1>2. calls[p].op = "remove_tag" /\ a \in TagNames /\ x \in TagIds
  BY <1>1 DEF CallFits, Idle, FileCalls
<1>3. /\ \A t \in TagIds : db.tags[t] = a <=> t = x
      /\ a \notin OtherTags(p)
  BY <1>1, <1>2, OwnTag DEF Clear, Holding
<1>4. ~LeavesTag(Idle) /\ LeavesTag(calls[p])
  BY <1>1, <1>2 DEF Idle, LeavesTag
<1>5. LeavingTags = OtherTags(p) \cup {a} /\ LeavingTags' = OtherTags(p)
  BY <1>1, <1>4, LeavingSplit
<1>6. db' = [db EXCEPT !.tags[x] = NoRow]
  BY DEF DeleteRow, Writes
<1>7. NoFilesUnder(db, x) /\ NoRelationsOf(db, x)
  BY <1>1, <1>2 DEF Emptied
<1> HIDE DEF x, a
<1>8. /\ db'.files = db.files /\ db'.fileAssoc = db.fileAssoc /\ db'.tagAssoc = db.tagAssoc
      /\ \A t \in TagIds : db'.tags[t] = IF t = x THEN NoRow ELSE db.tags[t]
  BY <1>1, <1>2, <1>6, SetTag
<1>9. TagsOf(db') = TagsOf(db) \ {a}
  BY <1>3, <1>8, NoRowAssumption DEF TagsOf
<1>10. PathsOf(db') = PathsOf(db)
  BY <1>8 DEF PathsOf
<1>11. TaggedOf(db') = TaggedOf(db) /\ \A r \in TaggedOf(db) : r[1] # a
  <2>1. \A t \in TagIds, f \in FileIds : db.fileAssoc[t][f] > 0 => t # x /\ db'.tags[t] = db.tags[t]
    BY <1>7, <1>8 DEF NoFilesUnder
  <2> QED BY <1>3, <1>8, <2>1 DEF TaggedOf
<1>12. BelowOf(db') = BelowOf(db) /\ \A r \in BelowOf(db) : r[1] # a /\ r[2] # a
  <2>1. \A t, u \in TagIds, i \in AssocIds : db.tagAssoc[t][u][i] > 0 =>
          t # x /\ u # x /\ db'.tags[t] = db.tags[t] /\ db'.tags[u] = db.tags[u]
    BY <1>7, <1>8 DEF NoRelationsOf
  <2>2. \A r \in TagNames \X TagNames \X AssocIds : r[3] \in AssocIds
    OBVIOUS
  <2> QED BY <1>3, <1>8, <2>1, <2>2 DEF BelowOf
<1>13. ShownTags' = ShownTags
  BY <1>5, <1>9 DEF ShownTags
<1>14. ShownTagged' = ShownTagged /\ ShownBelow' = ShownBelow
  BY <1>5, <1>11, <1>12 DEF ShownTagged, ShownBelow
<1> QED BY <1>10, <1>13, <1>14 DEF shown

(* A step that nothing has cut short.                                      *)
LEMMA StepShown ==
  ASSUME Clear, StatementsNext, ~Crash, ~(locked /\ \E p \in Threads : DeleteRow(p))
  PROVE  \/ UNCHANGED shown
         \/ \E p \in Threads : calls'[p] # calls[p] /\ Effect(calls[p])
<1>0. StInv
  BY DEF Clear
<1>1. CASE Reader
  <2>1. db' = db /\ calls' = calls
    BY <1>1 DEF Reader
  <2>2. LeavingTags' = LeavingTags
    BY <2>1 DEF LeavingTags
  <2> QED BY <2>1, <2>2, SameShown
<1>2. ASSUME NEW p \in Threads, Begin(p) PROVE UNCHANGED shown
  BY <1>0, <1>2, BeginShown
<1>3. ASSUME NEW p \in Threads, Statement(p) PROVE Effective(p)
  <2>1. CASE NewName(p) \/ LastId(p) \/ FindFile(p) \/ FindTag(p) \/ FindOther(p) \/ Check(p)
    BY <1>0, <2>1, ReadShown DEF Effective
  <2>2. CASE Insert(p)
    BY <2>2, InsertShown
  <2>3. CASE Delete(p)
    BY <2>3, DeleteShown
  <2>4. CASE DeleteRelations(p)
    BY <2>4, DeleteRelationsShown
  <2>5. CASE DeleteFiles(p)
    BY <2>5, DeleteFilesShown DEF Effective
  <2>6. CASE DeleteRow(p)
    BY <2>6, DeleteRowShown DEF Effective
  <2> QED BY <1>3, <2>1, <2>2, <2>3, <2>4, <2>5, <2>6 DEF Statement
<1> QED BY <1>1, <1>2, <1>3 DEF StatementsNext, Effective

LEMMA LooseStays ==
  ASSUME StInv, [StatementsNext]_statementVars
  PROVE  loose \subseteq loose'
<1>1. ASSUME NEW p \in Threads, Statement(p) PROVE loose \subseteq loose'
  BY <1>1, StatementAdvances, GoesOn DEF Advances, Moves
<1>2. ASSUME NEW p \in Threads, Begin(p) PROVE loose' = loose
  BY <1>2 DEF Begin
<1>3. Reader \/ Crash \/ UNCHANGED statementVars => loose' = loose
  BY DEF Reader, Crash, statementVars
<1> QED BY <1>1, <1>2, <1>3 DEF StatementsNext

(* Whatever statements of other calls come between its own, about other    *)
(* names or the same, each call has on the names the effect KwestTagStore  *)
(* gives it, and has it in one step; but for crashes, deletes that fail,   *)
(* tags that are removed while another call holds their ids, and names     *)
(* that are there twice.                                                   *)
THEOREM StatementsAreAtomic == Statements => CallsAreAtomic
<1> DEFINE Atomic == \/ CutShort
                     \/ UNCHANGED shown
                     \/ \E p \in Threads : calls'[p] # calls[p] /\ Effect(calls[p])
<1>1. StInv /\ [StatementsNext]_statementVars => [Atomic]_statementVars
  <2>1. SUFFICES ASSUME StInv, StatementsNext, ~CutShort
                 PROVE  \/ UNCHANGED shown
                        \/ \E p \in Threads : calls'[p] # calls[p] /\ Effect(calls[p])
    BY Zenon DEF Atomic
  <2>2. /\ ~Crash /\ ~(locked /\ \E p \in Threads : DeleteRow(p))
        /\ loose' = {} /\ UniqueNamesOf(db) /\ UniqueNamesOf(db')
    BY <2>1, Zenon DEF CutShort
  <2>3. loose = {}
    BY <2>1, <2>2, LooseStays
  <2>4. Clear
    BY <2>1, <2>2, <2>3 DEF Clear
  <2> QED BY <2>1, <2>2, <2>4, StepShown
<1>2. Statements => [][Atomic]_statementVars
  <2> HIDE DEF Atomic
  <2> QED BY <1>1, StatementsInductive, PTL DEF Statements
<1> QED BY <1>2 DEF CallsAreAtomic

=============================================================================
