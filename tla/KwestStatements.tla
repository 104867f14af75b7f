---------------------------- MODULE KwestStatements ----------------------------
(***************************************************************************)
(* The calls the daemon makes of dbbasic.c, as they run: several threads   *)
(* (fuse starts one for each request unless it is told not to) share one   *)
(* connection, and a call is a sequence of statements, each of which       *)
(* commits itself.  Nothing holds two statements together, so other        *)
(* threads come in between, on other names and on the same, the program    *)
(* may end there, and a statement that writes fails while another process  *)
(* reads the tables, which only the last of a call looks at.               *)
(*                                                                         *)
(* The calls are those of make_directory, remove_directory,                *)
(* remove_this_file and rename_this_file (dbfuse.c); the paths have been   *)
(* looked at before, by statements that bind nobody, and are left out      *)
(* here, as is what the handlers answer.  Files are entered by main before *)
(* it starts fuse, and by nobody after.                                    *)
(***************************************************************************)
EXTENDS KwestTables

CONSTANTS
  Threads,   \* the threads of the daemon
  Readers,   \* whether another process (export) reads the tables
  FirstDbs,  \* the tables main may leave
  MaxCalls   \* bound: requests of the kernel

(* All relations of the program are of one kind.                           *)
OnlySubgroups(d) ==
  \A t, u \in TagIds, i \in AssocIds \ {ASSOC_SUBGROUP} : d.tagAssoc[t][u][i] = 0

ASSUME ThreadsAssumption ==
  /\ IsFiniteSet(Threads) /\ Threads # {} /\ Readers \in BOOLEAN /\ MaxCalls \in Nat
  /\ NoRow \notin FileNames /\ ASSOC_SUBGROUP \in AssocIds
  /\ \A d \in FirstDbs : Sound(d) /\ OnlySubgroups(d)

VARIABLES
  db,       \* the tables
  calls,    \* the call each thread is in
  locked,   \* another process has a select open
  begun,    \* how many requests there have been
  loose     \* the ids of tags that were removed while another call held
            \* them, or with a delete that failed                 (history)

statementVars == <<db, calls, locked, begun, loose>>

-----------------------------------------------------------------------------
(* A call is at a statement; x and y are the ids it has looked up, and to  *)
(* is for the call that follows it in the handler.                         *)
Idle == [op |-> "none", at |-> "none", a |-> NoRow, b |-> NoRow, to |-> NoRow,
         x |-> KW_FAIL, y |-> KW_FAIL]

Call(op, at, a, b, to) ==
  [op |-> op, at |-> at, a |-> a, b |-> b, to |-> to, x |-> KW_FAIL, y |-> KW_FAIL]

make_directory(n, parent)  == Call("add_tag", "new", n, NoRow, parent)
remove_directory(n)        == Call("remove_tag", "tag", n, NoRow, NoRow)
remove_this_file(n, f)     == Call("untag_file", "file", n, f, NoRow)
rename_this_file(m, n, f)  == Call("untag_file", "file", m, f, n)
copy_this_file(n, f)       == Call("tag_file", "file", n, f, NoRow)

Requests ==
  UNION {
    {make_directory(n, parent) : n, parent \in TagNames},
    {remove_directory(n) : n \in TagNames},
    {remove_this_file(n, f) : n \in TagNames, f \in FileNames},
    {rename_this_file(m, n, f) : m, n \in TagNames, f \in FileNames},
    {copy_this_file(n, f) : n \in TagNames, f \in FileNames}}

(* The call that follows in the handler if c has succeeded.                *)
AfterCall(c) ==
  CASE c.op = "add_tag" -> Call("add_association", "tag", c.a, c.to, NoRow)
    [] c.op = "untag_file" /\ c.to # NoRow -> Call("tag_file", "file", c.to, c.b, NoRow)
    [] OTHER -> Idle

(* The names a call is about, and the tags whose ids it has looked up.     *)
About(c) == {c.a, c.b} \ {NoRow}
Held(c) ==
  CASE c.op = "add_tag"         -> {}
    [] c.op = "add_association" -> {c.x, c.y} \ {KW_FAIL}
    [] OTHER                    -> {c.x} \ {KW_FAIL}

(* The tags that one call removes while another holds them.                *)
Met(cs) ==
  {t \in TagIds : \E p, q \in Threads :
     p # q /\ cs[p].op = "remove_tag" /\ t \in Held(cs[p]) /\ t \in Held(cs[q])}

(* A delete in the middle of a removal fails.                              *)
Torn(p) ==
  IF locked /\ calls[p].at \in {"relations", "files"} THEN {calls[p].x} ELSE {}

At(p, stage) == calls[p].at = stage
Goes(p, c) ==
  /\ calls' = [calls EXCEPT ![p] = c]
  /\ loose' = loose \cup Met(calls') \cup Torn(p)
  /\ UNCHANGED begun

(* A lookup that fails ends the call, and the handler.                     *)
Found(p, id, c) == Goes(p, IF id = KW_FAIL THEN Idle ELSE c)

Reads == UNCHANGED <<db, locked>>

(* A statement that writes; the call goes on even if it fails.             *)
Writes(new) ==
  /\ db' = (IF locked THEN db ELSE new)
  /\ UNCHANGED locked

-----------------------------------------------------------------------------
Begin(p) ==
  /\ calls[p] = Idle /\ begun < MaxCalls /\ begun' = begun + 1
  /\ \E c \in Requests : calls' = [calls EXCEPT ![p] = c]
  /\ Reads /\ UNCHANGED loose

(* MUTANT: the name is not looked for.                                     *)
NewName_unchecked(p) ==
  /\ At(p, "new") /\ Goes(p, [calls[p] EXCEPT !.at = "max"])
  /\ Reads

(* set_tag_id: the name must be new, then the largest id of its class.     *)
NewName(p) ==
  /\ At(p, "new")
  /\ LET c == calls[p]
     IN Goes(p, IF get_tag_id(db, c.a) # KW_FAIL THEN Idle ELSE [c EXCEPT !.at = "max"])
  /\ Reads

LastId(p) ==
  /\ At(p, "max")
  /\ LET used == {t \in IdsOf(USER_MADE_TAG) : db.tags[t] # NoRow}
     IN Goes(p, [calls[p] EXCEPT !.x = IdAfter(used, FirstIdOf(USER_MADE_TAG)),
                                 !.at = "insert"])
  /\ Reads

(* get_file_id of the second argument.                                     *)
FindFile(p) ==
  /\ At(p, "file")
  /\ LET c == calls[p] id == get_file_id(db, c.b)
     IN Found(p, id, [c EXCEPT !.y = id, !.at = "tag"])
  /\ Reads

(* get_tag_id of the first argument, and of the second.                    *)
FindTag(p) ==
  /\ At(p, "tag")
  /\ LET c == calls[p] id == get_tag_id(db, c.a)
     IN Found(p, id, [c EXCEPT !.x = id,
                       !.at = CASE c.op = "remove_tag" -> "relations"
                                [] c.op = "tag_file"   -> "rows"
                                [] c.op = "untag_file" -> "delete"
                                [] OTHER               -> "other"])
  /\ Reads

FindOther(p) ==
  /\ At(p, "other")
  /\ LET c == calls[p] id == get_tag_id(db, c.b)
     IN Found(p, id, [c EXCEPT !.y = id, !.at = "rows"])
  /\ Reads

(* MUTANT: the row of a file is not looked for.                            *)
Check_of_relations(p) ==
  /\ At(p, "rows")
  /\ LET c == calls[p]
         there == c.op # "tag_file" /\ get_association(db, c.a, c.b) # KW_FAIL
     IN Goes(p, IF there THEN Idle ELSE [c EXCEPT !.at = "insert"])
  /\ Reads

(* Is the row there?  get_association looks the ids up again.              *)
Check(p) ==
  /\ At(p, "rows")
  /\ LET c == calls[p]
         there == IF c.op = "tag_file" THEN db.fileAssoc[c.x][c.y] > 0
                  ELSE get_association(db, c.a, c.b) # KW_FAIL
     IN Goes(p, IF there THEN Idle ELSE [c EXCEPT !.at = "insert"])
  /\ Reads

(* MUTANT: the id is bound for the name.                                   *)
Inserted_id(c) ==
  CASE c.op = "add_tag"  -> IF Insertable(db.tags, c.x) THEN [db EXCEPT !.tags[c.x] = c.x] ELSE db
    [] c.op = "tag_file" -> [db EXCEPT !.fileAssoc[c.x][c.y] = @ + 1]
    [] c.op = "add_association" -> [db EXCEPT !.tagAssoc[c.x][c.y][ASSOC_SUBGROUP] = @ + 1]

(* TagDetails has a key, which may refuse the row.                         *)
Inserted(c) ==
  CASE c.op = "add_tag"  -> IF Insertable(db.tags, c.x) THEN [db EXCEPT !.tags[c.x] = c.a] ELSE db
    [] c.op = "tag_file" -> [db EXCEPT !.fileAssoc[c.x][c.y] = @ + 1]
    [] c.op = "add_association" -> [db EXCEPT !.tagAssoc[c.x][c.y][ASSOC_SUBGROUP] = @ + 1]

Insert(p) ==
  /\ At(p, "insert")
  /\ LET c == calls[p]
         done == ~locked /\ (c.op = "add_tag" => Insertable(db.tags, c.x))
     IN Writes(Inserted(c)) /\ Goes(p, IF done THEN AfterCall(c) ELSE Idle)

(* MUTANT: the file is taken from every tag.                               *)
Delete_everywhere(p) ==
  /\ At(p, "delete")
  /\ LET c == calls[p] IN
     /\ Writes([db EXCEPT !.fileAssoc = [t \in TagIds |-> [@[t] EXCEPT ![c.y] = 0]]])
     /\ Goes(p, IF locked THEN Idle ELSE AfterCall(c))

(* untag_file.                                                             *)
Delete(p) ==
  /\ At(p, "delete")
  /\ LET c == calls[p] IN
     /\ Writes([db EXCEPT !.fileAssoc[c.x][c.y] = 0])
     /\ Goes(p, IF locked THEN Idle ELSE AfterCall(c))

(* MUTANT: the relations in which the tag is the parent stay.              *)
DeleteRelations_as_child(p) ==
  /\ At(p, "relations")
  /\ LET c == calls[p] IN
     /\ Writes([db EXCEPT !.tagAssoc[c.x] = [u \in TagIds |-> [i \in AssocIds |-> 0]]])
     /\ Goes(p, [c EXCEPT !.at = "files"])

(* remove_tag: the relations, the files below and the row.                 *)
DeleteRelations(p) ==
  /\ At(p, "relations")
  /\ LET c == calls[p] IN
     /\ Writes([db EXCEPT !.tagAssoc = [t \in TagIds |-> [u \in TagIds |-> [i \in AssocIds |->
                  IF t = c.x \/ u = c.x THEN 0 ELSE db.tagAssoc[t][u][i]]]]])
     /\ Goes(p, [c EXCEPT !.at = "files"])

(* MUTANT: the files below the first tag go.                               *)
DeleteFiles_of_first(p) ==
  /\ At(p, "files")
  /\ LET c == calls[p] IN
     /\ Writes([db EXCEPT !.fileAssoc[0] = [f \in FileIds |-> 0]])
     /\ Goes(p, [c EXCEPT !.at = "row"])

DeleteFiles(p) ==
  /\ At(p, "files")
  /\ LET c == calls[p] IN
     /\ Writes([db EXCEPT !.fileAssoc[c.x] = [f \in FileIds |-> 0]])
     /\ Goes(p, [c EXCEPT !.at = "row"])

DeleteRow(p) ==
  /\ At(p, "row")
  /\ Writes([db EXCEPT !.tags[calls[p].x] = NoRow]) /\ Goes(p, Idle)

Statement(p) ==
  \/ NewName(p) \/ LastId(p) \/ FindFile(p) \/ FindTag(p) \/ FindOther(p) \/ Check(p)
  \/ Insert(p) \/ Delete(p) \/ DeleteRelations(p) \/ DeleteFiles(p) \/ DeleteRow(p)

(* The other process opens or closes its select.                           *)
Reader == Readers /\ locked' = ~locked /\ UNCHANGED <<db, calls, begun, loose>>

(* The program ends between two statements and is started again.           *)
Crash == calls' = [p \in Threads |-> Idle] /\ UNCHANGED <<db, locked, begun, loose>>

StatementsInit ==
  /\ db \in FirstDbs /\ calls = [p \in Threads |-> Idle] /\ locked = FALSE
  /\ begun = 0 /\ loose = {}

StatementsNext ==
  \/ \E p \in Threads : Begin(p) \/ Statement(p)
  \/ Reader \/ Crash

Statements == StatementsInit /\ [][StatementsNext]_statementVars

-----------------------------------------------------------------------------
StatementTypeOK ==
  /\ db \in Databases /\ locked \in BOOLEAN /\ loose \subseteq TagIds /\ begun \in 0..MaxCalls
  /\ \A p \in Threads : Held(calls[p]) \subseteq TagIds

(* Two threads may both find a name free, both choose an id and both add   *)
(* it, and so may more of them, after any number of earlier calls; but no  *)
(* more rows ever have one name than there are threads, as whoever comes   *)
(* after the first row finds it (set_tag_id).                              *)
NamesBounded ==
  \A n \in TagNames : Cardinality(TagsNamed(db, n)) <= Cardinality(Threads)

(* So it is with the rows that put a file under a tag (tag_file), whoever  *)
(* removes or renames what in between.                                     *)
RowsBounded ==
  \A t \in TagIds, f \in FileIds : db.fileAssoc[t][f] <= Cardinality(Threads)

NoFilesUnder(d, t)  == \A f \in FileIds : d.fileAssoc[t][f] = 0
NoRelationsOf(d, t) ==
  \A u \in TagIds, i \in AssocIds : d.tagAssoc[t][u][i] = 0 /\ d.tagAssoc[u][t][i] = 0

(* Nothing in the tables is about a tag that is not there, except what was *)
(* about an id that one call removed while another had looked it up, or    *)
(* with a delete that failed.  All other orders of calls on one name, with *)
(* ids that come back for other names meanwhile, and all crashes between   *)
(* the deletes, leave nothing behind.                                      *)
NothingDangles ==
  \A t \in TagIds \ loose :
    db.tags[t] = NoRow => NoFilesUnder(db, t) /\ NoRelationsOf(db, t)

(* A statement changes only what its call names, though it goes by ids     *)
(* that were looked up some statements before: but for the same ids as     *)
(* above, the row of a tag goes when a call about that name is under way,  *)
(* and a row about two names changes when one call is about both or        *)
(* removes one of them.                                                    *)
Busy(n) == \E p \in Threads : n \in About(calls[p])
BusyPair(n, m) ==
  \E p \in Threads :
    \/ {n, m} \subseteq About(calls[p])
    \/ calls[p].op = "remove_tag" /\ calls[p].a \in {n, m}
OthersKeepTheirs ==
  [][\A t \in TagIds \ loose : LET n == db.tags[t] IN n # NoRow =>
       /\ ~Busy(n) => db'.tags[t] = n
       /\ \A f \in FileIds :
            db.files[f] # NoRow /\ ~BusyPair(n, BaseName[db.files[f]])
            => db'.fileAssoc[t][f] = db.fileAssoc[t][f]
       /\ \A u \in TagIds \ loose :
            db.tags[u] # NoRow /\ ~BusyPair(n, db.tags[u])
            => db'.tagAssoc[t][u] = db.tagAssoc[t][u]]_statementVars

-----------------------------------------------------------------------------
(* The calls, though statements of several threads, as what they do to the *)
(* names (KwestTagStore).  A removal is over for the others with its first *)
(* delete.                                                                 *)
LeavingTags ==
  {calls[p].a : p \in {q \in Threads : calls[q].op = "remove_tag" /\ calls[q].at \in {"files", "row"}}}

ShownTags   == TagsOf(db) \ LeavingTags
ShownTagged == {r \in TaggedOf(db) : r[1] \notin LeavingTags}
ShownBelow  == {r \in BelowOf(db) : r[1] \notin LeavingTags /\ r[2] \notin LeavingTags}
shown == <<ShownTags, PathsOf(db), ShownTagged, ShownBelow>>

Names == INSTANCE KwestTagStore WITH
  tags   <- ShownTags,
  paths  <- PathsOf(db),
  tagged <- ShownTagged,
  below  <- ShownBelow,
  code   <- 0,                                \* answers are left out here
  Describes <- [p \in AbsPaths |-> {}]        \* and so are the plugins

Effect(c) ==
  \/ c.op = "add_tag"         /\ Names!TagAdded(c.a)
  \/ c.op = "remove_tag"      /\ Names!TagRemoved(c.a)
  \/ c.op = "tag_file"        /\ Names!FileTagged(c.a, c.b)
  \/ c.op = "untag_file"      /\ Names!FileUntagged(c.a, c.b)
  \/ c.op = "add_association" /\ Names!TagsRelated(c.a, c.b, ASSOC_SUBGROUP)

(* A removal that a crash or a failing delete ends half way has no such    *)
(* effect, and names do not tell two rows of one name apart, nor what is   *)
(* left of a tag that was removed while another call held it.              *)
CutShort ==
  \/ Crash
  \/ locked /\ \E p \in Threads : DeleteRow(p)
  \/ loose' # {} \/ ~UniqueNamesOf(db) \/ ~UniqueNamesOf(db')

(* Whatever statements of other calls come between its own, about its own  *)
(* names or others, a call does to the names what KwestTagStore says, all  *)
(* of it in one step.                                                      *)
CallsAreAtomic ==
  [][\/ CutShort
     \/ UNCHANGED shown
     \/ \E p \in Threads : calls'[p] # calls[p] /\ Effect(calls[p])]_statementVars

-----------------------------------------------------------------------------
(* Claims of comments that the code does not keep.                         *)

(* "Return if Tag Exists" (add_tag), "Return if tag already exists"        *)
(* (set_tag_id): no tag is there twice.                                    *)
NamesUnique == UniqueNamesOf(db)

(* "check if entry exists" (tag_file): no file is under a tag twice.       *)
TaggedOnce == \A t \in TagIds, f \in FileIds : db.fileAssoc[t][f] <= 1

(* "Remove all File-Tag Associations" (remove_tag): with the row of a tag  *)
(* all that is about it has gone.                                          *)
RemovedIsGone ==
  [][\A t \in TagIds : db.tags[t] # NoRow /\ db'.tags[t] = NoRow =>
       NoFilesUnder(db', t) /\ NoRelationsOf(db', t)]_statementVars

=============================================================================
