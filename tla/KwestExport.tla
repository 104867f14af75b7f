------------------------------ MODULE KwestExport ------------------------------
(***************************************************************************)
(* export.c, a program of its own that copies a tag, the files under it    *)
(* and the tags below it to a directory of the disk, beside the daemon,    *)
(* which goes on with its calls (KwestStatements) on the same tables.      *)
(*                                                                         *)
(* A select that is open keeps the daemon's writes from being committed,   *)
(* and a write of the daemon may make a read of the export fail as busy;   *)
(* both programs take a failed statement for an answer: the daemon for a   *)
(* row deleted, the export for no more rows.                               *)
(*                                                                         *)
(* A directory of the export is the sequence of the tags that lead to it.  *)
(***************************************************************************)
EXTENDS KwestStatements, Sequences

CONSTANTS
  MaxDepth,   \* how many names tagpath has room for
  MaxFailures \* bound: failures of the disk

ASSUME ExportAssumption ==
  MaxDepth \in Nat \ {0} /\ MaxFailures \in Nat

VARIABLES
  phase,    \* where the function is that is running
  stack,    \* the calls of export: the tag of each, the id it has looked up
            \* and the subgroups it has left
  todo,     \* the files the running one has left
  dirs,     \* the directories made
  copies,   \* the files in them
  code,     \* what export has returned
  failed,   \* what could not be made, copied or read        (history)
  disturbed \* the tables have changed during the export     (history)

running    == <<phase, stack, todo>>
disk       == <<dirs, copies>>
exportVars == <<statementVars, running, disk, code, failed, disturbed>>

-----------------------------------------------------------------------------
(* The queries, with the id of the tag.                                    *)
FilesUnder(d, t) ==
  {BaseName[d.files[f]] : f \in {g \in FileIds : d.fileAssoc[t][g] > 0 /\ d.files[g] # NoRow}}
TagsBelow(d, t) ==
  {d.tags[u] : u \in {v \in TagIds : d.tagAssoc[v][t][ASSOC_SUBGROUP] > 0 /\ d.tags[v] # NoRow}}

Top      == stack[Len(stack)]
Path     == [i \in 1..Len(stack) |-> stack[i].tag]     \* tagpath
Frame(n) == [tag |-> n, id |-> KW_FAIL, todo |-> {}]

(* The selects of the functions that wait for this one are open.           *)
Outer == Len(stack) > 1

(* A thread of the daemon is writing, so a read may fail, unless this      *)
(* program holds a select open.                                            *)
Writing == \E p \in Threads : calls[p].at \in {"insert", "delete", "relations", "files", "row"}

(* A read: what it finds, or nothing.                                      *)
Result(found, nothing) ==
  \/ failed' = failed /\ found
  \/ ~locked /\ Writing /\ failed' = failed \cup {Path} /\ nothing

Fails(what) ==
  Cardinality(failed) < MaxFailures /\ failed' = failed \cup {what}

Steps == UNCHANGED <<db, calls, begun, loose, disturbed>>

-----------------------------------------------------------------------------
(* main: the tag may be one that is not there.                             *)
Start(n) ==
  /\ phase = "off" /\ phase' = "enter"
  /\ stack' = <<Frame(n)>>
  /\ failed' = {} /\ disturbed' = FALSE
  /\ UNCHANGED <<statementVars, todo, disk, code>>

(* MUTANT: what a function below returns is returned.                      *)
Returned_at_once(result) ==
  /\ stack' = SubSeq(stack, 1, 1) /\ phase' = "done"
  /\ code' = result /\ locked' = FALSE

(* What a function called by export itself returns is ignored.             *)
Returned(result) ==
  /\ stack' = (IF Outer THEN SubSeq(stack, 1, Len(stack) - 1) ELSE stack)
  /\ phase' = (IF Outer THEN "walking" ELSE "done")
  /\ code' = (IF Outer THEN code ELSE result)
  /\ locked' = Outer

(* MUTANT: the 0 that ends the path is not counted.                        *)
MakeDir_off_by_one ==
  /\ phase = "enter"
  /\ \/ /\ Fails(Path) /\ Returned(KW_FAIL) /\ UNCHANGED dirs
     \/ /\ Len(stack) > MaxDepth + 1 /\ phase' = "crashed"
        /\ UNCHANGED <<stack, dirs, code, failed, locked>>
     \/ /\ Len(stack) <= MaxDepth + 1 /\ phase' = "files"
        /\ dirs' = dirs \cup {Path}
        /\ UNCHANGED <<stack, code, failed, locked>>
  /\ Steps /\ UNCHANGED <<todo, copies>>

(* opendir of the path, room for the name, mkdir; a directory that is      *)
(* there is as good.                                                       *)
MakeDir ==
  /\ phase = "enter"
  /\ \/ /\ Fails(Path) /\ Returned(KW_FAIL) /\ UNCHANGED dirs
     \/ /\ Len(stack) > MaxDepth /\ phase' = "crashed"
        /\ UNCHANGED <<stack, dirs, code, failed, locked>>
     \/ /\ Len(stack) <= MaxDepth /\ phase' = "files"
        /\ dirs' = dirs \cup {Path}
        /\ UNCHANGED <<stack, code, failed, locked>>
  /\ Steps /\ UNCHANGED <<todo, copies>>

(* get_tag_id in get_fname_under_tag and in get_tags_by_association.       *)
LookUp(at, select, after) ==
  /\ phase = at
  /\ \E id \in TagIds \cup {KW_FAIL} :
       /\ Result(id = get_tag_id(db, Top.tag), id = KW_FAIL)
       /\ stack' = [stack EXCEPT ![Len(stack)].id = id]
       /\ phase' = (IF id = KW_FAIL THEN after ELSE select)
  /\ Steps /\ UNCHANGED <<locked, todo, disk, code>>

LookUpFiles == LookUp("files", "openFiles", "below")
LookUpBelow == LookUp("below", "openBelow", "walking")

OpenFiles ==
  /\ phase = "openFiles" /\ phase' = "copying"
  /\ Result(todo' = FilesUnder(db, Top.id), todo' = {})
  /\ locked' = (Outer \/ todo' # {})
  /\ Steps /\ UNCHANGED <<stack, disk, code>>

(* send_file; the walk goes on when a file cannot be copied.               *)
Copy ==
  /\ phase = "copying"
  /\ \E f \in todo :
       /\ todo' = todo \ {f}
       /\ \/ copies' = copies \cup {<<Path, f>>} /\ failed' = failed
          \/ Fails(<<Path, f>>) /\ UNCHANGED copies
  /\ Steps /\ UNCHANGED <<locked, phase, stack, dirs, code>>

CloseFiles ==
  /\ phase = "copying" /\ todo = {}
  /\ phase' = "below" /\ locked' = Outer
  /\ Steps /\ UNCHANGED <<stack, todo, disk, code, failed>>

(* MUTANT: the subgroups are read into memory and the select is closed.    *)
OpenBelow_closed ==
  /\ phase = "openBelow" /\ phase' = "walking"
  /\ \E tags \in SUBSET TagNames :
       /\ Result(tags = TagsBelow(db, Top.id), tags = {})
       /\ stack' = [stack EXCEPT ![Len(stack)].todo = tags]
       /\ locked' = locked
  /\ Steps /\ UNCHANGED <<todo, disk, code>>

OpenBelow ==
  /\ phase = "openBelow" /\ phase' = "walking"
  /\ \E tags \in SUBSET TagNames :
       /\ Result(tags = TagsBelow(db, Top.id), tags = {})
       /\ stack' = [stack EXCEPT ![Len(stack)].todo = tags]
       /\ locked' = (Outer \/ tags # {})
  /\ Steps /\ UNCHANGED <<todo, disk, code>>

(* MUTANT: the row is not passed.                                          *)
Descend_again ==
  /\ phase = "walking" /\ phase' = "enter"
  /\ \E n \in Top.todo : stack' = Append(stack, Frame(n))
  /\ Steps /\ UNCHANGED <<locked, todo, disk, code, failed>>

Descend ==
  /\ phase = "walking" /\ phase' = "enter"
  /\ \E n \in Top.todo :
       stack' = Append([stack EXCEPT ![Len(stack)].todo = @ \ {n}], Frame(n))
  /\ Steps /\ UNCHANGED <<locked, todo, disk, code, failed>>

Ascend ==
  /\ phase = "walking" /\ Top.todo = {}
  /\ Returned(KW_SUCCESS)
  /\ Steps /\ UNCHANGED <<todo, disk, failed>>

Walk ==
  \/ MakeDir \/ LookUpFiles \/ OpenFiles \/ Copy \/ CloseFiles
  \/ LookUpBelow \/ OpenBelow \/ Descend \/ Ascend

(* The export is interrupted; what it has made stays.                      *)
Kill ==
  /\ phase \notin {"off", "done", "crashed", "killed"} /\ phase' = "killed"
  /\ locked' = FALSE
  /\ Steps /\ UNCHANGED <<stack, todo, disk, code, failed>>

(* The daemon goes on, and may end.                                        *)
Daemon ==
  /\ Crash \/ \E p \in Threads : Begin(p) \/ Statement(p)
  /\ disturbed' = (disturbed \/ db' # db)
  /\ UNCHANGED <<running, disk, code, failed>>

ExportInit ==
  /\ StatementsInit
  /\ phase = "off" /\ stack = <<>> /\ todo = {}
  /\ dirs = {} /\ copies = {} /\ code = KW_SUCCESS
  /\ failed = {} /\ disturbed = FALSE

ExportNext == (\E n \in TagNames : Start(n)) \/ Walk \/ Kill \/ Daemon

(* The export waits for nothing.                                           *)
Export == ExportInit /\ [][ExportNext]_exportVars /\ WF_exportVars(Walk)

-----------------------------------------------------------------------------
(* Each tag of a path is a subgroup of the one before it.                  *)
IsChain(d, path) ==
  \A i \in 2..Len(path) :
    LET t == get_tag_id(d, path[i-1])
    IN t # KW_FAIL /\ path[i] \in TagsBelow(d, t)

Listed(d, n) ==
  LET t == get_tag_id(d, n) IN IF t = KW_FAIL THEN {} ELSE FilesUnder(d, t)

Dirs  == UNION {[1..n -> TagNames] : n \in 1..MaxDepth}
Ended == phase \in {"off", "done", "crashed", "killed"}

ExportTypeOK ==
  /\ db \in Databases /\ disturbed \in BOOLEAN /\ code \in {KW_SUCCESS, KW_FAIL}
  /\ phase \in {"off", "enter", "files", "openFiles", "copying", "below", "openBelow",
                "walking", "done", "crashed", "killed"}
  /\ Len(stack) \in 0..(MaxDepth + 1)
  /\ \A i \in DOMAIN stack : 
       stack[i] \in [tag : TagNames, id : TagIds \cup {KW_FAIL}, todo : SUBSET TagNames]
  /\ todo \subseteq FileNames
  /\ dirs \subseteq Dirs /\ copies \subseteq dirs \X FileNames

(* An export that says it is done, of tables nobody changed meanwhile, has *)
(* made a directory for every way down the subgroups of its tag, with a    *)
(* copy of each file, except below where the disk or a read failed: one    *)
(* failure costs its own directory and no other.                           *)
EverythingExported ==
  phase = "done" /\ code = KW_SUCCESS /\ ~disturbed =>
    \A path \in Dirs :
      /\ path[1] = stack[1].tag /\ IsChain(db, path)
      /\ \A n \in 1..Len(path) : SubSeq(path, 1, n) \notin failed
      => /\ path \in dirs
         /\ \A f \in Listed(db, path[Len(path)]) : <<path, f>> \in copies \cup failed

(* However the daemon's statements come in between, the export makes only  *)
(* what is in the tables at that moment: each tag of its path is still a   *)
(* subgroup of the one above it, a file it has to copy is still under its  *)
(* tag, and an id is still of the tag it was looked up for.  It rests on   *)
(* the open selects of the callers, which keep writes out; the id of the   *)
(* first tag is looked up before there is one, and may be another's.       *)
OnlyWhatIsThere ==
  ~Ended =>
    /\ \A i \in 2..Len(stack) :
         /\ stack[i].tag \in TagsBelow(db, stack[i-1].id)
         /\ stack[i].id # KW_FAIL => db.tags[stack[i].id] = stack[i].tag
    /\ todo # {} => todo \subseteq FilesUnder(db, Top.id)

(* The export ends, if only over the end of tagpath.                       *)
ExportEnds == (phase = "enter") ~> Ended

=============================================================================
