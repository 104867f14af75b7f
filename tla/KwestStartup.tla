---------------------------- MODULE KwestStartup ----------------------------
(***************************************************************************)
(* The life of the program: main of kwest_main.c, the check of the         *)
(* database (dbconsistency.c) and the import of ~/Music (import.c), then   *)
(* the daemon of KwestFuse until it is unmounted or dies.                  *)
(*                                                                         *)
(* main works in transactions, one for each of its parts, and a crash      *)
(* leaves what was committed last.  The check takes the files and the      *)
(* import the entries of directories one by one, while other programs go   *)
(* on changing the disk.                                                   *)
(***************************************************************************)
EXTENDS KwestFuse

CONSTANTS
  Plugins,    \* the plugins main loads, of "taglib", "pdfinfo", "libextractor"
  User,       \* the name of the user's home directory
  Music,      \* the directory that is imported
  Dirs,       \* Music and the directories below it, by their paths
  DirName,    \* [Dirs -> names]
  Above,      \* [(Dirs \ {Music}) \cup AbsPaths -> Dirs]: the directory of an entry
  Skipped,    \* entries named ".*" or "*~", and those whose path is too long
  Lockable,   \* bound: the files and directories whose modes change
  MaxEvents   \* bound: changes of the disk, by calls or crashes

ASSUME TreeAssumption ==
  /\ Music \in Dirs /\ Dirs \cap AbsPaths = {}
  /\ DirName \in [Dirs -> TagNames]
  /\ Above \in [(Dirs \ {Music}) \cup AbsPaths -> Dirs]
  /\ \A dirs \in SUBSET (Dirs \ {Music}) :        \* every path begins with Music
       dirs # {} => \E dir \in dirs : Above[dir] \notin dirs
  /\ Lockable \subseteq Dirs \cup AbsPaths
ASSUME UserAssumption == User \in TagNames /\ {TAG_ROOT, TAG_FILES} \subseteq TagNames
ASSUME PluginsAssumption ==
  /\ "taglib" \in Plugins => {TAG_AUDIO, TAG_ARTIST, TAG_ALBUM, TAG_GENRE} \subseteq TagNames
  /\ "pdfinfo" \in Plugins =>
       {TAG_PDF, TAG_PDF_TITLE, TAG_PDF_SUBJECT, TAG_PDF_AUTHOR, TAG_PDF_PUBLISHER} \subseteq TagNames
  /\ "libextractor" \in Plugins =>
       {TAG_IMAGE, TAG_IMAGE_CREATOR, TAG_IMAGE_DATE, TAG_VIDEO, TAG_VIDEO_LENGTH} \subseteq TagNames
ASSUME EventsAssumption == MaxEvents \in Nat

VARIABLES
  saved,   \* the database as last committed
  stage,   \* where main is
  next,    \* the check has gone through the files with smaller ids
  walk,    \* the calls of import_semantics: <<[dir, rest], ...>>, the last on top
  locked,  \* the files and directories all permissions of which are off
  before,  \* the database this start found                          (history)
  steady,  \* the disk has not changed since this start began        (history)
  quiet,   \* starts finished since anything but main changed a thing (history)
  events   \* how many of the bounded events have happened

main == <<saved, stage, next, walk, before, steady, quiet, events, locked>>
programVars == <<vars, main>>

Stages == {"off", "create", "plugins", "check", "import", "walk", "rules", "live"}
Frames == [dir : Dirs, rest : SUBSET (Dirs \cup AbsPaths)]

-----------------------------------------------------------------------------
(* MUTANT: the tables are made afresh.                                     *)
create_db_afresh(d) ==
  LET a == add_tag(EmptyDb, TAG_ROOT, SYSTEM_TAG).db
  IN add_association(add_tag(a, TAG_FILES, SYSTEM_TAG).db, TAG_FILES, TAG_ROOT, ASSOC_SUBGROUP).db

(* create_db: the tables are there or are made, and the tags of every start.*)
create_db(d) ==
  LET a == add_tag(d, TAG_ROOT, SYSTEM_TAG).db
      b == add_tag(a, TAG_FILES, SYSTEM_TAG).db
      c == add_association(b, TAG_FILES, TAG_ROOT, ASSOC_SUBGROUP).db
      e == add_tag(c, User, SYSTEM_TAG).db
  IN add_association(e, User, TAG_ROOT, ASSOC_SUBGROUP).db

load_plugins(d) ==
  LET a == IF "taglib" \in Plugins THEN load_taglib(d) ELSE d
      b == IF "pdfinfo" \in Plugins THEN load_pdfinfo(a) ELSE a
  IN IF "libextractor" \in Plugins THEN load_libextractor(b) ELSE b

-----------------------------------------------------------------------------
(* The disk.                                                               *)

Entries == (Dirs \ {Music}) \cup AbsPaths

(* The directories above an entry: the least set that is closed upwards.   *)
Closed(S) == \A dir \in S \ {Music} : Above[dir] \in S
Up(e) == {dir \in Dirs : \A S \in SUBSET Dirs : Above[e] \in S /\ Closed(S) => dir \in S}

(* stat needs the directories above, fopen the file itself too.            *)
CanStat(e) == Up(e) \cap locked = {} /\ (e \in AbsPaths => disk[e] # Absent)
CanOpen(p) == CanStat(p) /\ p \notin locked

-----------------------------------------------------------------------------
(* dbconsistency.c                                                         *)

(* The tags with the file f and no other.                                  *)
OnlyTagged(d, f) ==
  {t \in TagIds : /\ d.fileAssoc[t][f] = 1
                  /\ \A g \in FileIds \ {f} : d.fileAssoc[t][g] = 0}

(* MUTANT: the rows about the tags stay.                                   *)
check_tag_if_empty_row_only(d, f) ==
  [d EXCEPT !.tags = [t \in TagIds |-> IF t \in OnlyTagged(d, f) THEN NoRow ELSE d.tags[t]]]

(* remove_tag of each of them; no one of them changes the count of another.*)
check_tag_if_empty(d, f) ==
  LET ts == OnlyTagged(d, f) IN
  [tags      |-> [t \in TagIds |-> IF t \in ts THEN NoRow ELSE d.tags[t]],
   files     |-> d.files,
   fileAssoc |-> [t \in TagIds |-> [g \in FileIds |->
                    IF t \in ts THEN 0 ELSE d.fileAssoc[t][g]]],
   tagAssoc  |-> [t \in TagIds |-> [u \in TagIds |-> [a \in AssocIds |->
                    IF t \in ts \/ u \in ts THEN 0 ELSE d.tagAssoc[t][u][a]]]]]

(* MUTANT: the file goes before its tags are looked at.                    *)
remove_gone_file_first(d, f) == check_tag_if_empty(WithoutFile(d, f), f)

remove_gone_file(d, f) == WithoutFile(check_tag_if_empty(d, f), f)

-----------------------------------------------------------------------------
(* import.c                                                                *)

import_top(d) ==
  LET made == add_tag(d, DirName[Music], USER_TAG)
  IN IF made.code = KW_SUCCESS
     THEN add_association(made.db, DirName[Music], TAG_FILES, ASSOC_SUBGROUP).db
     ELSE d

(* MUTANT: the file is tagged before it is added.                          *)
import_file_tag_first(d, p, dir) ==
  add_file(tag_file(d, DirName[dir], BaseName[p]).db, p).db

(* A file that is known is left where it is.  No plugin knows a file that  *)
(* cannot be opened.                                                       *)
import_file(d, p, dir) ==
  LET added == IF p \in locked THEN add_file_row(d, p) ELSE add_file(d, p)
  IN IF added.code = KW_SUCCESS
     THEN tag_file(added.db, DirName[dir], BaseName[p]).db ELSE d

(* What readdir lists of a directory, less what is passed over.            *)
Listed(dir) ==
  {e \in Entries : Above[e] = dir /\ e \notin Skipped /\ (e \in AbsPaths => disk[e] # Absent)}

(* Opening a directory: one that is locked is left at once.                *)
Frame(dir) == [dir |-> dir, rest |-> IF dir \in locked THEN {} ELSE Listed(dir)]

-----------------------------------------------------------------------------
(* Where main goes next, apart from what it does to the tables.            *)

To(s) == stage' = s /\ UNCHANGED <<next, walk>>

FilesFrom(d, f) == {g \in FileIds : g >= f /\ d.files[g] # NoRow}

(* MUTANT: the files are listed again after each.                          *)
CheckTurn_again(f) ==
  /\ stage = "check" /\ f \in FilesFrom(db, 0)
  /\ \A g \in FilesFrom(db, 0) : f <= g
  /\ next' = f + 1 /\ UNCHANGED <<stage, walk>>

CheckTurn(f) ==
  /\ stage = "check" /\ f \in FilesFrom(db, next)
  /\ \A g \in FilesFrom(db, next) : f <= g
  /\ next' = f + 1 /\ UNCHANGED <<stage, walk>>

CheckedTurn == /\ stage = "check" /\ FilesFrom(db, next) = {}
               /\ stage' = "import" /\ next' = 0 /\ UNCHANGED walk

(* MUTANT: main goes on when Music cannot be opened.                       *)
ImportTurn_unchecked ==
  /\ stage = "import"
  /\ stage' = "walk" /\ walk' = (IF Music \in locked THEN <<>> ELSE <<Frame(Music)>>)
  /\ UNCHANGED next

(* When Music cannot be opened main returns.                               *)
ImportTurn ==
  /\ stage = "import"
  /\ IF Music \in locked THEN To("off")
     ELSE stage' = "walk" /\ walk' = <<Frame(Music)>> /\ UNCHANGED next

Top == walk[Len(walk)]
WithoutEntry(e) == [walk EXCEPT ![Len(walk)].rest = @ \ {e}]

(* The entries come in any order.                                          *)
FileTurn(e) ==
  /\ stage = "walk" /\ e \in Top.rest \cap AbsPaths
  /\ walk' = WithoutEntry(e) /\ UNCHANGED <<stage, next>>

(* MUTANT: only a directory whose tag is new is walked.                    *)
entered_if_new(e) ==
  IF get_tag_id(db, DirName[e]) = KW_FAIL THEN Frame(e) ELSE [dir |-> e, rest |-> {}]

entered(e) == Frame(e)

DirectoryTurn(e) ==
  /\ stage = "walk" /\ e \in Top.rest \cap Dirs
  /\ walk' = IF CanStat(e) THEN Append(WithoutEntry(e), entered(e)) ELSE WithoutEntry(e)
  /\ UNCHANGED <<stage, next>>

ReturnTurn ==
  /\ stage = "walk" /\ Top.rest = {}
  /\ walk' = SubSeq(walk, 1, Len(walk) - 1)
  /\ stage' = (IF Len(walk) > 1 THEN "walk" ELSE "rules")
  /\ UNCHANGED next

Turn ==
  \/ stage = "create" /\ To("plugins")
  \/ stage = "plugins" /\ To("check")
  \/ (\E f \in FileIds : CheckTurn(f)) \/ CheckedTurn
  \/ ImportTurn \/ ReturnTurn
  \/ \E e \in Dirs \cup AbsPaths : FileTurn(e) \/ DirectoryTurn(e)
  \/ stage = "rules" /\ To("live")

-----------------------------------------------------------------------------
(* main: each part ends with a commit.                                     *)

daemon == <<disk, cppath, alive, reply>>
found  == <<before, steady, quiet, events, locked>>

Begin ==
  /\ stage = "off" /\ To("create")
  /\ before' = db /\ steady' = TRUE
  /\ UNCHANGED <<vars, saved, quiet, events, locked>>

Create ==
  /\ stage = "create" /\ To("plugins")
  /\ db' = create_db(db) /\ saved' = db' /\ UNCHANGED <<daemon, found>>

LoadPlugins ==
  /\ stage = "plugins" /\ To("check")
  /\ db' = load_plugins(db) /\ saved' = db' /\ UNCHANGED <<daemon, found>>

(* A file that cannot be opened, gone or not, is taken for gone.           *)
CheckFile ==
  /\ \E f \in FileIds :
       /\ CheckTurn(f)
       /\ db' = IF CanOpen(db.files[f]) THEN db ELSE remove_gone_file(db, f)
  /\ UNCHANGED <<daemon, found, saved>>

CheckDone == CheckedTurn /\ saved' = db /\ UNCHANGED <<db, daemon, found>>

(* A main that returns has committed nothing of the import.                *)
Import ==
  /\ ImportTurn
  /\ db' = IF Music \in locked THEN saved ELSE import_top(db)
  /\ UNCHANGED <<daemon, found, saved>>

WalkFile ==
  /\ \E e \in AbsPaths :
       /\ FileTurn(e)
       /\ db' = IF CanStat(e) THEN import_file(db, e, Top.dir) ELSE db
  /\ UNCHANGED <<daemon, found, saved>>

WalkDirectory ==
  /\ \E e \in Dirs :
       /\ DirectoryTurn(e)
       /\ db' = IF CanStat(e) THEN add_tag(db, DirName[e], USER_TAG).db ELSE db
  /\ UNCHANGED <<daemon, found, saved>>

(* Back in the directory above, which the one just left goes below.        *)
WalkReturn ==
  /\ ReturnTurn
  /\ IF Len(walk) > 1
     THEN /\ db' = add_association(db, DirName[Top.dir], DirName[walk[Len(walk) - 1].dir],
                                   ASSOC_SUBGROUP).db
          /\ UNCHANGED saved
     ELSE saved' = db /\ UNCHANGED db
  /\ UNCHANGED <<daemon, found>>

(* apriori fills AssociationRules only; then the daemon runs.              *)
Serve ==
  /\ stage = "rules" /\ To("live")
  /\ cppath' = Root /\ alive' = TRUE /\ reply' = KW_SUCCESS
  /\ quiet' = IF steady /\ quiet < 2 THEN quiet + 1 ELSE quiet
  /\ UNCHANGED <<db, disk, saved, before, steady, events, locked>>

Main == \/ Create \/ LoadPlugins \/ CheckFile \/ CheckDone
        \/ Import \/ WalkFile \/ WalkDirectory \/ WalkReturn \/ Serve

-----------------------------------------------------------------------------
(* What else happens.                                                      *)

(* A program calls the daemon, which commits what it does.  Calls that     *)
(* change neither the tables nor the buffer are left to KwestFuse.         *)
Call ==
  /\ stage = "live" /\ alive
  /\ \E path \in Paths : FreshCalls(path)
  /\ <<db', cppath'>> # <<db, cppath>>
  /\ saved' = db'
  /\ IF db' = db THEN UNCHANGED <<events, quiet>>
     ELSE events < MaxEvents /\ events' = events + 1 /\ quiet' = 0
  /\ UNCHANGED <<stage, next, walk, before, steady, locked>>

(* The disk changes, whatever main is doing.                               *)
Event == /\ events < MaxEvents /\ events' = events + 1
         /\ steady' = FALSE /\ quiet' = 0
         /\ UNCHANGED <<saved, stage, next, walk, before>>

Remove(p) == Event /\ Vanish(p) /\ UNCHANGED locked
Store(p)  ==
  /\ Event /\ disk[p] = Absent
  /\ \E c \in Contents : disk' = [disk EXCEPT ![p] = c]
  /\ UNCHANGED <<db, cppath, alive, reply, locked>>
ChangeMode(e) ==
  /\ Event
  /\ locked' = IF e \in locked THEN locked \ {e} ELSE locked \cup {e}
  /\ UNCHANGED vars

Stopped ==
  /\ stage' = "off" /\ db' = saved /\ walk' = <<>> /\ next' = 0
  /\ cppath' = Root /\ alive' = TRUE /\ reply' = KW_SUCCESS
  /\ UNCHANGED <<disk, saved, before, steady, quiet, locked>>

(* Unmounted, or dead of a bad access.                                     *)
Exit == stage = "live" /\ Stopped /\ UNCHANGED events

(* A crash while main is at work.                                          *)
Crash == /\ stage \notin {"off", "live"} /\ Stopped
         /\ events < MaxEvents /\ events' = events + 1

ProgramInit ==
  /\ Init /\ saved = InitialDb /\ stage = "off" /\ next = 0 /\ walk = <<>> /\ locked = {}
  /\ before = InitialDb /\ steady = TRUE /\ quiet = 0 /\ events = 0

ProgramNext ==
  \/ Begin \/ Main \/ Call \/ Exit \/ Crash
  \/ \E p \in AbsPaths : Remove(p) \/ Store(p)
  \/ \E e \in Lockable : ChangeMode(e)

(* main is a single thread that waits for nothing, so it goes on.  That is *)
(* said of its turns: what it does on the way never stops it.              *)
Program == ProgramInit /\ [][ProgramNext]_programVars /\ WF_<<stage, next, walk>>(Turn)

-----------------------------------------------------------------------------
ProgramTypeOK ==
  /\ TypeOK /\ saved \in Databases /\ before \in Databases
  /\ stage \in Stages /\ next \in 0..(MaxFno + 1)
  /\ walk \in Seq(Frames) /\ (stage = "walk" <=> walk # <<>>)
  /\ locked \subseteq Lockable
  /\ steady \in BOOLEAN /\ quiet \in 0..2 /\ events \in 0..MaxEvents

(* Whatever main was doing when it crashed, and whatever it finds at the   *)
(* next start, the tables are sound.                                       *)
ProgramTablesSound == Sound(db) /\ Sound(saved)

UnderTag(d, t) == {f \in FileIds : d.fileAssoc[t][f] > 0}

(* The check removes the tags that have lost all their files, whichever of *)
(* the files it met last, and no other.                                    *)
CheckRemovesEmptied ==
  stage = "import" =>
    \A t \in TagIds : before.tags[t] # NoRow =>
      (db.tags[t] = NoRow <=>
         UnderTag(before, t) # {} /\ \A f \in UnderTag(before, t) : db.files[f] = NoRow)

(* On a disk that does not change, no file is known any more that is gone  *)
(* or below a directory that is locked.                                    *)
NoFileIsGone ==
  stage \in {"import", "walk", "rules"} /\ steady =>
    \A f \in FileIds : db.files[f] # NoRow => CanStat(db.files[f])

(* There is an id for one more tag of the class, or one more file.         *)
RoomForTag(d, type) ==
  Insertable(d.tags, IdAfter({t \in IdsOf(type) : d.tags[t] # NoRow}, FirstIdOf(type)))
RoomForFile(d) == Insertable(d.files, IdAfter({f \in FileIds : d.files[f] # NoRow}, 0))

(* On a disk that does not change, every file main could reach is known,   *)
(* by its name, whatever crashes and calls came before, as long as there   *)
(* is an id left for a file.                                               *)
Reached(p) ==
  \E path \in SUBSET (Dirs \ locked) :
    /\ Music \in path /\ path \cap Skipped \subseteq {Music}
    /\ \A dir \in path \ {Music} : Above[dir] \in path
    /\ Above[p] \in path /\ p \notin Skipped /\ disk[p] # Absent
EveryFileIsKnown ==
  stage = "rules" /\ steady /\ RoomForFile(db) =>
    \A p \in AbsPaths : Reached(p) => get_file_id(db, BaseName[p]) # KW_FAIL

(* A file that is new is in the directory it was found in, as long as      *)
(* there is an id left for the tag of a directory.                         *)
NewFilesAreFiled ==
  stage = "rules" /\ RoomForTag(db, USER_TAG) =>
    \A f \in FileIds : db.files[f] # NoRow /\ db.files[f] # before.files[f] =>
      \E t \in TagIds : /\ db.tags[t] = DirName[Above[db.files[f]]]
                        /\ db.fileAssoc[t][f] > 0

(* Where every known file can be opened a start only adds: what was        *)
(* arranged with the daemon stays.  One that is only locked for the time   *)
(* of a start is lost with all its tags.                                   *)
StartOnlyAdds ==
  /\ stage = "rules" /\ steady
  /\ \A f \in FileIds : before.files[f] # NoRow => CanOpen(before.files[f])
  => /\ \A f \in FileIds : before.files[f] # NoRow => db.files[f] = before.files[f]
     /\ \A t \in TagIds : before.tags[t] # NoRow => db.tags[t] = before.tags[t]
     /\ \A t \in TagIds, f \in FileIds : before.fileAssoc[t][f] <= db.fileAssoc[t][f]
     /\ \A t, u \in TagIds, a \in AssocIds : before.tagAssoc[t][u][a] <= db.tagAssoc[t][u][a]

(* Of starts in a row with nothing between them the third changes nothing. *)
(* The second may: the check comes after the plugins, so a tag of theirs   *)
(* that it removes is made again by the next start.  A file that is listed *)
(* and cannot be opened is forgotten and found again by every start.       *)
RestartChangesNothing ==
  stage = "rules" /\ quiet = 2 /\ (\A p \in AbsPaths : CanStat(p) => CanOpen(p))
  => db = before

(* Every start ends: in the daemon, or with the program.                   *)
StartsEnd == stage # "off" ~> stage \in {"off", "live"}

-----------------------------------------------------------------------------
(* A claim of a comment that the code does not keep.                       *)

(* "Import Directory-File structure from File System to Kwest" (import):   *)
(* after an import the directory that was imported is below Files, where   *)
(* there is a tag Files.                                                   *)
ImportIsListed ==
  stage = "rules" /\ {TAG_FILES, DirName[Music]} \subseteq TagsOf(db) =>
    get_association(db, DirName[Music], TAG_FILES) = ASSOC_SUBGROUP

=============================================================================
