--------------------------- MODULE KwestFuseProofs ---------------------------
(***************************************************************************)
(* Theorems about the daemon, for every set of paths, names and files, and *)
(* whatever handlers the kernel calls with them.                           *)
(***************************************************************************)
EXTENDS KwestFuse, KwestPluginsProofs, SequenceTheorems

(* A name that no tag has, or no file, is not found.                       *)
LEMMA UnknownTag ==
  ASSUME NEW d \in Databases, NEW n, n # NoRow, n \notin TagNames
  PROVE  get_tag_id(d, n) = KW_FAIL
BY DEF get_tag_id, TagsNamed, Databases, TagTable

LEMMA UnknownFile ==
  ASSUME NEW d \in Databases, NEW n, n \notin FileNames
  PROVE  get_file_id(d, n) = KW_FAIL
BY DEF get_file_id, FilesNamed, Databases, FileTable, FileNames

(* The calls of the path layer keep the tables sound, for any names.       *)
LEMMA TagAnyFile ==
  ASSUME NEW d, Sound(d), NEW t, t # NoRow, NEW n
  PROVE  Sound(tag_file(d, t, n).db)
<1>1. CASE t \in TagNames /\ n \in FileNames
  BY <1>1, TagFileSound
<1>2. CASE ~(t \in TagNames /\ n \in FileNames)
  <2>1. get_tag_id(d, t) = KW_FAIL \/ get_file_id(d, n) = KW_FAIL
    BY <1>2, UnknownTag, UnknownFile DEF Sound
  <2> QED BY <2>1 DEF tag_file, Return
<1> QED BY <1>1, <1>2

LEMMA UntagAnyFile ==
  ASSUME NEW d, Sound(d), NEW t, t # NoRow, NEW n
  PROVE  Sound(untag_file(d, t, n).db)
<1>1. CASE t \in TagNames /\ n \in FileNames
  BY <1>1, UntagFileSound
<1>2. CASE ~(t \in TagNames /\ n \in FileNames)
  <2>1. get_tag_id(d, t) = KW_FAIL \/ get_file_id(d, n) = KW_FAIL
    BY <1>2, UnknownTag, UnknownFile DEF Sound
  <2> QED BY <2>1 DEF untag_file, Return
<1> QED BY <1>1, <1>2

LEMMA RelateAnyTags ==
  ASSUME NEW d, Sound(d), NEW m, m # NoRow, NEW n, n # NoRow
  PROVE  Sound(add_association(d, m, n, ASSOC_SUBGROUP).db)
<1>1. CASE m \in TagNames /\ n \in TagNames
  BY <1>1, AddAssociationSound, SubgroupAssumption
<1>2. CASE ~(m \in TagNames /\ n \in TagNames)
  <2>1. get_tag_id(d, m) = KW_FAIL \/ get_tag_id(d, n) = KW_FAIL
    BY <1>2, UnknownTag DEF Sound
  <2> QED BY <2>1 DEF add_association, Return
<1> QED BY <1>1, <1>2

LEMMA RemoveAnyTag ==
  ASSUME NEW d, Sound(d), NEW n, n # NoRow
  PROVE  Sound(remove_tag(d, n).db)
<1>1. CASE n \in TagNames
  BY <1>1, RemoveTagSound
<1>2. CASE n \notin TagNames
  BY <1>2, UnknownTag DEF Sound, remove_tag, Return
<1> QED BY <1>1, <1>2

-----------------------------------------------------------------------------
(* Paths.                                                                  *)

(* What SubSeq gives for the paths above a path.                           *)
LEMMA PathsAbove ==
  ASSUME NEW p \in Seq(Names), NEW i \in 0..Len(p)
  PROVE  /\ SubSeq(p, 1, i) \in Seq(Names) /\ Len(SubSeq(p, 1, i)) = i
         /\ \A j \in 1..i : SubSeq(p, 1, i)[j] = p[j]
<1>1. Len(p) \in Nat /\ i \in Int /\ 1 \in Int /\ \A j \in 1..i : p[j] \in Names
  OBVIOUS
<1> QED BY <1>1, SubSeqProperties

LEMMA Shorter ==
  ASSUME NEW p \in Seq(Names), NEW i \in 0..Len(p), SubSeq(p, 1, i) # Root
  PROVE  ParentPath(SubSeq(p, 1, i)) = SubSeq(p, 1, i - 1)
<1> DEFINE q == SubSeq(p, 1, i)
<1>1. /\ q \in Seq(Names) /\ Len(q) = i
      /\ \A j \in 1..i : q[j] = p[j]
  BY PathsAbove
<1>2. i > 0
  BY <1>1 DEF Root
<1> HIDE DEF q
<1>3. i - 1 \in 0..Len(q) /\ i - 1 \in 0..Len(p)
  BY <1>1, <1>2
<1>4. /\ SubSeq(q, 1, i-1) \in Seq(Names) /\ Len(SubSeq(q, 1, i-1)) = i-1
      /\ \A j \in 1..(i-1) : SubSeq(q, 1, i-1)[j] = q[j]
  BY <1>1, <1>3, PathsAbove
<1>5. /\ SubSeq(p, 1, i-1) \in Seq(Names) /\ Len(SubSeq(p, 1, i-1)) = i-1
      /\ \A j \in 1..(i-1) : SubSeq(p, 1, i-1)[j] = p[j]
  BY <1>3, PathsAbove
<1>6. SubSeq(q, 1, i-1) = SubSeq(p, 1, i-1)
  <2>1. \A j \in 1..(i-1) : SubSeq(q, 1, i-1)[j] = SubSeq(p, 1, i-1)[j]
    BY <1>1, <1>3, <1>4, <1>5
  <2> QED BY <2>1, <1>4, <1>5, SeqEqual
<1> QED BY <1>1, <1>6 DEF ParentPath, q

(* The last name of a path is a name, and so is that of the path above.    *)
LEMMA EntryIsName ==
  ASSUME NEW p \in Seq(Names), p # Root
  PROVE  /\ EntryName(p) \in Names /\ EntryName(p) # NoRow
         /\ ParentPath(p) \in Seq(Names)
<1>1. Len(p) \in Nat /\ Len(p) > 0
  <2>1. Len(p) \in Nat /\ (Len(p) = 0 => p = << >>)
    BY EmptySeq
  <2> QED BY <2>1 DEF Root
<1>2. EntryName(p) \in Names
  BY <1>1, ElementOfSeq DEF EntryName
<1>3. ParentPath(p) \in Seq(Names)
  BY <1>1, PathsAbove DEF ParentPath
<1> QED BY <1>2, <1>3, NamesAssumption

(* The paths in the buffer are sequences of names, and closed under the    *)
(* cut that rename_this_file makes in place.                               *)
LEMMA CopyPathsClosed ==
  ASSUME NEW p \in CopyPaths
  PROVE  p \in Seq(Names) /\ (p # Root => ParentPath(p) \in CopyPaths)
<1>1. CASE p = Root
  BY <1>1 DEF Root
<1>2. CASE p # Root
  <2>1. PICK q \in Paths : \E j \in 0..Len(q) : p = SubSeq(q, 1, j)
    BY <1>2 DEF CopyPaths
  <2>2. PICK i \in 0..Len(q) : p = SubSeq(q, 1, i)
    BY <2>1
  <2>3. q \in Seq(Names) /\ Len(q) \in Nat
    BY PathsAssumption
  <2>4. p \in Seq(Names) /\ Len(p) = i
    BY <2>2, <2>3, PathsAbove
  <2>5. i > 0
    BY <1>2, <2>3, <2>4 DEF Root
  <2>6. ParentPath(p) = SubSeq(q, 1, i - 1) /\ i - 1 \in 0..Len(q)
    BY <1>2, <2>2, <2>3, <2>5, Shorter
  <2> QED BY <2>4, <2>6 DEF CopyPaths
<1> QED BY <1>1, <1>2

LEMMA PathsAreCopyPaths == Paths \subseteq CopyPaths
<1>1. SUFFICES ASSUME NEW p \in Paths PROVE p \in CopyPaths
  OBVIOUS
<1>2. p \in Seq(Names) /\ Len(p) \in 0..Len(p)
  BY PathsAssumption
<1>3. p = SubSeq(p, 1, Len(p))
  BY <1>2, SubSeqFull
<1>4. p \in {SubSeq(p, 1, i) : i \in 0..Len(p)}
  BY <1>2, <1>3
<1> QED BY <1>4 DEF CopyPaths

-----------------------------------------------------------------------------
(* What the path layer does to sound tables, and what it answers.          *)

Fine(result) == Sound(result.db) /\ result.code \in Answers

LEMMA MoveFileFine ==
  ASSUME NEW d, Sound(d), NEW from \in Seq(Names), from # Root,
         NEW to \in Seq(Names), to # Root
  PROVE  Fine(move_file(d, from, to))
<1> DEFINE file  == EntryName(from)
           old   == EntryName(ParentPath(from))
           new   == EntryName(ParentPath(to))
           taken == untag_file(d, old, file)
           put   == tag_file(taken.db, new, file)
           moved == move_file(d, from, to)
<1>1. CASE ~Movable(from, to)
  BY <1>1 DEF move_file, Return, Fine, Answers
<1>2. CASE Movable(from, to) /\ Root \in {ParentPath(from), ParentPath(to)}
  BY <1>2 DEF move_file, Return, Fine, Answers
<1>3. CASE Movable(from, to) /\ Root \notin {ParentPath(from), ParentPath(to)}
  <2>1. old # NoRow /\ new # NoRow
    BY <1>3, EntryIsName
  <2>2. moved = IF taken.code # KW_SUCCESS THEN Return(d, KW_ERROR)
                ELSE Return(put.db, IF put.code = KW_SUCCESS THEN KW_SUCCESS ELSE KW_ERROR)
    BY <1>3 DEF move_file
  <2> HIDE DEF file, old, new, moved
  <2>3. Sound(taken.db)
    BY <2>1, UntagAnyFile
  <2> HIDE DEF taken
  <2>4. Sound(put.db)
    BY <2>1, <2>3, TagAnyFile
  <2> HIDE DEF put
  <2>5. Fine(moved)
    BY <2>2, <2>4 DEF Return, Fine, Answers
  <2> QED BY <2>5 DEF moved
<1> QED BY <1>1, <1>2, <1>3

LEMMA CopyFileFine ==
  ASSUME NEW d, Sound(d), NEW from \in Seq(Names),
         NEW to \in Seq(Names), to # Root
  PROVE  Fine(copy_file(d, from, to))
<1> DEFINE put == tag_file(d, EntryName(ParentPath(to)), EntryName(from))
           copied == copy_file(d, from, to)
<1>1. CASE from = Root
  BY <1>1 DEF copy_file, Return, Fine, Answers
<1>2. CASE from # Root /\ ~Movable(from, to)
  BY <1>2 DEF copy_file, Return, Fine, Answers
<1>3. CASE from # Root /\ Movable(from, to) /\ ParentPath(to) = Root
  BY <1>3 DEF copy_file, Return, Fine, Answers
<1>4. CASE from # Root /\ Movable(from, to) /\ ParentPath(to) # Root
  <2>1. copied = Return(put.db, IF put.code = KW_SUCCESS THEN KW_SUCCESS ELSE KW_ERROR)
    BY <1>4 DEF copy_file
  <2>2. Sound(put.db)
    BY <1>4, EntryIsName, TagAnyFile
  <2> HIDE DEF put, copied
  <2>3. Fine(copied)
    BY <2>1, <2>2 DEF Return, Fine, Answers
  <2> QED BY <2>3 DEF copied
<1> QED BY <1>1, <1>2, <1>3, <1>4

LEMMA RemoveFileFine ==
  ASSUME NEW d, Sound(d), NEW path \in Seq(Names), path # Root,
         NEW r \in remove_this_file(d, path)
  PROVE  Fine(r)
<1> DEFINE above == ParentPath(path)
           Result(untagged) == Return(untagged.db, IF untagged.code = KW_SUCCESS
                                                   THEN KW_SUCCESS ELSE KW_FAIL)
           From(tag) == Result(untag_file(d, tag, EntryName(path)))
<1>1. ASSUME NEW tag, tag # NoRow PROVE Fine(From(tag))
  BY <1>1, UntagAnyFile DEF Return, Fine, Answers
<1>2. Fine(Return(d, KW_FAIL)) /\ Fine(Return(d, SIGSEGV))
  BY DEF Return, Fine, Answers
<1>3. remove_this_file(d, path)
        = IF above # Root THEN {From(EntryName(above))}
          ELSE {From(tag) : tag \in TagNames} \cup {Return(d, KW_FAIL), Return(d, SIGSEGV)}
  BY DEF remove_this_file
<1>4. above # Root => EntryName(above) # NoRow
  BY EntryIsName
<1>5. \A tag \in TagNames : tag # NoRow
  BY NoRowAssumption
<1> HIDE DEF From, Result, above
<1> QED BY <1>1, <1>2, <1>3, <1>4, <1>5

LEMMA MakeDirectoryFine ==
  ASSUME NEW d, Sound(d), NEW path \in Seq(Names), path # Root, EntryName(path) \in TagNames,
         NEW r \in make_directory(d, path)
  PROVE  Fine(r)
<1> DEFINE above  == ParentPath(path)
           newtag == EntryName(path)
           added  == add_tag(d, newtag, USER_MADE_TAG)
           Result(placed) == Return(placed.db, IF placed.code = KW_SUCCESS
                                               THEN KW_SUCCESS ELSE KW_FAIL)
           Below(tag) == Result(add_association(added.db, newtag, tag, ASSOC_SUBGROUP))
<1>1. Sound(added.db)
  BY AddTagSound DEF TagTypes
<1>2. newtag # NoRow /\ (above # Root => EntryName(above) # NoRow)
  BY EntryIsName
<1>3. make_directory(d, path)
        = CASE added.code # KW_SUCCESS -> {Return(d, KW_FAIL)}
            [] added.code = KW_SUCCESS /\ above # Root -> {Below(EntryName(above))}
            [] OTHER -> {Below(tag) : tag \in TagNames}
                          \cup {Return(added.db, KW_FAIL), Return(added.db, SIGSEGV)}
  BY DEF make_directory
<1> HIDE DEF added, above, newtag
<1>4. ASSUME NEW tag, tag # NoRow PROVE Fine(Below(tag))
  BY <1>1, <1>2, <1>4, RelateAnyTags DEF Return, Fine, Answers
<1>5. /\ Fine(Return(d, KW_FAIL))
      /\ Fine(Return(added.db, KW_FAIL)) /\ Fine(Return(added.db, SIGSEGV))
  BY <1>1 DEF Return, Fine, Answers
<1>6. \A tag \in TagNames : tag # NoRow
  BY NoRowAssumption
<1> HIDE DEF Below, Result
<1> QED BY <1>2, <1>3, <1>4, <1>5, <1>6

LEMMA RemoveDirectoryFine ==
  ASSUME NEW d, Sound(d), NEW path \in Seq(Names), path # Root
  PROVE  Fine(remove_directory(d, path))
BY EntryIsName, RemoveAnyTag DEF remove_directory, Return, Fine, Answers

-----------------------------------------------------------------------------
(* The daemon: whatever the kernel asks for, and whatever is deleted from  *)
(* the disk meanwhile.                                                     *)

Inv == TypeOK /\ TablesSound

LEMMA FuseInit == Init => Inv
<1>1. InitialDb \in Databases /\ Sound(InitialDb)
  BY InitialDbAssumption DEF Sound
<1>2. Root \in CopyPaths
  BY DEF CopyPaths
<1> QED BY <1>1, <1>2, DiskAssumption DEF Init, Inv, TypeOK, TablesSound, Disks, Answers

(* A handler that answers one of the codes and changes nothing.            *)
LEMMA RefusedKeeps ==
  ASSUME Inv, NEW code \in Answers, Refused(code)
  PROVE  Inv'
BY DEF Refused, Answer, Inv, TypeOK, TablesSound

(* A handler that changes the tables as the path layer does.               *)
LEMMA ResultKeeps ==
  ASSUME Inv, NEW r, Fine(r), Answer(r.code), db' = r.db, UNCHANGED <<disk, cppath>>
  PROVE  Inv'
BY DEF Answer, Fine, Inv, TypeOK, TablesSound, Sound

LEMMA ValidityAnswers ==
  ASSUME NEW path
  PROVE  Validity(path) \in Answers /\ getattr(path) \in Answers
<1>1. Validity(path) \in Answers
  BY DEF Validity, Answers
<1>2. \A abspath, missing : missing \in Answers => OnDisk(abspath, missing) \in Answers
  BY DEF OnDisk, Answers
<1>3. {KW_SUCCESS, EIO, EACCES} \subseteq Answers
  BY DEF Answers
<1> HIDE DEF Validity, OnDisk, Answers
<1>4. getattr(path) \in Answers
  <2> DEFINE valid == Validity(path)
  <2>1. CASE path = Root
    BY <2>1, <1>3 DEF getattr
  <2>2. CASE Suggested(path)
    BY <2>2, <1>3 DEF getattr, Suggested
  <2>3. CASE path # Root /\ ~Suggested(path) /\ EntryName(path) \in SuggestedTags
    BY <2>3, <1>3 DEF getattr
  <2>4. CASE path # Root /\ ~Suggested(path) /\ EntryName(path) \notin SuggestedTags
    BY <2>4, <1>1, <1>2, <1>3 DEF getattr
  <2> QED BY <2>1, <2>2, <2>3, <2>4
<1> QED BY <1>1, <1>4

LEMMA MknodKeeps ==
  ASSUME Inv, NEW path \in Seq(Names), path # Root, Mknod(path)
  PROVE  Inv'
<1> DEFINE valid  == check_path_tags_validity(db, path)
           copied == copy_file(db, cppath, path)
<1>1. CASE valid # KW_SUCCESS
  <2>1. Refused(IF valid = SIGSEGV THEN SIGSEGV ELSE ENOENT)
    BY <1>1 DEF Mknod
  <2> QED BY <2>1, RefusedKeeps DEF Answers
<1>2. CASE valid = KW_SUCCESS /\ get_absolute_path(db, path) = NoRow
  <2>1. Refused(EIO)
    BY <1>2 DEF Mknod
  <2> QED BY <2>1, RefusedKeeps DEF Answers
<1>3. CASE valid = KW_SUCCESS /\ get_absolute_path(db, path) # NoRow
  <2>1. /\ Answer(IF copied.code = SIGSEGV THEN SIGSEGV ELSE KW_SUCCESS)
        /\ db' = copied.db
        /\ cppath' = IF cppath = Root \/ ~Movable(cppath, path)
                     THEN cppath ELSE ParentPath(cppath)
        /\ UNCHANGED disk
    BY <1>3 DEF Mknod
  <2>2. cppath \in CopyPaths /\ Sound(db)
    BY DEF Inv, TypeOK, TablesSound
  <2>3. Sound(copied.db)
    BY <2>2, CopyPathsClosed, CopyFileFine DEF Fine
  <2>4. cppath' \in CopyPaths
    BY <2>1, <2>2, CopyPathsClosed
  <2> HIDE DEF copied
  <2> QED BY <2>1, <2>3, <2>4 DEF Answer, Answers, Inv, TypeOK, TablesSound, Sound
<1> QED BY <1>1, <1>2, <1>3

LEMMA OpenKeeps ==
  ASSUME Inv, NEW path \in Paths, NEW directory \in {KW_SUCCESS, EIO},
         Answer(open_file(path, directory)), cppath' = path, UNCHANGED <<db, disk>>
  PROVE  Inv'
<1>1. open_file(path, directory) \in Answers
  <2>1. Validity(path) \in Answers
    BY ValidityAnswers
  <2> QED BY <2>1 DEF open_file, OnDisk, Answers
<1>2. path \in CopyPaths
  BY PathsAreCopyPaths
<1> QED BY <1>1, <1>2 DEF Answer, Inv, TypeOK, TablesSound

LEMMA ChangeKeeps ==
  ASSUME Inv, NEW path, NEW contents \in Contents, Change(path, contents)
  PROVE  Inv'
<1> DEFINE abspath == get_absolute_path(db, path)
           valid   == Validity(path)
<1>1. CASE cppath = Root
  BY <1>1, RefusedKeeps DEF Change, Answers
<1>2. CASE cppath # Root /\ EntryName(cppath) = EntryName(path)
  BY <1>2, RefusedKeeps DEF Change, Answers
<1>3. CASE cppath # Root /\ EntryName(cppath) # EntryName(path) /\ valid # KW_SUCCESS
  <2>1. Refused(valid)
    BY <1>3 DEF Change
  <2> QED BY <2>1, ValidityAnswers, RefusedKeeps
<1>4. CASE cppath # Root /\ EntryName(cppath) # EntryName(path) /\ valid = KW_SUCCESS
  <2>1. CASE abspath = NoRow
    BY <1>4, <2>1, RefusedKeeps DEF Change, Answers
  <2>2. CASE abspath # NoRow /\ disk[abspath] = Absent
    BY <1>4, <2>2, RefusedKeeps DEF Change, Answers
  <2>3. CASE abspath # NoRow /\ disk[abspath] # Absent
    <3>1. /\ Answer(KW_SUCCESS)
          /\ disk' = [disk EXCEPT ![abspath] = contents]
          /\ UNCHANGED <<db, cppath>>
      BY <1>4, <2>3 DEF Change
    <3>2. disk' \in Disks
      BY <3>1 DEF Inv, TypeOK, Disks
    <3> QED BY <3>1, <3>2 DEF Answer, Answers, Inv, TypeOK, TablesSound
  <2> QED BY <2>1, <2>2, <2>3
<1> QED BY <1>1, <1>2, <1>3, <1>4

(* Each handler keeps the invariant.                                       *)
LEMMA CallsKeep ==
  ASSUME Inv, NEW path \in Paths, Calls(path)
  PROVE  Inv'
<1>1. path \in Seq(Names) /\ path # Root /\ Sound(db)
  BY PathsAssumption DEF Inv, TablesSound
<1>2. CASE Getattr(path)
  BY <1>2, ValidityAnswers, RefusedKeeps DEF Getattr
<1>3. CASE Readdir(path) \/ Access(path) \/ Release(path)
  BY <1>3, RefusedKeeps DEF Readdir, Access, Release, Answers
<1>4. CASE Mkdir(path)
  <2>1. CASE Validity(path) # ENOENT
    BY <1>4, <2>1, RefusedKeeps DEF Mkdir, Answers
  <2>2. CASE Validity(path) = ENOENT
    <3>1. PICK made \in make_directory(db, path) :
            Answer(made.code) /\ db' = made.db /\ UNCHANGED <<disk, cppath>>
      BY <1>4, <2>2 DEF Mkdir
    <3>2. Fine(made)
      BY <1>1, <1>4, MakeDirectoryFine DEF Mkdir
    <3> QED BY <3>1, <3>2, ResultKeeps
  <2> QED BY <2>1, <2>2
<1>5. CASE Rmdir(path)
  <2>1. CASE Validity(path) # KW_SUCCESS
    BY <1>5, <2>1, ValidityAnswers, RefusedKeeps DEF Rmdir
  <2>2. CASE Validity(path) = KW_SUCCESS
    BY <1>1, <1>5, <2>2, RemoveDirectoryFine, ResultKeeps DEF Rmdir
  <2> QED BY <2>1, <2>2
<1>6. CASE Unlink(path)
  <2>1. CASE Validity(path) # KW_SUCCESS
    BY <1>6, <2>1, ValidityAnswers, RefusedKeeps DEF Unlink
  <2>2. CASE Validity(path) = KW_SUCCESS
    <3>1. PICK removed \in remove_this_file(db, path) :
            Answer(removed.code) /\ db' = removed.db /\ UNCHANGED <<disk, cppath>>
      BY <1>6, <2>2 DEF Unlink
    <3>2. Fine(removed)
      BY <1>1, RemoveFileFine
    <3> QED BY <3>1, <3>2, ResultKeeps
  <2> QED BY <2>1, <2>2
<1>7. CASE Mknod(path)
  BY <1>1, <1>7, MknodKeeps
<1>8. ASSUME NEW to \in Paths, Rename(path, to) PROVE Inv'
  <2>1. CASE Validity(path) # KW_SUCCESS
    BY <1>8, <2>1, ValidityAnswers, RefusedKeeps DEF Rename
  <2>2. CASE Validity(path) = KW_SUCCESS
    <3>1. to \in Seq(Names) /\ to # Root
      BY PathsAssumption
    <3> QED BY <1>1, <1>8, <2>2, <3>1, MoveFileFine, ResultKeeps DEF Rename
  <2> QED BY <2>1, <2>2
<1>9. CASE Open(path)
  BY <1>9, OpenKeeps DEF Open
<1>10. CASE Read(path)
  BY <1>10, OpenKeeps DEF Read
<1>11. CASE Truncate(path)
  BY <1>11, ChangeKeeps, DiskAssumption DEF Truncate
<1>12. CASE SetAttributes(path)
  <2>1. PICK code \in Answers : Refused(code)
    <3>1. Validity(path) \in Answers
      BY ValidityAnswers
    <3> QED BY <1>12, <3>1 DEF SetAttributes, OnDisk, Answers
  <2> QED BY <2>1, RefusedKeeps
<1>13. ASSUME NEW c \in Contents, Write(path, c) PROVE Inv'
  BY <1>13, ChangeKeeps DEF Write
<1> QED BY <1>2, <1>3, <1>4, <1>5, <1>6, <1>7, <1>8, <1>9, <1>10, <1>11, <1>12, <1>13 DEF Calls

LEMMA FuseNext == Inv /\ [Next]_vars => Inv'
<1> SUFFICES ASSUME Inv, [Next]_vars PROVE Inv'
  OBVIOUS
<1>1. ASSUME NEW path \in Paths, Calls(path) PROVE Inv'
  BY <1>1, CallsKeep
<1>2. ASSUME NEW p \in AbsPaths, Vanish(p) PROVE Inv'
  <2>1. disk' \in Disks
    BY <1>2 DEF Vanish, Inv, TypeOK, Disks
  <2> QED BY <1>2, <2>1 DEF Vanish, Inv, TypeOK, TablesSound
<1>3. CASE UNCHANGED vars
  BY <1>3 DEF vars, Inv, TypeOK, TablesSound
<1> QED BY <1>1, <1>2, <1>3 DEF Next

LEMMA FuseAlways == Spec => []Inv
<1> QED BY FuseInit, FuseNext, PTL DEF Spec

(* A handler answers one of the codes its comments name, or dies.          *)
THEOREM DaemonTypeCorrect == Spec => []TypeOK
<1>1. Inv => TypeOK
  BY DEF Inv
<1> QED BY <1>1, FuseAlways, PTL

(* Whatever handlers the kernel calls, with whatever paths, up to date or  *)
(* not, the tables stay sound.                                             *)
THEOREM DaemonKeepsTablesSound == Spec => []TablesSound
<1>1. Inv => TablesSound
  BY DEF Inv
<1> QED BY <1>1, FuseAlways, PTL

-----------------------------------------------------------------------------
(* Renames.                                                                *)

(* A rename that is let through untags the file, and answers success when  *)
(* it could be tagged again.                                               *)
LEMMA RenameLetThrough ==
  ASSUME NEW from, NEW to, Rename(from, to), db' # db \/ reply' = KW_SUCCESS
  PROVE  LET file  == EntryName(from)
             taken == untag_file(db, EntryName(ParentPath(from)), file)
             put   == tag_file(taken.db, EntryName(ParentPath(to)), file)
         IN /\ Movable(from, to) /\ ParentPath(from) # Root /\ ParentPath(to) # Root
            /\ taken.code = KW_SUCCESS
            /\ db' = put.db
            /\ reply' = KW_SUCCESS => put.code = KW_SUCCESS
<1> DEFINE file  == EntryName(from)
           taken == untag_file(db, EntryName(ParentPath(from)), file)
           put   == tag_file(taken.db, EntryName(ParentPath(to)), file)
           moved == move_file(db, from, to)
<1>1. Validity(from) = KW_SUCCESS
  <2>1. SUFFICES ASSUME Validity(from) # KW_SUCCESS PROVE FALSE
    OBVIOUS
  <2>2. Refused(Validity(from))
    BY <2>1 DEF Rename
  <2> QED BY <2>1, <2>2 DEF Refused, Answer
<1>2. reply' = moved.code /\ db' = moved.db
  BY <1>1 DEF Rename, Answer
<1>3. Movable(from, to)
  <2>1. SUFFICES ASSUME ~Movable(from, to) PROVE FALSE
    OBVIOUS
  <2>2. moved = Return(db, EPERM)
    BY <2>1 DEF move_file
  <2> QED BY <1>2, <2>2 DEF Return, EPERM, KW_SUCCESS
<1>4. ParentPath(from) # Root /\ ParentPath(to) # Root
  <2>1. SUFFICES ASSUME Root \in {ParentPath(from), ParentPath(to)} PROVE FALSE
    OBVIOUS
  <2>2. moved = Return(db, SIGSEGV)
    BY <1>3, <2>1 DEF move_file
  <2> QED BY <1>2, <2>2 DEF Return, SIGSEGV, KW_SUCCESS
<1>5. moved = IF taken.code # KW_SUCCESS THEN Return(db, KW_ERROR)
              ELSE Return(put.db, IF put.code = KW_SUCCESS THEN KW_SUCCESS ELSE KW_ERROR)
  BY <1>3, <1>4 DEF move_file
<1> HIDE DEF taken, put, moved, file
<1>6. taken.code = KW_SUCCESS
  BY <1>2, <1>5 DEF Return, KW_ERROR, KW_SUCCESS
<1>7. /\ db' = put.db
      /\ reply' = KW_SUCCESS => put.code = KW_SUCCESS
  BY <1>2, <1>5, <1>6 DEF Return, KW_ERROR, KW_SUCCESS
<1> QED BY <1>3, <1>4, <1>6, <1>7 DEF taken, put, file

(* Taking a file from a tag clears one count.                              *)
LEMMA UntagEffect ==
  ASSUME NEW d, Sound(d), NEW t, t # NoRow, NEW n, untag_file(d, t, n).code = KW_SUCCESS
  PROVE  LET tno == get_tag_id(d, t)
             fno == get_file_id(d, n)
             e   == untag_file(d, t, n).db
         IN /\ tno \in TagIds /\ fno \in FileIds
            /\ d.tags[tno] # NoRow /\ d.files[fno] # NoRow
            /\ e.tags = d.tags /\ e.files = d.files
            /\ \A u \in TagIds, f \in FileIds :
                 e.fileAssoc[u][f] = IF u = tno /\ f = fno THEN 0 ELSE d.fileAssoc[u][f]
<1> DEFINE tno == get_tag_id(d, t)
           fno == get_file_id(d, n)
           e   == untag_file(d, t, n).db
<1>1. ~(fno = KW_FAIL \/ tno = KW_FAIL)
  BY DEF untag_file, Return, KW_SUCCESS, KW_ERROR
<1>2. t \in TagNames /\ d \in Databases /\ UniqueNamesOf(d)
  BY <1>1, UnknownTag DEF Sound
<1>3. /\ tno \in TagIds /\ d.tags[tno] # NoRow
      /\ fno \in FileIds /\ d.files[fno] # NoRow
  BY <1>1, <1>2, TagIdFound, FileIdFound, NoRowAssumption
<1>4. e = [d EXCEPT !.fileAssoc[tno][fno] = 0]
  BY <1>1 DEF untag_file, Return
<1> HIDE DEF tno, fno, e
<1>5. e.tags = d.tags /\ e.files = d.files
  BY <1>2, <1>4 DEF Databases
<1>6. \A u \in TagIds, f \in FileIds :
        e.fileAssoc[u][f] = IF u = tno /\ f = fno THEN 0 ELSE d.fileAssoc[u][f]
  BY <1>2, <1>3, <1>4 DEF Databases, FileAssociationTable
<1> QED BY <1>3, <1>5, <1>6 DEF tno, fno, e

(* Putting a file under a tag sets one count, or changes nothing.          *)
LEMMA TagEffect ==
  ASSUME NEW d, Sound(d), NEW t, t # NoRow, NEW n
  PROVE  LET tno == get_tag_id(d, t)
             fno == get_file_id(d, n)
             r   == tag_file(d, t, n)
         IN \/ /\ r.db = d /\ r.code # KW_SUCCESS
               /\ fno = KW_FAIL \/ tno = KW_FAIL \/ d.fileAssoc[tno][fno] > 0
            \/ /\ tno \in TagIds /\ fno \in FileIds
               /\ \A u \in TagIds, f \in FileIds :
                    r.db.fileAssoc[u][f] = IF u = tno /\ f = fno THEN 1 ELSE d.fileAssoc[u][f]
<1> DEFINE tno == get_tag_id(d, t)
           fno == get_file_id(d, n)
           r   == tag_file(d, t, n)
           refused == fno = KW_FAIL \/ tno = KW_FAIL \/ d.fileAssoc[tno][fno] > 0
<1>1. CASE refused
  BY <1>1 DEF tag_file, Return, KW_ERROR, KW_SUCCESS
<1>2. CASE ~refused
  <2>1. t \in TagNames /\ d \in Databases /\ UniqueNamesOf(d)
    BY <1>2, UnknownTag DEF Sound
  <2>2. tno \in TagIds /\ fno \in FileIds
    BY <1>2, <2>1, TagIdFound, FileIdFound
  <2>3. r.db = [d EXCEPT !.fileAssoc[tno][fno] = @ + 1]
    BY <1>2 DEF tag_file, Return
  <2>4. ~(d.fileAssoc[tno][fno] > 0)
    BY <1>2
  <2> HIDE DEF tno, fno, r, refused
  <2>5. d.fileAssoc[tno][fno] = 0
    BY <2>1, <2>2, <2>4 DEF Databases, FileAssociationTable
  <2>6. \A u \in TagIds, f \in FileIds :
          r.db.fileAssoc[u][f] = IF u = tno /\ f = fno THEN 1 ELSE d.fileAssoc[u][f]
    BY <2>1, <2>2, <2>3, <2>5 DEF Databases, FileAssociationTable
  <2> QED BY <2>2, <2>6 DEF tno, fno, r
<1> QED BY <1>1, <1>2

(* The ids of names depend on the tables of tags and of files only.        *)
LEMMA SameIds ==
  ASSUME NEW d, NEW e, e.tags = d.tags, e.files = d.files, NEW n
  PROVE  get_tag_id(e, n) = get_tag_id(d, n) /\ get_file_id(e, n) = get_file_id(d, n)
BY DEF get_tag_id, get_file_id, TagsNamed, FilesNamed

(* What a rename that is let through does to the rows.                     *)
LEMMA RenameEffect ==
  ASSUME Inv, NEW from \in Paths, NEW to \in Paths, Rename(from, to),
         db' # db \/ reply' = KW_SUCCESS
  PROVE  LET fno == get_file_id(db, EntryName(from))
             old == get_tag_id(db, EntryName(ParentPath(from)))
             new == get_tag_id(db, EntryName(ParentPath(to)))
         IN /\ EntryName(from) = EntryName(to) /\ ParentPath(to) # Root
            /\ fno \in FileIds /\ old \in TagIds
            /\ \/ /\ new \in TagIds
                  /\ \A t \in TagIds, f \in FileIds :
                       db'.fileAssoc[t][f] =
                         IF f # fno \/ t \notin {old, new} THEN db.fileAssoc[t][f]
                         ELSE IF t = new THEN 1 ELSE 0
               \/ /\ reply' # KW_SUCCESS
                  /\ new = KW_FAIL \/ (new # old /\ db'.fileAssoc[new][fno] > 0)
                  /\ \A t \in TagIds, f \in FileIds :
                       db'.fileAssoc[t][f] = IF f = fno /\ t = old THEN 0 ELSE db.fileAssoc[t][f]
<1> DEFINE file  == EntryName(from)
           above == EntryName(ParentPath(from))
           below == EntryName(ParentPath(to))
           fno   == get_file_id(db, file)
           old   == get_tag_id(db, above)
           new   == get_tag_id(db, below)
           taken == untag_file(db, above, file)
           put   == tag_file(taken.db, below, file)
<1>1. /\ Movable(from, to) /\ ParentPath(from) # Root /\ ParentPath(to) # Root
      /\ taken.code = KW_SUCCESS
      /\ db' = put.db
      /\ reply' = KW_SUCCESS => put.code = KW_SUCCESS
  BY RenameLetThrough
<1>2. Sound(db)
  BY DEF Inv, TablesSound
<1>3. /\ from \in Seq(Names) /\ to \in Seq(Names) /\ from # Root /\ to # Root
  BY PathsAssumption
<1>4. above # NoRow /\ below # NoRow
  BY <1>1, <1>3, EntryIsName
<1>5. /\ old \in TagIds /\ fno \in FileIds
      /\ db.tags[old] # NoRow /\ db.files[fno] # NoRow
      /\ taken.db.tags = db.tags /\ taken.db.files = db.files
      /\ \A t \in TagIds, f \in FileIds :
           taken.db.fileAssoc[t][f] = IF t = old /\ f = fno THEN 0 ELSE db.fileAssoc[t][f]
  BY <1>1, <1>2, <1>4, UntagEffect
<1>6. Sound(taken.db)
  BY <1>2, <1>4, UntagAnyFile
<1>7. get_tag_id(taken.db, below) = new /\ get_file_id(taken.db, file) = fno
  BY <1>5, SameIds
<1>8. \/ /\ put.db = taken.db /\ put.code # KW_SUCCESS
         /\ fno = KW_FAIL \/ new = KW_FAIL \/ taken.db.fileAssoc[new][fno] > 0
      \/ /\ new \in TagIds /\ fno \in FileIds
         /\ \A t \in TagIds, f \in FileIds :
              put.db.fileAssoc[t][f] =
                IF t = new /\ f = fno THEN 1 ELSE taken.db.fileAssoc[t][f]
  <2> HIDE DEF taken
  <2> QED BY <1>4, <1>6, <1>7, TagEffect
<1>9. EntryName(from) = EntryName(to)
  BY <1>1 DEF Movable
<1>10. fno # KW_FAIL
  BY <1>5 DEF FileIds, KW_FAIL
<1> HIDE DEF taken, put, fno, old, new, above, below, file
<1>11. CASE /\ put.db = taken.db /\ put.code # KW_SUCCESS
            /\ fno = KW_FAIL \/ new = KW_FAIL \/ taken.db.fileAssoc[new][fno] > 0
  <2>1. new = KW_FAIL \/ (new # old /\ db'.fileAssoc[new][fno] > 0)
    BY <1>1, <1>5, <1>10, <1>11
  <2>2. \A t \in TagIds, f \in FileIds :
          db'.fileAssoc[t][f] = IF f = fno /\ t = old THEN 0 ELSE db.fileAssoc[t][f]
    BY <1>1, <1>5, <1>11
  <2> QED BY <1>1, <1>5, <1>9, <1>11, <2>1, <2>2 DEF fno, old, new, above, below, file
<1>12. CASE /\ new \in TagIds /\ fno \in FileIds
            /\ \A t \in TagIds, f \in FileIds :
                 put.db.fileAssoc[t][f] =
                   IF t = new /\ f = fno THEN 1 ELSE taken.db.fileAssoc[t][f]
  <2>1. \A t \in TagIds, f \in FileIds :
          db'.fileAssoc[t][f] =
            IF f # fno \/ t \notin {old, new} THEN db.fileAssoc[t][f]
            ELSE IF t = new THEN 1 ELSE 0
    BY <1>1, <1>5, <1>12
  <2> QED BY <1>1, <1>5, <1>9, <1>12, <2>1 DEF fno, old, new, above, below, file
<1> QED BY <1>8, <1>11, <1>12

(* A rename that answers success moved that file from its old tag to the   *)
(* new one, and no other row changed.                                      *)
THEOREM RenamesMoveOneFile == Spec => RenameMovesOneFile
<1> DEFINE Moved(from, to) ==
             LET fno == get_file_id(db, EntryName(from))
                 old == get_tag_id(db, EntryName(ParentPath(from)))
                 new == get_tag_id(db, EntryName(ParentPath(to)))
             IN \A t \in TagIds, f \in FileIds :
                  db'.fileAssoc[t][f] =
                    IF f # fno \/ t \notin {old, new} THEN db.fileAssoc[t][f]
                    ELSE IF t = new THEN 1 ELSE 0
           A == reply' = KW_SUCCESS =>
                  \A from \in Paths : \A to \in SameName(from) :
                    Rename(from, to) => Moved(from, to)
<1>1. ASSUME Inv PROVE A
  <2>1. SUFFICES ASSUME reply' = KW_SUCCESS, NEW from \in Paths, NEW to \in SameName(from),
                        Rename(from, to)
                 PROVE  Moved(from, to)
    OBVIOUS
  <2>2. to \in Paths
    BY DEF SameName
  <2> QED BY <1>1, <2>1, <2>2, RenameEffect
<1>2. Inv /\ [Next]_vars => [A]_vars
  BY <1>1
<1>3. RenameMovesOneFile <=> [][A]_vars
  BY DEF RenameMovesOneFile
<1> QED BY <1>2, <1>3, FuseAlways, PTL DEF Spec

(* A rename into a tag directory that is there loses no file: a second half that *)
(* is refused is refused because the file is under the new tag already.    *)
THEOREM RenamesKeepFiles == Spec => RenameKeepsFiles
<1> DEFINE A == \A f \in FileIds :
                  UnderSomeTag(db, f) /\ ~UnderSomeTag(db', f)
                    => ~\E from, to \in Paths : IsTagDir(ParentPath(to)) /\ Rename(from, to)
<1>1. ASSUME Inv PROVE A
  <2>1. SUFFICES ASSUME NEW f \in FileIds, UnderSomeTag(db, f), ~UnderSomeTag(db', f),
                        NEW from \in Paths, NEW to \in Paths,
                        IsTagDir(ParentPath(to)), Rename(from, to)
                 PROVE  FALSE
    OBVIOUS
  <2> DEFINE fno   == get_file_id(db, EntryName(from))
             old   == get_tag_id(db, EntryName(ParentPath(from)))
             new   == get_tag_id(db, EntryName(ParentPath(to)))
             below == EntryName(ParentPath(to))
  <2>2. db' # db
    BY <2>1
  <2>3. /\ ParentPath(to) # Root /\ fno \in FileIds /\ old \in TagIds
        /\ \/ /\ new \in TagIds
              /\ \A t \in TagIds, g \in FileIds :
                   db'.fileAssoc[t][g] =
                     IF g # fno \/ t \notin {old, new} THEN db.fileAssoc[t][g]
                     ELSE IF t = new THEN 1 ELSE 0
           \/ /\ new = KW_FAIL \/ (new # old /\ db'.fileAssoc[new][fno] > 0)
              /\ \A t \in TagIds, g \in FileIds :
                   db'.fileAssoc[t][g] = IF g = fno /\ t = old THEN 0 ELSE db.fileAssoc[t][g]
    BY <1>1, <2>1, <2>2, RenameEffect
  <2>4. to \in Seq(Names) /\ to # Root /\ Sound(db)
    BY <1>1, PathsAssumption DEF Inv, TablesSound
  <2>5. new \in TagIds
    <3>1. ParentPath(to) \in Seq(Names) /\ below # NoRow
      BY <2>3, <2>4, EntryIsName
    <3>2. LooksLikeDir(ParentPath(to))
      <4>1. Len(ParentPath(to)) \in 0..Len(ParentPath(to))
        BY <3>1
      <4>2. SubSeq(ParentPath(to), 1, Len(ParentPath(to))) = ParentPath(to)
        BY <3>1, SubSeqFull
      <4> QED BY <2>1, <4>1, <4>2 DEF IsTagDir, IsDir
    <3>3. istag(db, below)
      BY <2>1, <3>2 DEF LooksLikeDir, IsTagDir, path_is_dir
    <3>4. PICK t \in TagIds : db.tags[t] = below
      BY <3>3 DEF istag, TagsNamed
    <3>5. below \in TagNames
      BY <2>4, <3>1, <3>4 DEF Sound, Databases, TagTable
    <3> QED BY <2>4, <3>4, <3>5, TagIdFound DEF Sound
  <2>6. new # KW_FAIL
    BY <2>5 DEF TagIds, KW_FAIL
  <2> HIDE DEF fno, old, new, below
  <2>7. f = fno
    <3>1. SUFFICES ASSUME f # fno PROVE FALSE
      OBVIOUS
    <3>2. \A t \in TagIds : db'.fileAssoc[t][f] = db.fileAssoc[t][f]
      BY <2>3, <3>1
    <3> QED BY <2>1, <3>2 DEF UnderSomeTag
  <2>8. db'.fileAssoc[new][fno] > 0
    BY <2>3, <2>5, <2>6
  <2> QED BY <2>1, <2>5, <2>7, <2>8 DEF UnderSomeTag
<1>2. Inv /\ [Next]_vars => [A]_vars
  BY <1>1
<1>3. RenameKeepsFiles <=> [][A]_vars
  BY DEF RenameKeepsFiles
<1> QED BY <1>2, <1>3, FuseAlways, PTL DEF Spec

-----------------------------------------------------------------------------
(* Directories made with mkdir.                                            *)

(* A relation changes one count, and none when it is refused.              *)
LEMMA RelateEffect ==
  ASSUME NEW d, Sound(d), NEW m, m # NoRow, NEW n, n # NoRow
  PROVE  LET t == get_tag_id(d, m)
             u == get_tag_id(d, n)
             r == add_association(d, m, n, ASSOC_SUBGROUP)
         IN \/ r.db = d
            \/ /\ t \in TagIds /\ u \in TagIds /\ d.tags[t] = m /\ d.tags[u] = n
               /\ \A v, w \in TagIds, b \in AssocIds :
                    r.db.tagAssoc[v][w][b] =
                      IF v = t /\ w = u /\ b = ASSOC_SUBGROUP THEN d.tagAssoc[v][w][b] + 1
                      ELSE d.tagAssoc[v][w][b]
<1> DEFINE t == get_tag_id(d, m)
           u == get_tag_id(d, n)
           r == add_association(d, m, n, ASSOC_SUBGROUP)
<1>1. SUFFICES ASSUME r.db # d
               PROVE  /\ t \in TagIds /\ u \in TagIds /\ d.tags[t] = m /\ d.tags[u] = n
                      /\ \A v, w \in TagIds, b \in AssocIds :
                           r.db.tagAssoc[v][w][b] =
                             IF v = t /\ w = u /\ b = ASSOC_SUBGROUP THEN d.tagAssoc[v][w][b] + 1
                             ELSE d.tagAssoc[v][w][b]
  OBVIOUS
<1>2. t # KW_FAIL /\ u # KW_FAIL
  BY <1>1 DEF add_association, Return
<1>3. r.db = [d EXCEPT !.tagAssoc[t][u][ASSOC_SUBGROUP] = @ + 1]
  BY <1>1 DEF add_association, Return
<1>4. m \in TagNames /\ n \in TagNames /\ d \in Databases /\ UniqueNamesOf(d)
  BY <1>2, UnknownTag DEF Sound
<1>5. t \in TagIds /\ u \in TagIds /\ d.tags[t] = m /\ d.tags[u] = n
  BY <1>2, <1>4, TagIdFound
<1> HIDE DEF t, u, r
<1>6. \A v, w \in TagIds, b \in AssocIds :
        r.db.tagAssoc[v][w][b] =
          IF v = t /\ w = u /\ b = ASSOC_SUBGROUP THEN d.tagAssoc[v][w][b] + 1
          ELSE d.tagAssoc[v][w][b]
  BY <1>3, <1>4, <1>5, SubgroupAssumption DEF Databases, TagAssociationTable
<1> QED BY <1>5, <1>6

(* The id of a directory is larger than that of any tag there was.         *)
LEMMA NewDirectoryId ==
  ASSUME NEW d, Sound(d), NEW n \in TagNames,
         add_tag(d, n, USER_MADE_TAG).code = KW_SUCCESS
  PROVE  \E t \in TagIds :
           /\ add_tag(d, n, USER_MADE_TAG).db = [d EXCEPT !.tags[t] = n]
           /\ get_tag_id(d, n) = KW_FAIL
           /\ \A u \in TagIds : d.tags[u] # NoRow => u < t
<1> DEFINE ids  == IdsOf(USER_MADE_TAG)
           used == {t \in ids : d.tags[t] # NoRow}
           tno  == set_tag_id(d, n, USER_MADE_TAG)
<1>1. /\ tno # KW_FAIL /\ Insertable(d.tags, tno)
      /\ add_tag(d, n, USER_MADE_TAG).db = [d EXCEPT !.tags[tno] = n]
  BY DEF add_tag, Return, KW_SUCCESS, KW_FAIL, KW_ERROR
<1>2. d \in Databases /\ tno \in TagIds
  BY <1>1 DEF Sound, Databases, TagTable, Insertable
<1>3. get_tag_id(d, n) = KW_FAIL /\ tno = IdAfter(used, FirstIdOf(USER_MADE_TAG))
  BY <1>1 DEF set_tag_id
<1>4. ids = {t \in TagIds : UserMadeTag <= t} /\ FirstIdOf(USER_MADE_TAG) = UserMadeTag
  BY DEF IdsOf, FirstIdOf, USER_TAG, SYSTEM_TAG, USER_MADE_TAG
<1> HIDE DEF tno, ids
<1>5. used \subseteq 0..MaxTno
  BY <1>4 DEF TagIds
<1>6. ASSUME NEW u \in TagIds, d.tags[u] # NoRow PROVE u < tno
  <2> SUFFICES u < tno
    OBVIOUS
  <2>1. CASE used = {}
    <3>1. tno = UserMadeTag /\ u \notin ids
      BY <1>3, <1>4, <1>6, <2>1 DEF IdAfter
    <3> QED BY <3>1, <1>4, BoundAssumption DEF TagIds
  <2>2. CASE used # {}
    <3>1. tno = Max(used) + 1
      BY <1>3, <2>2 DEF IdAfter
    <3> HIDE DEF used
    <3>2. PICK top : top = Max(used)
      OBVIOUS
    <3>3. top \in used /\ \A y \in used : top >= y
      BY <1>5, <2>2, <3>2, MaxExists, BoundAssumption
    <3>4. top \in TagIds /\ UserMadeTag <= top
      BY <1>4, <3>3 DEF used
    <3>5. CASE u \in used
      BY <3>1, <3>2, <3>3, <3>4, <3>5 DEF TagIds
    <3>6. CASE u \notin used
      <4>1. ~(UserMadeTag <= u)
        BY <1>4, <1>6, <3>6 DEF used
      <4> QED BY <4>1, <3>1, <3>2, <3>4, BoundAssumption DEF TagIds
    <3> QED BY <3>5, <3>6
  <2> QED BY <2>1, <2>2
<1> QED BY <1>1, <1>2, <1>3, <1>6

(* A directory made where the kernel found none is below a tag with a      *)
(* smaller id, so mkdir never closes a cycle of subgroups.                 *)
THEOREM DirectoriesPointDown == Spec => MadeTagsPointDown
<1> DEFINE A == \A t, u \in TagIds, a \in AssocIds :
                  t <= u /\ db'.tagAssoc[t][u][a] > db.tagAssoc[t][u][a]
                    => ~\E path \in Paths :
                          ParentPath(path) # Root /\ IsFree(path) /\ Mkdir(path)
<1>1. ASSUME Inv PROVE A
  <2>1. SUFFICES ASSUME NEW t \in TagIds, NEW u \in TagIds, NEW a \in AssocIds,
                        t <= u, db'.tagAssoc[t][u][a] > db.tagAssoc[t][u][a],
                        NEW path \in Paths, ParentPath(path) # Root, IsFree(path), Mkdir(path)
                 PROVE  FALSE
    OBVIOUS
  <2>2. path \in Seq(Names) /\ path # Root /\ Sound(db)
    BY <1>1, PathsAssumption DEF Inv, TablesSound
  <2>3. db.tagAssoc[t][u][a] \in Nat
    BY <2>2 DEF Sound, Databases, TagAssociationTable
  <2> DEFINE newtag == EntryName(path)
             parent == EntryName(ParentPath(path))
             added  == add_tag(db, newtag, USER_MADE_TAG)
             placed == add_association(added.db, newtag, parent, ASSOC_SUBGROUP)
  <2>4. newtag \in TagNames /\ newtag # NoRow /\ parent # NoRow
    BY <2>1, <2>2, EntryIsName DEF Mkdir
  <2>5. added.code = KW_SUCCESS /\ db' = placed.db
    <3>1. Validity(path) = ENOENT
      BY <2>1, <2>3 DEF Mkdir, Refused
    <3>2. PICK made \in make_directory(db, path) : db' = made.db
      BY <2>1, <3>1 DEF Mkdir
    <3>3. added.code = KW_SUCCESS
      <4>1. SUFFICES ASSUME added.code # KW_SUCCESS PROVE FALSE
        OBVIOUS
      <4>2. made = Return(db, KW_FAIL)
        BY <3>2, <4>1 DEF make_directory
      <4> QED BY <2>1, <2>3, <3>2, <4>2 DEF Return
    <3>4. made.db = placed.db
      BY <2>1, <3>2, <3>3 DEF make_directory, Return
    <3> QED BY <3>2, <3>3, <3>4
  <2>6. PICK new \in TagIds :
          /\ added.db = [db EXCEPT !.tags[new] = newtag]
          /\ get_tag_id(db, newtag) = KW_FAIL
          /\ \A v \in TagIds : db.tags[v] # NoRow => v < new
    BY <2>2, <2>4, <2>5, NewDirectoryId
  <2>7. Sound(added.db)
    BY <2>2, <2>4, AddTagSound DEF TagTypes
  <2>8. /\ added.db.tagAssoc = db.tagAssoc
        /\ \A v \in TagIds : added.db.tags[v] = IF v = new THEN newtag ELSE db.tags[v]
    BY <2>2, <2>6 DEF Sound, Databases, TagTable
  <2>9. parent # newtag
    <3>1. SUFFICES ASSUME parent = newtag PROVE FALSE
      OBVIOUS
    <3>2. LooksLikeDir(ParentPath(path))
      <4>1. ParentPath(path) \in Seq(Names)
        BY <2>2, EntryIsName
      <4>2. /\ Len(ParentPath(path)) \in 0..Len(ParentPath(path))
            /\ SubSeq(ParentPath(path), 1, Len(ParentPath(path))) = ParentPath(path)
        BY <4>1, SubSeqFull
      <4> QED BY <2>1, <4>2 DEF IsFree, IsDir
    <3>3. newtag \notin SuggestedTags
      BY <2>1, <2>2 DEF IsFree, getattr, KW_SUCCESS, ENOENT, EIO
    <3>4. istag(db, newtag)
      BY <2>1, <3>1, <3>2, <3>3 DEF LooksLikeDir, path_is_dir
    <3>5. PICK v \in TagIds : db.tags[v] = newtag
      BY <3>4 DEF istag, TagsNamed
    <3> QED BY <2>2, <2>4, <2>6, <3>5, TagIdFound DEF Sound, TagIds, KW_FAIL
  <2> HIDE DEF newtag, parent, added, placed
  <2>10. \/ placed.db = added.db
         \/ \E v, w \in TagIds :
              /\ added.db.tags[v] = newtag /\ added.db.tags[w] = parent
              /\ \A x, y \in TagIds, b \in AssocIds :
                   ~(x = v /\ y = w) => placed.db.tagAssoc[x][y][b] = added.db.tagAssoc[x][y][b]
    <3> DEFINE v == get_tag_id(added.db, newtag)
               w == get_tag_id(added.db, parent)
    <3>1. placed = add_association(added.db, newtag, parent, ASSOC_SUBGROUP)
      BY DEF placed
    <3>2. \/ placed.db = added.db
          \/ /\ v \in TagIds /\ w \in TagIds
             /\ added.db.tags[v] = newtag /\ added.db.tags[w] = parent
             /\ \A x, y \in TagIds, b \in AssocIds :
                  placed.db.tagAssoc[x][y][b] =
                    IF x = v /\ y = w /\ b = ASSOC_SUBGROUP THEN added.db.tagAssoc[x][y][b] + 1
                    ELSE added.db.tagAssoc[x][y][b]
      BY <2>4, <2>7, <3>1, RelateEffect
    <3> HIDE DEF v, w
    <3> QED BY <3>2
  <2>11. placed.db # added.db
    BY <2>1, <2>3, <2>5, <2>8
  <2>12. /\ added.db.tags[t] = newtag /\ added.db.tags[u] = parent
    BY <2>1, <2>3, <2>5, <2>8, <2>10, <2>11
  <2>13. t = new
    <3>1. SUFFICES ASSUME t # new PROVE FALSE
      OBVIOUS
    <3>2. db.tags[t] = newtag
      BY <2>8, <2>12, <3>1
    <3> QED BY <2>2, <2>4, <2>6, <3>2, TagIdFound DEF Sound, TagIds, KW_FAIL
  <2>14. u < new
    BY <2>4, <2>6, <2>8, <2>9, <2>12
  <2> QED BY <2>1, <2>13, <2>14 DEF TagIds
<1>2. Inv /\ [Next]_vars => [A]_vars
  BY <1>1
<1>3. MadeTagsPointDown <=> [][A]_vars
  BY DEF MadeTagsPointDown
<1> QED BY <1>2, <1>3, FuseAlways, PTL DEF Spec

-----------------------------------------------------------------------------
(* Listings and lookups.                                                   *)

(* The calls about files leave the relations alone.                        *)
LEMMA FilesKeepRelations ==
  ASSUME NEW d, Sound(d), NEW t, NEW n
  PROVE  tag_file(d, t, n).db.tagAssoc = d.tagAssoc /\ untag_file(d, t, n).db.tagAssoc = d.tagAssoc
BY DEF tag_file, untag_file, Return, Sound, Databases

LEMMA MoveKeepsRelations ==
  ASSUME NEW d, Sound(d), NEW from \in Seq(Names), from # Root,
         NEW to \in Seq(Names), to # Root
  PROVE  move_file(d, from, to).db.tagAssoc = d.tagAssoc
<1> DEFINE file  == EntryName(from)
           old   == EntryName(ParentPath(from))
           new   == EntryName(ParentPath(to))
           taken == untag_file(d, old, file)
           put   == tag_file(taken.db, new, file)
<1>1. CASE ~Movable(from, to)
  BY <1>1 DEF move_file, Return
<1>2. CASE Movable(from, to) /\ Root \in {ParentPath(from), ParentPath(to)}
  BY <1>2 DEF move_file, Return
<1>3. CASE Movable(from, to) /\ Root \notin {ParentPath(from), ParentPath(to)}
  <2>1. move_file(d, from, to)
          = IF taken.code # KW_SUCCESS THEN Return(d, KW_ERROR)
            ELSE Return(put.db, IF put.code = KW_SUCCESS THEN KW_SUCCESS ELSE KW_ERROR)
    BY <1>3 DEF move_file
  <2>2. Sound(taken.db) /\ taken.db.tagAssoc = d.tagAssoc
    BY <1>3, EntryIsName, UntagAnyFile, FilesKeepRelations
  <2> HIDE DEF taken
  <2>3. put.db.tagAssoc = d.tagAssoc
    BY <2>2, FilesKeepRelations
  <2> HIDE DEF put
  <2> QED BY <2>1, <2>3 DEF Return
<1> QED BY <1>1, <1>2, <1>3

LEMMA CopyKeepsRelations ==
  ASSUME NEW d, Sound(d), NEW from, NEW to
  PROVE  copy_file(d, from, to).db.tagAssoc = d.tagAssoc
BY FilesKeepRelations DEF copy_file, Return

LEMMA UnlinkKeepsRelations ==
  ASSUME NEW d, Sound(d), NEW path, NEW r \in remove_this_file(d, path)
  PROVE  r.db.tagAssoc = d.tagAssoc
<1> DEFINE Result(untagged) == Return(untagged.db, IF untagged.code = KW_SUCCESS
                                                   THEN KW_SUCCESS ELSE KW_FAIL)
           From(tag) == Result(untag_file(d, tag, EntryName(path)))
<1>1. \A tag : From(tag).db.tagAssoc = d.tagAssoc
  BY FilesKeepRelations DEF Return
<1>2. Return(d, KW_FAIL).db = d /\ Return(d, SIGSEGV).db = d
  BY DEF Return
<1>3. remove_this_file(d, path)
        = IF ParentPath(path) # Root THEN {From(EntryName(ParentPath(path)))}
          ELSE {From(tag) : tag \in TagNames} \cup {Return(d, KW_FAIL), Return(d, SIGSEGV)}
  BY DEF remove_this_file
<1> HIDE DEF From, Result
<1> QED BY <1>1, <1>2, <1>3

(* A directory is made as a subgroup.                                      *)
LEMMA MkdirAddsSubgroups ==
  ASSUME NEW d, Sound(d), OnlySubgroups(d),
         NEW path \in Seq(Names), path # Root, EntryName(path) \in TagNames,
         NEW r \in make_directory(d, path)
  PROVE  OnlySubgroups(r.db)
<1> DEFINE above  == ParentPath(path)
           newtag == EntryName(path)
           added  == add_tag(d, newtag, USER_MADE_TAG)
           Placed(tag) == add_association(added.db, newtag, tag, ASSOC_SUBGROUP)
           Below(tag) == Return(Placed(tag).db, IF Placed(tag).code = KW_SUCCESS
                                                THEN KW_SUCCESS ELSE KW_FAIL)
<1>1. Sound(added.db)
  BY AddTagSound DEF TagTypes
<1>2. newtag # NoRow /\ (above # Root => EntryName(above) # NoRow)
  BY EntryIsName
<1>3. OnlySubgroups(added.db)
  <2>1. added.db.tagAssoc = d.tagAssoc
    BY DEF add_tag, Return, Sound, Databases
  <2> HIDE DEF added
  <2> QED BY <2>1 DEF OnlySubgroups
<1>4. make_directory(d, path)
        = CASE added.code # KW_SUCCESS -> {Return(d, KW_FAIL)}
            [] added.code = KW_SUCCESS /\ above # Root -> {Below(EntryName(above))}
            [] OTHER -> {Below(tag) : tag \in TagNames}
                          \cup {Return(added.db, KW_FAIL), Return(added.db, SIGSEGV)}
  BY DEF make_directory
<1> HIDE DEF added, above, newtag
<1>5. ASSUME NEW tag, tag # NoRow PROVE OnlySubgroups(Below(tag).db)
  <2> DEFINE placed == Placed(tag)
  <2>1. \/ placed.db = added.db
        \/ \A v, w \in TagIds, b \in AssocIds :
             b # ASSOC_SUBGROUP => placed.db.tagAssoc[v][w][b] = added.db.tagAssoc[v][w][b]
    <3> DEFINE low  == get_tag_id(added.db, newtag)
               high == get_tag_id(added.db, tag)
    <3>1. placed = add_association(added.db, newtag, tag, ASSOC_SUBGROUP)
      BY DEF placed, Placed
    <3>2. \/ placed.db = added.db
          \/ /\ low \in TagIds /\ high \in TagIds
             /\ added.db.tags[low] = newtag /\ added.db.tags[high] = tag
             /\ \A v, w \in TagIds, b \in AssocIds :
                  placed.db.tagAssoc[v][w][b] =
                    IF v = low /\ w = high /\ b = ASSOC_SUBGROUP
                    THEN added.db.tagAssoc[v][w][b] + 1
                    ELSE added.db.tagAssoc[v][w][b]
      BY <1>1, <1>2, <1>5, <3>1, RelateEffect
    <3> HIDE DEF low, high, placed
    <3> QED BY <3>2
  <2>2. Below(tag).db = placed.db
    BY DEF Return
  <2> HIDE DEF placed, Below, Placed
  <2> QED BY <1>3, <2>1, <2>2 DEF OnlySubgroups
<1>6. Return(d, KW_FAIL).db = d
      /\ Return(added.db, KW_FAIL).db = added.db /\ Return(added.db, SIGSEGV).db = added.db
  BY DEF Return
<1>7. \A tag \in TagNames : tag # NoRow
  BY NoRowAssumption
<1> HIDE DEF Below, Placed
<1> QED BY <1>2, <1>3, <1>4, <1>5, <1>6, <1>7

LEMMA RmdirKeepsSubgroups ==
  ASSUME NEW d, Sound(d), OnlySubgroups(d), NEW path
  PROVE  OnlySubgroups(remove_directory(d, path).db)
<1> DEFINE tno == get_tag_id(d, EntryName(path))
           e   == WithoutTag(d, tno)
<1>1. CASE tno = KW_FAIL
  BY <1>1 DEF remove_directory, remove_tag, Return
<1>2. CASE tno # KW_FAIL
  <2>1. remove_directory(d, path).db = e
    BY <1>2 DEF remove_directory, remove_tag, Return
  <2>2. \A v, w \in TagIds, b \in AssocIds :
          e.tagAssoc[v][w][b] > 0 => d.tagAssoc[v][w][b] > 0
    BY DEF WithoutTag
  <2> HIDE DEF e
  <2> QED BY <2>1, <2>2 DEF OnlySubgroups
<1> QED BY <1>1, <1>2

LEMMA CallsKeepSubgroups ==
  ASSUME Inv, OnlySubgroups(db), NEW path \in Paths, Calls(path)
  PROVE  OnlySubgroups(db')
<1>1. path \in Seq(Names) /\ path # Root /\ Sound(db)
  BY PathsAssumption DEF Inv, TablesSound
<1>2. ASSUME db' = db PROVE OnlySubgroups(db')
  BY <1>2
<1>3. ASSUME db'.tagAssoc = db.tagAssoc PROVE OnlySubgroups(db')
  BY <1>3 DEF OnlySubgroups
<1>4. CASE \/ Getattr(path) \/ Readdir(path) \/ Access(path) \/ Release(path)
           \/ Open(path) \/ Read(path) \/ SetAttributes(path)
  BY <1>2, <1>4 DEF Getattr, Readdir, Access, Release, Open, Read, SetAttributes, Refused
<1>5. ASSUME NEW c, Change(path, c) PROVE db' = db
  BY <1>5 DEF Change, Refused
<1>6. CASE Truncate(path) \/ \E c \in Contents : Write(path, c)
  BY <1>2, <1>5, <1>6 DEF Truncate, Write
<1>7. CASE Mkdir(path)
  <2>1. CASE Validity(path) # ENOENT
    BY <1>2, <1>7, <2>1 DEF Mkdir, Refused
  <2>2. CASE Validity(path) = ENOENT
    <3>1. PICK made \in make_directory(db, path) : db' = made.db
      BY <1>7, <2>2 DEF Mkdir
    <3> QED BY <1>1, <1>7, <3>1, MkdirAddsSubgroups DEF Mkdir
  <2> QED BY <2>1, <2>2
<1>8. CASE Rmdir(path)
  <2>1. CASE Validity(path) # KW_SUCCESS
    BY <1>2, <1>8, <2>1 DEF Rmdir, Refused
  <2>2. CASE Validity(path) = KW_SUCCESS
    BY <1>1, <1>8, <2>2, RmdirKeepsSubgroups DEF Rmdir
  <2> QED BY <2>1, <2>2
<1>9. CASE Unlink(path)
  <2>1. CASE Validity(path) # KW_SUCCESS
    BY <1>2, <1>9, <2>1 DEF Unlink, Refused
  <2>2. CASE Validity(path) = KW_SUCCESS
    <3>1. PICK removed \in remove_this_file(db, path) : db' = removed.db
      BY <1>9, <2>2 DEF Unlink
    <3> QED BY <1>1, <1>3, <3>1, UnlinkKeepsRelations
  <2> QED BY <2>1, <2>2
<1>10. CASE Mknod(path)
  <2>1. db' = db \/ db' = copy_file(db, cppath, path).db
    BY <1>10 DEF Mknod, Refused
  <2> QED BY <1>1, <1>2, <1>3, <2>1, CopyKeepsRelations
<1>11. ASSUME NEW to \in Paths, Rename(path, to) PROVE OnlySubgroups(db')
  <2>1. to \in Seq(Names) /\ to # Root
    BY PathsAssumption
  <2>2. db' = db \/ db' = move_file(db, path, to).db
    BY <1>11 DEF Rename, Refused
  <2> QED BY <1>1, <1>2, <1>3, <2>1, <2>2, MoveKeepsRelations
<1> QED BY <1>4, <1>6, <1>7, <1>8, <1>9, <1>10, <1>11 DEF Calls

(* A path one name longer.                                                 *)
LEMMA LongerPath ==
  ASSUME NEW path \in Seq(Names), path # Root, NEW n \in Names
  PROVE  /\ Append(path, n) # Root
         /\ EntryName(Append(path, n)) = n /\ ParentPath(Append(path, n)) = path
         /\ \A d : check_association(d, Append(path, n)) <=>
                     /\ check_association(d, path)
                     /\ get_association(d, n, EntryName(path)) \notin {KW_ERROR, KW_FAIL}
<1> DEFINE longer == Append(path, n)
           last   == Len(path)
<1>1. /\ last \in Nat /\ last > 0
  BY EmptySeq DEF Root
<1>2. /\ longer \in Seq(Names) /\ Len(longer) = last + 1
      /\ \A i \in 1..last : longer[i] = path[i]
      /\ longer[last + 1] = n
  BY AppendProperties
<1> HIDE DEF longer
<1>3. longer # Root
  BY <1>1, <1>2, EmptySeq DEF Root
<1>4. EntryName(longer) = n
  BY <1>2 DEF EntryName
<1>5. ParentPath(longer) = path
  <2>1. last \in 0..Len(longer) /\ Len(longer) - 1 = last
    BY <1>1, <1>2
  <2>2. /\ SubSeq(longer, 1, last) \in Seq(Names) /\ Len(SubSeq(longer, 1, last)) = last
        /\ \A i \in 1..last : SubSeq(longer, 1, last)[i] = longer[i]
    BY <1>2, <2>1, PathsAbove
  <2>3. \A i \in 1..last : SubSeq(longer, 1, last)[i] = path[i]
    BY <1>2, <2>2
  <2>4. SubSeq(longer, 1, last) = path
    BY <2>2, <2>3, SeqEqual
  <2> QED BY <2>1, <2>4 DEF ParentPath
<1>6. ASSUME NEW d
      PROVE  check_association(d, longer) <=>
               /\ check_association(d, path)
               /\ get_association(d, n, EntryName(path)) \notin {KW_ERROR, KW_FAIL}
  <2> DEFINE Related(m, above) == get_association(d, m, above) \notin {KW_ERROR, KW_FAIL}
  <2>1. check_association(d, longer) <=> \A i \in 2..(last + 1) : Related(longer[i], longer[i-1])
    BY <1>2 DEF check_association
  <2>2. check_association(d, path) <=> \A i \in 2..last : Related(path[i], path[i-1])
    BY DEF check_association
  <2>3. EntryName(path) = path[last]
    BY DEF EntryName
  <2> HIDE DEF Related, last
  <2>4. \A i \in 2..last : longer[i] = path[i] /\ longer[i-1] = path[i-1]
    BY <1>1, <1>2
  <2>5. last + 1 \in 2..(last + 1) /\ longer[last + 1] = n /\ longer[(last + 1) - 1] = path[last]
    BY <1>1, <1>2
  <2>6. \A i \in 2..(last + 1) : i \in 2..last \/ i = last + 1
    BY <1>1
  <2>7. 2..last \subseteq 2..(last + 1)
    BY <1>1
  <2>8. (\A i \in 2..(last + 1) : Related(longer[i], longer[i-1]))
          <=> (\A i \in 2..last : Related(path[i], path[i-1])) /\ Related(n, path[last])
    <3>1. ASSUME \A i \in 2..(last + 1) : Related(longer[i], longer[i-1])
          PROVE  (\A i \in 2..last : Related(path[i], path[i-1])) /\ Related(n, path[last])
      BY <2>4, <2>5, <2>7, <3>1
    <3>2. ASSUME \A i \in 2..last : Related(path[i], path[i-1]), Related(n, path[last])
          PROVE  \A i \in 2..(last + 1) : Related(longer[i], longer[i-1])
      BY <2>4, <2>5, <2>6, <3>2
    <3> QED BY <3>1, <3>2
  <2>9. Related(n, path[last]) <=>
          get_association(d, n, EntryName(path)) \notin {KW_ERROR, KW_FAIL}
    BY <2>3 DEF Related
  <2> QED BY <2>1, <2>2, <2>8, <2>9
<1> QED BY <1>3, <1>4, <1>5, <1>6 DEF longer

(* A tag that exists, and its id.                                          *)
LEMMA TagExists ==
  ASSUME NEW d, Sound(d), NEW n \in Names
  PROVE  istag(d, n) <=>
           /\ n \in TagNames /\ get_tag_id(d, n) \in TagIds /\ get_tag_id(d, n) # KW_FAIL
           /\ \A v \in TagIds : d.tags[v] = n <=> v = get_tag_id(d, n)
<1> DEFINE t == get_tag_id(d, n)
<1>1. n # NoRow
  BY NamesAssumption
<1>2. ASSUME istag(d, n)
      PROVE  /\ n \in TagNames /\ t \in TagIds /\ t # KW_FAIL
             /\ \A v \in TagIds : d.tags[v] = n <=> v = t
  <2>1. PICK w \in TagIds : d.tags[w] = n
    BY <1>2 DEF istag, TagsNamed
  <2>2. n \in TagNames
    BY <1>1, <2>1 DEF Sound, Databases, TagTable
  <2>3. t \in TagIds /\ t # KW_FAIL /\ d.tags[t] = n
    BY <2>1, <2>2, TagIdFound DEF Sound
  <2> HIDE DEF t
  <2> QED BY <1>1, <2>2, <2>3 DEF Sound, UniqueNamesOf
<1>3. ASSUME t \in TagIds, \A v \in TagIds : d.tags[v] = n <=> v = t
      PROVE  istag(d, n)
  <2> HIDE DEF t
  <2> QED BY <1>3 DEF istag, TagsNamed
<1> QED BY <1>2, <1>3

(* What is listed as a directory is looked up as one, and the other way    *)
(* round: both read the same row of TagAssociation.                        *)
LEMMA DirectoriesAgree ==
  ASSUME NEW d, Sound(d), OnlySubgroups(d),
         NEW above \in Names, istag(d, above), NEW n \in TagNames
  PROVE  istag(d, n) /\ get_association(d, n, above) \notin {KW_ERROR, KW_FAIL}
           <=> n \in get_tags_by_association(d, above, ASSOC_SUBGROUP)
<1> DEFINE t == get_tag_id(d, n)
           u == get_tag_id(d, above)
           listed == get_tags_by_association(d, above, ASSOC_SUBGROUP)
<1>1. n \in Names /\ n # NoRow
  BY NamesAssumption DEF Names
<1>2. u \in TagIds /\ u # KW_FAIL
  BY TagExists
<1>3. n \in listed <=> \E v \in TagIds : d.tags[v] = n /\ d.tagAssoc[v][u][ASSOC_SUBGROUP] > 0
  BY <1>1 DEF get_tags_by_association, is_association_type, KW_FAIL
<1>4. CASE ~istag(d, n)
  BY <1>3, <1>4 DEF istag, TagsNamed
<1>5. CASE istag(d, n)
  <2>1. t \in TagIds /\ t # KW_FAIL /\ \A v \in TagIds : d.tags[v] = n <=> v = t
    BY <1>1, <1>5, TagExists
  <2>2. n \in listed <=> d.tagAssoc[t][u][ASSOC_SUBGROUP] > 0
    BY <1>3, <2>1
  <2>3. get_association(d, n, above)
          = IF AssociationRows(d, t, u) = {} THEN KW_FAIL
            ELSE CHOOSE a \in AssociationRows(d, t, u) : TRUE
    BY <1>2, <2>1 DEF get_association
  <2>4. AssociationRows(d, t, u)
          = IF d.tagAssoc[t][u][ASSOC_SUBGROUP] > 0 THEN {ASSOC_SUBGROUP} ELSE {}
    <3> HIDE DEF t, u
    <3> QED BY <1>2, <2>1, SubgroupAssumption DEF AssociationRows, OnlySubgroups
  <2>5. (CHOOSE a \in {ASSOC_SUBGROUP} : TRUE) = ASSOC_SUBGROUP
    OBVIOUS
  <2>6. ASSOC_SUBGROUP \notin {KW_ERROR, KW_FAIL}
    BY DEF ASSOC_SUBGROUP, KW_ERROR, KW_FAIL
  <2> HIDE DEF t, u, listed
  <2> QED BY <1>5, <2>2, <2>3, <2>4, <2>5, <2>6 DEF listed
<1> QED BY <1>4, <1>5

(* What is listed as a file is found under the tag, and the other way      *)
(* round: a row is there once or not at all.                               *)
LEMMA FilesAgree ==
  ASSUME NEW d, Sound(d), NEW above \in Names, istag(d, above), NEW n \in FileNames
  PROVE  isfile(d, n) /\ is_file_tagged_as(d, n, above)
           <=> n \in get_fname_under_tag(d, above)
<1> DEFINE u == get_tag_id(d, above)
           f == get_file_id(d, n)
           Bears(g) == g \in FileIds /\ d.files[g] # NoRow /\ BaseName[d.files[g]] = n
<1>1. u \in TagIds
  BY TagExists
<1>2. n \in get_fname_under_tag(d, above) <=> \E g \in FileIds : Bears(g) /\ d.fileAssoc[u][g] > 0
  BY DEF get_fname_under_tag
<1>3. isfile(d, n) <=> \E g \in FileIds : Bears(g)
  BY DEF isfile, FilesNamed
<1>4. isfile(d, n) /\ is_file_tagged_as(d, n, above) <=> isfile(d, n) /\ d.fileAssoc[u][f] = 1
  BY DEF is_file_tagged_as
<1>5. CASE ~isfile(d, n)
  BY <1>2, <1>3, <1>5
<1>6. CASE isfile(d, n)
  <2>1. Bears(f)
    <3>1. PICK g \in FileIds : Bears(g)
      BY <1>3, <1>6
    <3> QED BY <3>1, FileIdFound DEF Sound
  <2> HIDE DEF u, f
  <2>2. \A g \in FileIds : Bears(g) <=> g = f
    BY <2>1 DEF Sound, UniqueNamesOf
  <2>3. d.fileAssoc[u][f] = 1 <=> d.fileAssoc[u][f] > 0
    BY <1>1, <2>1 DEF Sound, NoDuplicateRowsOf, Databases, FileAssociationTable
  <2> HIDE DEF Bears
  <2> QED BY <1>2, <1>4, <1>6, <2>1, <2>2, <2>3 DEF Bears
<1> QED BY <1>5, <1>6

(* In a directory that is looked up, listing and lookup agree.             *)
LEMMA ListingAgrees ==
  ASSUME NEW d, Sound(d), OnlySubgroups(d),
         NEW path \in Seq(Names), path # Root,
         istag(d, EntryName(path)), check_path_validity(d, path) = KW_SUCCESS
  PROVE  /\ \A n \in TagNames :
              /\ Append(path, n) # Root
              /\ /\ check_path_validity(d, Append(path, n)) = KW_SUCCESS
                 /\ path_is_dir(d, Append(path, n))
                 <=> n \in readdir_dirs(d, path)
         /\ \A n \in FileNames :
              /\ Append(path, n) # Root
              /\ check_path_validity(d, Append(path, n)) = KW_SUCCESS
                   <=> n \in IF istag(d, n) THEN readdir_dirs(d, path)
                             ELSE readdir_files(d, path)
<1> DEFINE above == EntryName(path)
<1>1. above \in Names /\ TagOf(path) = above
  BY EntryIsName DEF TagOf
<1>2. check_association(d, path)
  BY DEF check_path_validity, KW_SUCCESS, KW_FAIL
<1>3. ASSUME NEW n \in TagNames
      PROVE  /\ Append(path, n) # Root
             /\ /\ check_path_validity(d, Append(path, n)) = KW_SUCCESS
                /\ path_is_dir(d, Append(path, n))
                <=> n \in readdir_dirs(d, path)
  <2> DEFINE longer == Append(path, n)
  <2>1. n \in Names
    BY DEF Names
  <2>2. /\ longer # Root /\ EntryName(longer) = n
        /\ check_association(d, longer) <=>
             get_association(d, n, above) \notin {KW_ERROR, KW_FAIL}
    BY <1>2, <2>1, LongerPath
  <2> HIDE DEF longer, above
  <2>3. check_path_validity(d, longer) = KW_SUCCESS /\ path_is_dir(d, longer)
          <=> istag(d, n) /\ check_association(d, longer)
    BY <2>2 DEF check_path_validity, path_is_dir, KW_SUCCESS, KW_FAIL
  <2>4. istag(d, n) /\ get_association(d, n, above) \notin {KW_ERROR, KW_FAIL}
          <=> n \in readdir_dirs(d, path)
    BY <1>1, DirectoriesAgree DEF above, readdir_dirs
  <2> QED BY <2>2, <2>3, <2>4 DEF longer
<1>4. ASSUME NEW n \in FileNames, istag(d, n)
      PROVE  /\ Append(path, n) # Root
             /\ check_path_validity(d, Append(path, n)) = KW_SUCCESS
                  <=> n \in readdir_dirs(d, path)
  <2>1. n \in Names
    BY DEF Names
  <2>2. n \in TagNames
    BY <1>4, <2>1, TagExists
  <2>3. EntryName(Append(path, n)) = n
    BY <2>1, LongerPath
  <2>4. path_is_dir(d, Append(path, n))
    BY <1>4, <2>3 DEF path_is_dir
  <2> QED BY <1>3, <2>2, <2>4
<1>5. ASSUME NEW n \in FileNames, ~istag(d, n)
      PROVE  /\ Append(path, n) # Root
             /\ check_path_validity(d, Append(path, n)) = KW_SUCCESS
                  <=> n \in readdir_files(d, path)
  <2> DEFINE longer == Append(path, n)
  <2>1. n \in Names
    BY DEF Names
  <2>2. ~istag(d, n)
    BY <1>5
  <2>3. longer # Root /\ EntryName(longer) = n /\ ParentPath(longer) = path
    BY <2>1, LongerPath
  <2> HIDE DEF longer, above
  <2>4. check_path_validity(d, longer) = KW_SUCCESS
          <=> isfile(d, n) /\ is_file_tagged_as(d, n, above)
    BY <1>2, <2>2, <2>3 DEF above, check_path_validity, KW_SUCCESS, KW_FAIL, ENOENT, SIGSEGV
  <2>5. isfile(d, n) /\ is_file_tagged_as(d, n, above) <=> n \in readdir_files(d, path)
    BY <1>1, FilesAgree DEF above, readdir_files
  <2> QED BY <2>3, <2>4, <2>5 DEF longer
<1> QED BY <1>3, <1>4, <1>5

(* What is listed in a directory is found in it as what it was listed as,  *)
(* and what is found is listed, but for the files that a tag of the same   *)
(* name hides: whatever was called before and however tags and files are   *)
(* named, the two ways of reading the tables stay in step.                 *)
THEOREM ListingsMatch ==
  ASSUME OnlySubgroups(InitialDb)
  PROVE  Spec => []ListingMatchesLookup
<1> DEFINE Related == OnlySubgroups(db)
<1>1. Init => Related
  BY DEF Init
<1>2. Inv /\ Related /\ [Next]_vars => Related'
  <2> SUFFICES ASSUME Inv, Related, [Next]_vars PROVE Related'
    OBVIOUS
  <2>1. ASSUME NEW path \in Paths, Calls(path) PROVE Related'
    BY <2>1, CallsKeepSubgroups DEF OnlySubgroups
  <2>2. ASSUME NEW p \in AbsPaths, Vanish(p) PROVE Related'
    BY <2>2 DEF Vanish, OnlySubgroups
  <2>3. CASE UNCHANGED vars
    BY <2>3 DEF vars, OnlySubgroups
  <2> QED BY <2>1, <2>2, <2>3 DEF Next
<1>3. Inv /\ Related => ListingMatchesLookup
  <2> SUFFICES ASSUME Inv, Related,
                      NEW path \in Paths \cup {ParentPath(p) : p \in Paths}, ValidDir(path)
               PROVE  /\ \A n \in TagNames :
                           ValidDir(Append(path, n)) <=> n \in readdir_dirs(db, path)
                      /\ \A n \in FileNames :
                           Valid(Append(path, n)) <=>
                             n \in IF istag(db, n) THEN readdir_dirs(db, path)
                                   ELSE readdir_files(db, path)
    BY DEF ListingMatchesLookup
  <2>1. path \in Seq(Names)
    <3>1. CASE path \in Paths
      BY <3>1, PathsAssumption
    <3>2. CASE path \notin Paths
      <4>1. PICK p \in Paths : path = ParentPath(p)
        BY <3>2
      <4>2. p \in Seq(Names) /\ p # Root
        BY PathsAssumption
      <4> QED BY <4>1, <4>2, EntryIsName
    <3> QED BY <3>1, <3>2
  <2>2. /\ Sound(db) /\ path # Root
        /\ check_path_validity(db, path) = KW_SUCCESS /\ istag(db, EntryName(path))
    BY DEF Inv, TablesSound, ValidDir, Valid, path_is_dir
  <2> QED BY <2>1, <2>2, ListingAgrees DEF ValidDir, Valid
<1> QED BY <1>1, <1>2, <1>3, FuseAlways, PTL DEF Spec

=============================================================================
