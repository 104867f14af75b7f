------------------------------ MODULE KwestFuse ------------------------------
(***************************************************************************)
(* The kwest daemon: the handlers of fusefunc.c, which the kernel calls    *)
(* with paths of the mounted file system.  A handler runs as one step here;*)
(* KwestStatements takes the calls it makes statement by statement.        *)
(*                                                                         *)
(* Beside the database the daemon keeps one static buffer, the path of the *)
(* file opened or read last, from which mknod guesses that a file is being *)
(* copied and write and truncate that they are part of the copy.           *)
(***************************************************************************)
EXTENDS KwestPaths

CONSTANTS
  Paths,      \* the paths the handlers are called with
  Contents,   \* what a file on the disk may hold
  Empty,      \* the contents of a truncated file
  Absent,     \* marks an absolute path where there is no file
  InitialDb,  \* the database the program starts the daemon with
  InitialDisk \* [AbsPaths -> contents]

ASSUME PathsAssumption ==
  Paths \subseteq Seq(Names) /\ Root \notin Paths
ASSUME DiskAssumption ==
  /\ Empty \in Contents /\ Absent \notin Contents
  /\ InitialDisk \in [AbsPaths -> Contents \cup {Absent}]
ASSUME InitialDbAssumption == Sound(InitialDb)

VARIABLES
  db,      \* the database
  disk,    \* [AbsPaths -> contents]: the files themselves
  cppath,  \* get_cp_path(): the path opened last, Root standing for ""
  alive,   \* the daemon has not been killed
  reply    \* what the last handler answered; byte counts are KW_SUCCESS

vars == <<db, disk, cppath, alive, reply>>

Disks == [AbsPaths -> Contents \cup {Absent}]

(* The buffer is cut in place, so it may hold a path above such a path.    *)
CopyPaths == {Root} \cup UNION {{SubSeq(p, 1, i) : i \in 0..Len(p)} : p \in Paths}

Init == /\ db = InitialDb /\ disk = InitialDisk
        /\ cppath = Root /\ alive = TRUE /\ reply = KW_SUCCESS

-----------------------------------------------------------------------------
Answers == {KW_SUCCESS, KW_FAIL, KW_ERROR, EPERM, ENOENT, EIO, EACCES, SIGSEGV}

(* A handler answers, and leaves what it does not mention alone.           *)

Answer(code) == reply' = code /\ alive' = (code # SIGSEGV)

Refused(code) == Answer(code) /\ UNCHANGED <<db, disk, cppath>>

(* The checks most handlers begin with.                                    *)
Validity(path) ==
  LET valid == check_path_validity(db, path)
  IN IF valid \in {KW_SUCCESS, SIGSEGV} THEN valid ELSE ENOENT

(* stat, open, chmod, ... of the file on the disk.                         *)
OnDisk(abspath, missing) == IF disk[abspath] = Absent THEN missing ELSE KW_SUCCESS

Suggested(path) == path # Root /\ EntryName(path) \in DOMAIN SuggestedFile
SuggestedPath(path) == get_abspath_by_fname(db, SuggestedFile[EntryName(path)])

(* stat of a suggested file may fail and is answered all the same.         *)
getattr(path) ==
  CASE path = Root -> KW_SUCCESS
    [] Suggested(path) -> IF SuggestedPath(path) = NoRow THEN EIO ELSE KW_SUCCESS
    [] path # Root /\ ~Suggested(path) /\ EntryName(path) \in SuggestedTags -> KW_SUCCESS
    [] OTHER ->
         LET valid == Validity(path) IN
         IF valid # KW_SUCCESS THEN valid
         ELSE IF path_is_dir(db, path) THEN KW_SUCCESS
         ELSE IF path_is_file(db, path) THEN OnDisk(get_absolute_path(db, path), EIO)
         ELSE EACCES

Getattr(path) == Refused(getattr(path))

(* No check of the path; what is listed is in KwestPaths.  Nor does access *)
(* check anything, and release does nothing.                               *)
Readdir(path) == Refused(KW_SUCCESS)
Access(path)  == Refused(KW_SUCCESS)
Release(path) == Refused(KW_SUCCESS)

(* Directories are made with the names in TagNames.                        *)
Mkdir(path) ==
  EntryName(path) \in TagNames /\
  LET valid == Validity(path) IN
  IF valid # ENOENT
  THEN Refused(IF valid = KW_SUCCESS THEN ENOENT ELSE SIGSEGV)
  ELSE \E made \in make_directory(db, path) :
         Answer(made.code) /\ db' = made.db /\ UNCHANGED <<disk, cppath>>

Rmdir(path) ==
  LET valid == Validity(path) IN
  IF valid # KW_SUCCESS THEN Refused(valid)
  ELSE LET removed == remove_directory(db, path) IN
       Answer(removed.code) /\ db' = removed.db /\ UNCHANGED <<disk, cppath>>

Unlink(path) ==
  LET valid == Validity(path) IN
  IF valid # KW_SUCCESS THEN Refused(valid)
  ELSE \E removed \in remove_this_file(db, path) :
         Answer(removed.code) /\ db' = removed.db /\ UNCHANGED <<disk, cppath>>

Rename(from, to) ==
  LET valid == Validity(from) IN
  IF valid # KW_SUCCESS THEN Refused(valid)
  ELSE LET moved == move_file(db, from, to) IN
       Answer(moved.code) /\ db' = moved.db /\ UNCHANGED <<disk, cppath>>

(* A new file is made only as a copy of a file kwest knows by its name.    *)
(* The answer does not depend on whether the copy was made.                *)
Mknod(path) ==
  LET valid  == check_path_tags_validity(db, path)
      copied == copy_file(db, cppath, path)
  IN CASE valid # KW_SUCCESS -> Refused(IF valid = SIGSEGV THEN SIGSEGV ELSE ENOENT)
       [] valid = KW_SUCCESS /\ get_absolute_path(db, path) = NoRow -> Refused(EIO)
       [] OTHER ->
            /\ Answer(IF copied.code = SIGSEGV THEN SIGSEGV ELSE KW_SUCCESS)
            /\ db' = copied.db
            /\ cppath' = IF cppath = Root \/ ~Movable(cppath, path)
                         THEN cppath ELSE ParentPath(cppath)
            /\ UNCHANGED disk

(* Opening a directory succeeds; reading one does not.                     *)
open_file(path, directory) ==
  LET valid == Validity(path) IN
  IF Suggested(path)
  THEN IF SuggestedPath(path) = NoRow THEN EIO ELSE OnDisk(SuggestedPath(path), ENOENT)
  ELSE IF valid # KW_SUCCESS THEN valid
  ELSE IF get_absolute_path(db, path) = NoRow THEN directory
  ELSE OnDisk(get_absolute_path(db, path), ENOENT)

Open(path) ==
  Answer(open_file(path, KW_SUCCESS)) /\ cppath' = path /\ UNCHANGED <<db, disk>>

Read(path) ==
  Answer(open_file(path, EIO)) /\ cppath' = path /\ UNCHANGED <<db, disk>>

(* write and truncate take a file of the name opened last for the target   *)
(* of a copy, and do nothing.                                              *)
Change(path, contents) ==
  LET abspath == get_absolute_path(db, path)
      valid   == Validity(path)
  IN
  CASE cppath = Root -> Refused(SIGSEGV)
    [] cppath # Root /\ EntryName(cppath) = EntryName(path) -> Refused(KW_SUCCESS)
    [] OTHER ->
         IF valid # KW_SUCCESS THEN Refused(valid)
         ELSE CASE abspath = NoRow -> Refused(EIO)
                [] abspath # NoRow /\ disk[abspath] = Absent -> Refused(ENOENT)
                [] OTHER -> /\ Answer(KW_SUCCESS)
                            /\ disk' = [disk EXCEPT ![abspath] = contents]
                            /\ UNCHANGED <<db, cppath>>

Write(path, contents) == Change(path, contents)
Truncate(path)        == Change(path, Empty)

(* chmod and chown: the modes and owners on the disk are left out.         *)
SetAttributes(path) ==
  LET abspath == get_absolute_path(db, path)
      valid   == Validity(path)
  IN Refused(IF valid # KW_SUCCESS THEN valid
             ELSE IF abspath = NoRow THEN EIO
             ELSE OnDisk(abspath, ENOENT))

(* Another program removes a file from the disk.                           *)
Vanish(p) ==
  /\ disk[p] # Absent
  /\ disk' = [disk EXCEPT ![p] = Absent]
  /\ UNCHANGED <<db, cppath, alive, reply>>

-----------------------------------------------------------------------------
(* What the kernel knows of a path when it has just looked it up, name by  *)
(* name.  It remembers an answer for a second, and a tag has many paths,   *)
(* so a handler may also be called with a path that is out of date.        *)

LooksLikeDir(path) ==
  path # Root =>
    /\ getattr(path) = KW_SUCCESS /\ ~Suggested(path)
    /\ EntryName(path) \in SuggestedTags \/ path_is_dir(db, path)

IsDir(path)  == \A i \in 0..Len(path) : LooksLikeDir(SubSeq(path, 1, i))
IsFile(path) == /\ IsDir(ParentPath(path)) /\ ~LooksLikeDir(path)
                /\ getattr(path) = KW_SUCCESS
IsFree(path) == IsDir(ParentPath(path)) /\ getattr(path) = ENOENT

(* Any handler may be called with any path.                                *)
Calls(path) ==
  \/ Getattr(path) \/ Readdir(path) \/ Access(path) \/ Release(path)
  \/ Mkdir(path) \/ Rmdir(path) \/ Unlink(path) \/ Mknod(path)
  \/ \E to \in Paths : Rename(path, to)
  \/ Open(path) \/ Read(path) \/ Truncate(path) \/ SetAttributes(path)
  \/ \E c \in Contents : Write(path, c)

Next == \/ alive /\ \E path \in Paths : Calls(path)
        \/ \E p \in AbsPaths : Vanish(p)

Spec == Init /\ [][Next]_vars

(* The calls of a kernel that has just looked the paths up.                *)
FreshCalls(path) ==
  \/ IsDir(ParentPath(path)) /\ (Getattr(path) \/ Access(path))
  \/ IsDir(path) /\ (Readdir(path) \/ Rmdir(path))
  \/ IsFree(path) /\ (Mkdir(path) \/ Mknod(path))
  \/ /\ IsFile(path)
     /\ \/ Open(path) \/ Read(path) \/ Truncate(path) \/ SetAttributes(path)
        \/ Release(path) \/ Unlink(path) \/ \E c \in Contents : Write(path, c)
  \/ /\ IsFile(path) \/ IsDir(path)
     /\ \E to \in Paths \ {path} : (IsFile(to) \/ IsFree(to)) /\ Rename(path, to)

FreshNext == \/ alive /\ \E path \in Paths : FreshCalls(path)
             \/ \E p \in AbsPaths : Vanish(p)

FreshSpec == Init /\ [][FreshNext]_vars

-----------------------------------------------------------------------------
TypeOK ==
  /\ db \in Databases /\ disk \in Disks /\ cppath \in CopyPaths
  /\ alive \in BOOLEAN
  /\ reply \in Answers

(* Whatever the kernel asks for, the tables stay sound: unique names, no   *)
(* row about a tag or file that is gone, no row twice.                     *)
TablesSound == Sound(db)

(* The daemon relates tags as subgroups only.                              *)
OnlySubgroups(d) ==
  \A t, u \in TagIds, a \in AssocIds : d.tagAssoc[t][u][a] > 0 => a = ASSOC_SUBGROUP

(* A listing and a lookup agree, below the mount point: what is listed in  *)
(* a directory is found in it as what it was listed as, and what is found  *)
(* is listed.  readdir_dirs and readdir_files read the rows of one tag,    *)
(* check_path_validity compares counts and relations along the path.  Only *)
(* a file with the name of a tag is listed and not found: the name is      *)
(* found where the tag is listed, and as the tag.                          *)
Valid(path)    == path # Root /\ check_path_validity(db, path) = KW_SUCCESS
ValidDir(path) == Valid(path) /\ path_is_dir(db, path)
ListingMatchesLookup ==
  \A path \in Paths \cup {ParentPath(p) : p \in Paths} :
    ValidDir(path) =>
      /\ \A n \in TagNames :
           ValidDir(Append(path, n)) <=> n \in readdir_dirs(db, path)
      /\ \A n \in FileNames :
           Valid(Append(path, n)) <=>
             n \in IF istag(db, n) THEN readdir_dirs(db, path) ELSE readdir_files(db, path)

(* A rename into a tag the kernel has just looked up takes no file its     *)
(* last tag, although rename_this_file takes the old tag away before it    *)
(* tries the new one, and reports some moves it made as failures.          *)
UnderSomeTag(d, f) == \E t \in TagIds : d.fileAssoc[t][f] > 0
IsTagDir(path) == path # Root /\ IsDir(path) /\ EntryName(path) \notin SuggestedTags
RenameKeepsFiles ==
  [][\A f \in FileIds :
       UnderSomeTag(db, f) /\ ~UnderSomeTag(db', f)
         => ~\E from, to \in Paths : IsTagDir(ParentPath(to)) /\ Rename(from, to)]_vars

(* A rename that answers success moved that file and no other: it is under *)
(* the new tag, and no longer under the old one if that is another tag.    *)
SameName(from) == {to \in Paths : EntryName(to) = EntryName(from)}
RenameMovesOneFile ==
  [][reply' = KW_SUCCESS =>
       \A from \in Paths : \A to \in SameName(from) :
         Rename(from, to) =>
           LET fno == get_file_id(db, EntryName(from))
               old == get_tag_id(db, EntryName(ParentPath(from)))
               new == get_tag_id(db, EntryName(ParentPath(to)))
           IN \A t \in TagIds, f \in FileIds :
                db'.fileAssoc[t][f] =
                  IF f # fno \/ t \notin {old, new} THEN db.fileAssoc[t][f]
                  ELSE IF t = new THEN 1 ELSE 0]_vars

(* A directory made where the kernel found none is below a tag with a      *)
(* smaller id, although ids come back, so directories made with mkdir      *)
(* never form a cycle, on which a walk of the subgroups like that of       *)
(* export would not end.                                                   *)
MadeTagsPointDown ==
  [][\A t, u \in TagIds, a \in AssocIds :
       t <= u /\ db'.tagAssoc[t][u][a] > db.tagAssoc[t][u][a]
         => ~\E path \in Paths : ParentPath(path) # Root /\ IsFree(path) /\ Mkdir(path)]_vars

(* A call that is answered with an error, or kills the daemon, has done at *)
(* most the first half of its work: a tag without relations made by mkdir, *)
(* or one file taken from one tag by rename.  It has put nothing anywhere  *)
(* and taken away no more than that.                                       *)
FailedCallsDoHalf ==
  [][reply' # KW_SUCCESS =>
       \/ db' = db
       \/ \E t \in TagIds, n \in TagNames :
            db.tags[t] = NoRow /\ db' = [db EXCEPT !.tags[t] = n]
       \/ \E t \in TagIds, f \in FileIds : db' = [db EXCEPT !.fileAssoc[t][f] = 0]]_vars

-----------------------------------------------------------------------------
(* Claims of comments that the code does not keep.                         *)

(* "@return -ENOENT on no_entry", -EIO, -EACCES (kwest_getattr): a look at *)
(* an entry that was listed is answered.                                   *)
ListedEntriesAnswer ==
  \A path \in {Root} \cup Paths :
    IsDir(path) => \A n \in readdir_dirs(db, path) \cup readdir_files(db, path) :
                     getattr(Append(path, n)) # SIGSEGV

(* "rename the said file from -> to" (rename_this_file): a file that is    *)
(* moved to a directory that was listed is not lost.                       *)
MovedFilesStay ==
  [][\A f \in FileIds :
       UnderSomeTag(db, f) /\ ~UnderSomeTag(db', f)
         => ~\E from, to \in Paths : Rename(from, to)]_vars

=============================================================================
