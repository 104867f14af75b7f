----------------------------- MODULE KwestPaths -----------------------------
(***************************************************************************)
(* How dbfuse.c reads a path of the mounted file system against the        *)
(* database.  A path is the sequence of the names between its slashes; the *)
(* mount point is the empty sequence.  A directory is a tag, a directory   *)
(* in it is a tag related to it as a subgroup, and a file in it is a file  *)
(* under the tag.  The same tag is reached by many paths.                  *)
(***************************************************************************)
EXTENDS KwestPlugins

CONSTANTS
  SuggestedFile, \* [names "SUGGESTEDFIL.. - f" -> the name f in them]
  SuggestedTags, \* the names "SUGGESTEDTAG.. - t"
  HarshNames     \* the names that begin with "harsh"

Names == TagNames \cup FileNames \cup DOMAIN SuggestedFile \cup SuggestedTags

ASSUME NamesAssumption == NoRow \notin Names

(* Answers of the handlers, beside KW_SUCCESS, KW_FAIL and KW_ERROR.       *)
(* KW_FAIL and -EPERM are the same number.                                 *)
EPERM  == -1
ENOENT == -2
EIO    == -5
EACCES == -13
SIGSEGV == 11   \* no answer: the daemon dies of an access through address 0 or 1

Root == <<>>
EntryName(path)  == path[Len(path)]                     \* get_entry_name
ParentPath(path) == SubSeq(path, 1, Len(path) - 1)

-----------------------------------------------------------------------------
(* dbbasic.c: the queries of the daemon.                                   *)

istag(db, n)  == TagsNamed(db, n) # {}
isfile(db, n) == FilesNamed(db, n) # {}

(* MUTANT: a file under any tag counts.                                    *)
is_file_tagged_as_any(db, f, t) ==
  /\ isfile(db, f) /\ istag(db, t)
  /\ \E u \in TagIds : db.fileAssoc[u][get_file_id(db, f)] = 1

(* The number of rows is compared with 1.                                  *)
is_file_tagged_as(db, f, t) ==
  /\ isfile(db, f) /\ istag(db, t)
  /\ db.fileAssoc[get_tag_id(db, t)][get_file_id(db, f)] = 1

get_abspath_by_fname(db, f) ==
  IF isfile(db, f) THEN db.files[get_file_id(db, f)] ELSE NoRow

get_fname_under_tag(db, t) ==
  {BaseName[db.files[f]] :
     f \in {g \in FileIds : /\ istag(db, t) /\ db.files[g] # NoRow
                            /\ db.fileAssoc[get_tag_id(db, t)][g] > 0}}

get_tags_by_association(db, t, id) ==
  {db.tags[u] :
     u \in {v \in TagIds : /\ is_association_type(id) # 0
                           /\ istag(db, t) /\ db.tags[v] # NoRow
                           /\ db.tagAssoc[v][get_tag_id(db, t)][id] > 0}}

-----------------------------------------------------------------------------
(* dbfuse.c: paths.                                                        *)

(* Each name of the path is related to the one before it.  A relation of   *)
(* kind 1 is taken for the error code of the same number.                  *)
check_association(db, path) ==
  \A i \in 2..Len(path) :
    get_association(db, path[i], path[i-1]) \notin {KW_ERROR, KW_FAIL}

(* A name that is both a tag and a file is taken for the tag.  A file is   *)
(* sought under the tag before it, and there is none in "/f".              *)
check_path_validity(db, path) ==
  IF path = Root THEN KW_SUCCESS
  ELSE LET name == EntryName(path) above == ParentPath(path) IN
       CASE istag(db, name) ->
              IF check_association(db, path) THEN KW_SUCCESS ELSE KW_FAIL
         [] ~istag(db, name) /\ ~isfile(db, name) -> ENOENT
         [] ~istag(db, name) /\ isfile(db, name) ->
              CASE ~check_association(db, above) -> KW_FAIL
                [] check_association(db, above) /\ above = Root -> SIGSEGV
                [] OTHER -> IF is_file_tagged_as(db, name, EntryName(above))
                            THEN KW_SUCCESS ELSE ENOENT

(* The directory a new file is to be made in.                              *)
check_path_tags_validity(db, path) ==
  IF path = Root THEN KW_SUCCESS
  ELSE LET above == ParentPath(path) IN
       CASE above = Root -> SIGSEGV
         [] above # Root /\ ~istag(db, EntryName(above)) -> ENOENT
         [] OTHER -> IF check_association(db, above) THEN KW_SUCCESS ELSE KW_FAIL

path_is_dir(db, path)  == istag(db, EntryName(path))
path_is_file(db, path) == isfile(db, EntryName(path))
get_absolute_path(db, path) == get_abspath_by_fname(db, EntryName(path))

(* What a directory lists, as sets: the order of the rows is left out.     *)
TagOf(path) == IF path = Root THEN TAG_ROOT ELSE EntryName(path)
readdir_dirs(db, path)  == get_tags_by_association(db, TagOf(path), ASSOC_SUBGROUP)
readdir_files(db, path) == get_fname_under_tag(db, TagOf(path))

-----------------------------------------------------------------------------
(* dbfuse.c: changes.                                                      *)

(* rename_this_file takes a file from tag to tag: the names of the files   *)
(* must be the same, and the first tags too, but for a developer's home.   *)
Movable(from, to) ==
  /\ EntryName(from) = EntryName(to)
  /\ from[1] = to[1] \/ to[1] \in HarshNames

(* MUTANT: the file is put under its new tag before it leaves the old one. *)
move_file_tag_first(db, from, to) ==
  LET file  == EntryName(from)
      put   == tag_file(db, EntryName(ParentPath(to)), file)
      taken == untag_file(put.db, EntryName(ParentPath(from)), file)
  IN CASE ~Movable(from, to) -> Return(db, EPERM)
       [] Movable(from, to) /\ Root \in {ParentPath(from), ParentPath(to)} -> Return(db, SIGSEGV)
       [] OTHER -> Return(taken.db, IF put.code = KW_SUCCESS THEN taken.code ELSE KW_ERROR)

(* MUTANT: the file is untagged and tagged without a look at the results.  *)
move_file_unchecked(db, from, to) ==
  LET file  == EntryName(from)
      taken == untag_file(db, EntryName(ParentPath(from)), file)
      put   == tag_file_unchecked(taken.db, EntryName(ParentPath(to)), file)
  IN CASE ~Movable(from, to) -> Return(db, EPERM)
       [] Movable(from, to) /\ Root \in {ParentPath(from), ParentPath(to)} -> Return(db, SIGSEGV)
       [] OTHER -> Return(put.db, KW_SUCCESS)

(* MUTANT: a move leaves the file under its old tag, as a copy does.       *)
move_file_as_copy(db, from, to) ==
  LET put == tag_file(db, EntryName(ParentPath(to)), EntryName(from))
  IN CASE ~Movable(from, to) -> Return(db, EPERM)
       [] Movable(from, to) /\ Root \in {ParentPath(from), ParentPath(to)} -> Return(db, SIGSEGV)
       [] OTHER -> Return(put.db, IF put.code = KW_SUCCESS THEN KW_SUCCESS ELSE KW_ERROR)

(* DBFUSE_MV.  The file has lost its old tag when the new one is refused.  *)
move_file(db, from, to) ==
  LET file  == EntryName(from)
      taken == untag_file(db, EntryName(ParentPath(from)), file)
      put   == tag_file(taken.db, EntryName(ParentPath(to)), file)
  IN CASE ~Movable(from, to) -> Return(db, EPERM)
       [] Movable(from, to) /\ Root \in {ParentPath(from), ParentPath(to)} -> Return(db, SIGSEGV)
       [] OTHER ->
            IF taken.code # KW_SUCCESS THEN Return(db, KW_ERROR)
            ELSE Return(put.db, IF put.code = KW_SUCCESS THEN KW_SUCCESS ELSE KW_ERROR)

(* DBFUSE_CP, with the path of the file opened last, "" when there is none.*)
copy_file(db, from, to) ==
  CASE from = Root -> Return(db, SIGSEGV)
    [] from # Root /\ ~Movable(from, to) -> Return(db, EPERM)
    [] from # Root /\ Movable(from, to) /\ ParentPath(to) = Root -> Return(db, SIGSEGV)
    [] OTHER -> LET put == tag_file(db, EntryName(ParentPath(to)), EntryName(from))
                IN Return(put.db, IF put.code = KW_SUCCESS THEN KW_SUCCESS ELSE KW_ERROR)

(* What a call may do, as a set.  To find the tag above the last name it   *)
(* reads backwards from the name; in "/name" that runs off the front of    *)
(* the string, and finds some other string or no readable memory at all.   *)

remove_this_file(db, path) ==
  LET above == ParentPath(path)
      Result(untagged) == Return(untagged.db, IF untagged.code = KW_SUCCESS
                                              THEN KW_SUCCESS ELSE KW_FAIL)
      From(tag) == Result(untag_file(db, tag, EntryName(path)))
  IN IF above # Root THEN {From(EntryName(above))}
     ELSE {From(tag) : tag \in TagNames} \cup {Return(db, KW_FAIL), Return(db, SIGSEGV)}

(* MUTANT: a new tag goes above the directory it is made in.               *)
make_directory_inverted(db, path) ==
  LET above  == ParentPath(path)
      newtag == EntryName(path)
      added  == add_tag(db, newtag, USER_MADE_TAG)
      Below(tag) == add_association(added.db, tag, newtag, ASSOC_SUBGROUP)
  IN CASE added.code # KW_SUCCESS -> {Return(db, KW_FAIL)}
       [] added.code = KW_SUCCESS /\ above # Root -> {Below(EntryName(above))}
       [] OTHER -> {Below(tag) : tag \in TagNames}

(* The tag is made before its parent is known and stays without one.       *)
make_directory(db, path) ==
  LET above  == ParentPath(path)
      newtag == EntryName(path)
      added  == add_tag(db, newtag, USER_MADE_TAG)
      Result(placed) == Return(placed.db, IF placed.code = KW_SUCCESS
                                          THEN KW_SUCCESS ELSE KW_FAIL)
      Below(tag) == Result(add_association(added.db, newtag, tag, ASSOC_SUBGROUP))
  IN CASE added.code # KW_SUCCESS -> {Return(db, KW_FAIL)}
       [] added.code = KW_SUCCESS /\ above # Root -> {Below(EntryName(above))}
       [] OTHER -> {Below(tag) : tag \in TagNames}
                     \cup {Return(added.db, KW_FAIL), Return(added.db, SIGSEGV)}

(* MUTANT: answers the id of the tag it removed.                           *)
remove_directory_returning_id(db, path) ==
  LET removed == remove_tag(db, EntryName(path))
  IN Return(removed.db, IF removed.code = KW_SUCCESS
                        THEN get_tag_id(db, EntryName(path)) ELSE KW_FAIL)

remove_directory(db, path) ==
  LET removed == remove_tag(db, EntryName(path))
  IN Return(removed.db, IF removed.code = KW_SUCCESS THEN KW_SUCCESS ELSE KW_FAIL)

=============================================================================
