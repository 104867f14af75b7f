---------------------------- MODULE KwestTagStore ----------------------------
(***************************************************************************)
(* What the tag store promises its callers: a set of tags, a set of files  *)
(* with distinct names, which file is under which tag and which tag is     *)
(* related to which.  Everything is told by name; there are no ids, no     *)
(* rows and no duplicates.  KwestStore implements this specification.      *)
(***************************************************************************)
EXTENDS Integers

CONSTANTS
  TagNames, AbsPaths, BaseName, AssocIds,
  Describes  \* [AbsPaths -> the tags the metadata of a file is about]

VARIABLES
  tags,    \* the names of the tags
  paths,   \* the absolute paths of the files
  tagged,  \* <<tag, file name>>: the file is under the tag
  below,   \* <<tag, tag, association id>>: the first is related to the second
  code     \* what the last call returned

vars == <<tags, paths, tagged, below, code>>

Success == 0
Failure == -1
Error   == 1

Names == {BaseName[p] : p \in paths}

Init == /\ tags = {} /\ paths = {} /\ tagged = {} /\ below = {}
        /\ code = Success

(* A refused call changes nothing.                                         *)
Refuse(result) == code' = result /\ UNCHANGED <<tags, paths, tagged, below>>

(* What the calls do to the names.  A new tag starts with no files and no  *)
(* relations.                                                              *)
TagAdded(n) ==
  /\ n \notin tags /\ tags' = tags \cup {n}
  /\ UNCHANGED <<paths, tagged, below>>

(* Removing a tag takes its files' tags and its relations with it, and     *)
(* touches no other tag.                                                   *)
TagRemoved(n) ==
  /\ n \in tags /\ tags' = tags \ {n}
  /\ tagged' = {r \in tagged : r[1] # n}
  /\ below' = {r \in below : r[1] # n /\ r[2] # n}
  /\ UNCHANGED paths

(* A new file brings tags and relations its metadata is about, and is put  *)
(* under some of them.  No other file is, and nothing is taken away.       *)
FileAdded(p) ==
  /\ BaseName[p] \notin Names /\ paths' = paths \cup {p}
  /\ tags \subseteq tags' /\ tags' \subseteq tags \cup Describes[p]
  /\ tagged \subseteq tagged'
  /\ tagged' \subseteq tagged \cup Describes[p] \X {BaseName[p]}
  /\ below \subseteq below'
  /\ below' \subseteq below \cup Describes[p] \X Describes[p] \X AssocIds

FileRemoved(n) ==
  /\ n \in Names /\ paths' = {p \in paths : BaseName[p] # n}
  /\ tagged' = {r \in tagged : r[2] # n}
  /\ UNCHANGED <<tags, below>>

FileTagged(t, n) ==
  /\ t \in tags /\ n \in Names /\ <<t, n>> \notin tagged
  /\ tagged' = tagged \cup {<<t, n>>}
  /\ UNCHANGED <<tags, paths, below>>

FileUntagged(t, n) ==
  /\ t \in tags /\ n \in Names /\ tagged' = tagged \ {<<t, n>>}
  /\ UNCHANGED <<tags, paths, below>>

(* Two tags have at most one relation from the first to the second.        *)
TagsRelated(m, n, id) ==
  /\ m \in tags /\ n \in tags /\ \A a \in AssocIds : <<m, n, a>> \notin below
  /\ below' = below \cup {<<m, n, id>>}
  /\ UNCHANGED <<tags, paths, tagged>>

TagsUnrelated(m, n, id) ==
  /\ m \in tags /\ n \in tags /\ below' = below \ {<<m, n, id>>}
  /\ UNCHANGED <<tags, paths, tagged>>

(* The calls.  There may be no id left for a new tag or file.              *)
AddTag(n) ==
  \/ n \in tags /\ Refuse(Error)
  \/ n \notin tags /\ Refuse(Failure)
  \/ TagAdded(n) /\ code' = Success

RemoveTag(n) ==
  \/ n \notin tags /\ Refuse(Error)
  \/ TagRemoved(n) /\ code' = Success

AddFile(p) ==
  \/ BaseName[p] \in Names /\ Refuse(Error)
  \/ BaseName[p] \notin Names /\ Refuse(Failure)
  \/ FileAdded(p) /\ code' = Success

RemoveFile(n) ==
  \/ n \notin Names /\ Refuse(Error)
  \/ FileRemoved(n) /\ code' = Success

TagFile(t, n) ==
  \/ (t \notin tags \/ n \notin Names \/ <<t, n>> \in tagged) /\ Refuse(Error)
  \/ FileTagged(t, n) /\ code' = Success

UntagFile(t, n) ==
  \/ (t \notin tags \/ n \notin Names) /\ Refuse(Error)
  \/ FileUntagged(t, n) /\ code' = Success

AddAssociation(m, n, id) ==
  \/ /\ m \notin tags \/ n \notin tags \/ \E a \in AssocIds : <<m, n, a>> \in below
     /\ Refuse(Error)
  \/ TagsRelated(m, n, id) /\ code' = Success

RemoveAssociation(m, n, id) ==
  \/ (m \notin tags \/ n \notin tags) /\ Refuse(Error)
  \/ TagsUnrelated(m, n, id) /\ code' = Success

Next ==
  \/ \E n \in TagNames : AddTag(n) \/ RemoveTag(n)
  \/ \E p \in AbsPaths : AddFile(p)
  \/ \E p \in AbsPaths : RemoveFile(BaseName[p])
  \/ \E t \in TagNames, p \in AbsPaths :
       TagFile(t, BaseName[p]) \/ UntagFile(t, BaseName[p])
  \/ \E m, n \in TagNames, id \in AssocIds :
       AddAssociation(m, n, id) \/ RemoveAssociation(m, n, id)

Spec == Init /\ [][Next]_vars

=============================================================================
