------------------------------- MODULE MCFuse -------------------------------
(* Small instances of the daemon for TLC.                                  *)
EXTENDS KwestFuse, TLC

CONSTANTS song, text,           \* file names
          songpath, textpath,   \* their absolute paths
          songsuggested,        \* "SUGGESTEDFILPR - song"
          tagsuggested,         \* "SUGGESTEDTAGPR - " and the name of a tag
          c1, c2                \* contents

MCBaseName      == [p \in AbsPaths |-> IF p = songpath THEN song ELSE text]
MCMetadata      == [p \in AbsPaths |-> NoMetadata]
MCSuggestedFile == songsuggested :> song
MCNoSuggestion  == <<>>
MCDisk          == [p \in AbsPaths |-> c1]

(* The start of the program: "Files" below "Root", both files in it.       *)
MCFiles ==
  LET a == add_tag(EmptyDb, TAG_ROOT, SYSTEM_TAG).db
      b == add_tag(a, TAG_FILES, SYSTEM_TAG).db
      c == add_association(b, TAG_FILES, TAG_ROOT, ASSOC_SUBGROUP).db
      d == add_file(c, songpath).db
  IN tag_file(d, TAG_FILES, song).db

F == TAG_FILES
R == TAG_ROOT

(* Two directories, one inside the other or beside it, and a file.         *)
MCPaths ==
  {<<F>>, <<F, song>>, <<F, "A">>, <<F, "A", song>>, <<F, "A", "B">>, <<F, "A", "B", song>>,
   <<"A">>, <<F, "B">>}

(* The same tree seen from its top, which is itself a tag.                 *)
MCRootPaths == {<<F>>, <<F, song>>, <<R>>, <<R, song>>, <<R, F>>, <<R, F, song>>, <<song>>}

(* A file, a suggestion of it and of a tag.                                *)
MCSuggestedPaths ==
  {<<F>>, <<F, song>>, <<F, songsuggested>>, <<F, tagsuggested>>, <<F, tagsuggested, song>>}
=============================================================================
