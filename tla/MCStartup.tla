------------------------------ MODULE MCStartup ------------------------------
(* A small home directory for TLC.                                         *)
EXTENDS KwestStartup, TLC

CONSTANTS
  clip, notes,                        \* file names
  clipInMusic, notesInSub, clipInSub, \* Music/clip, Music/A/notes, Music/A/clip
  music, sub                          \* Music, Music/A

MCBaseName == clipInMusic :> clip @@ notesInSub :> notes @@ clipInSub :> clip
MCMetadata ==
  [f \in AbsPaths |-> IF f = clipInMusic THEN [type |-> TAG_VIDEO, length |-> "ShortVideo"]
                      ELSE NoMetadata]
MCDirName  == music :> "Music" @@ sub :> "A"
MCAbove    == sub :> music @@ clipInMusic :> music @@ notesInSub :> sub @@ clipInSub :> sub
MCDisk     == [f \in AbsPaths |-> IF f = clipInSub THEN Absent ELSE Empty]
MCNames    == {"Root", "Files", "me", "Image", "ImageCreator", "ImageDate", "Video",
               "VideoLength", "ShortVideo", "Music", "A"}
MCNoFiles  == <<>>

F == TAG_FILES
MCPaths == {<<F, "Music", clip>>, <<F, clip>>, <<F, "Music", "A">>}

MCEmptyDb == EmptyDb
=============================================================================
