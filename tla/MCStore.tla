------------------------------- MODULE MCStore -------------------------------
(* Small instances of the tag store for TLC.                               *)
EXTENDS KwestStore, TLC

CONSTANTS p, q, r, clip, notes

(* p and r are the same file name in two directories; p is a short video.  *)
MCBaseName == p :> clip @@ q :> notes @@ r :> clip
MCMetadata == [f \in AbsPaths |->
                 IF f = p THEN [type |-> TAG_VIDEO, length |-> "ShortVideo"] ELSE NoMetadata]

=============================================================================
