------------------------- MODULE KwestStartupProofs -------------------------
(***************************************************************************)
(* Theorems about the life of the program, for every home directory, set   *)
(* of plugins and first database: whenever it crashes and whatever happens *)
(* to the disk.                                                            *)
(***************************************************************************)
EXTENDS KwestStartup, KwestFuseProofs

(* What only adds tags and relations.                                      *)
Grows(d, e) == Adds(d, e, {}) /\ e.files = d.files /\ e.fileAssoc = d.fileAssoc

LEMMA GrowsSound ==
  ASSUME NEW d, NEW e, Grows(d, e)
  PROVE  Sound(d) /\ Sound(e)
BY AddsSound DEF Grows

LEMMA GrowsNothing ==
  ASSUME NEW d, Sound(d)
  PROVE  Grows(d, d)
BY AddsNothing DEF Grows

LEMMA GrowsOn ==
  ASSUME NEW d, NEW e, NEW f, Grows(d, e), Grows(e, f)
  PROVE  Grows(d, f)
BY AddsOn DEF Grows

LEMMA AddTagGrows ==
  ASSUME NEW d, Sound(d), NEW n \in TagNames, NEW type \in TagTypes
  PROVE  Grows(d, add_tag(d, n, type).db)
<1>1. Adds(d, add_tag(d, n, type).db, {})
  BY AddTagAdds
<1>2. \/ add_tag(d, n, type).db = d
      \/ \E t \in TagIds : /\ add_tag(d, n, type).db = [d EXCEPT !.tags[t] = n]
                           /\ d.tags[t] = NoRow
  BY AddTagEffect DEF Return
<1>3. /\ add_tag(d, n, type).db.files = d.files
      /\ add_tag(d, n, type).db.fileAssoc = d.fileAssoc
  BY <1>2 DEF Sound, Databases
<1> QED BY <1>1, <1>3 DEF Grows

LEMMA RelateGrows ==
  ASSUME NEW d, Sound(d), NEW m \in TagNames, NEW n \in TagNames
  PROVE  Grows(d, add_association(d, m, n, ASSOC_SUBGROUP).db)
<1>1. Adds(d, add_association(d, m, n, ASSOC_SUBGROUP).db, {})
  BY AddAssociationAdds, SubgroupAssumption
<1>2. /\ add_association(d, m, n, ASSOC_SUBGROUP).db.files = d.files
      /\ add_association(d, m, n, ASSOC_SUBGROUP).db.fileAssoc = d.fileAssoc
  BY DEF add_association, Return, Sound, Databases
<1> QED BY <1>1, <1>2 DEF Grows

(* A tag that is made and put below another.                               *)
LEMMA PlacedTagGrows ==
  ASSUME NEW d, Sound(d), NEW n \in TagNames, NEW m \in TagNames
  PROVE  Grows(d, add_association(add_tag(d, n, SYSTEM_TAG).db, n, m, ASSOC_SUBGROUP).db)
<1>1. Grows(d, add_tag(d, n, SYSTEM_TAG).db)
  BY AddTagGrows DEF TagTypes
<1>2. Grows(add_tag(d, n, SYSTEM_TAG).db,
            add_association(add_tag(d, n, SYSTEM_TAG).db, n, m, ASSOC_SUBGROUP).db)
  BY <1>1, RelateGrows, GrowsSound
<1> QED BY <1>1, <1>2, GrowsOn

LEMMA MimeTypeGrows ==
  ASSUME NEW d, Sound(d), NEW mime \in TagNames
  PROVE  Grows(d, add_mime_type(d, mime))
BY PlacedTagGrows, UserAssumption DEF add_mime_type

LEMMA MetadataTypeGrows ==
  ASSUME NEW d, Sound(d), NEW mime \in TagNames, NEW metadata \in TagNames
  PROVE  Grows(d, add_metadata_type(d, mime, metadata))
BY PlacedTagGrows DEF add_metadata_type

LEMMA CreateGrows ==
  ASSUME NEW d, Sound(d)
  PROVE  Grows(d, create_db(d))
<1> DEFINE a == add_tag(d, TAG_ROOT, SYSTEM_TAG).db
           c == add_association(add_tag(a, TAG_FILES, SYSTEM_TAG).db,
                                TAG_FILES, TAG_ROOT, ASSOC_SUBGROUP).db
           g == add_association(add_tag(c, User, SYSTEM_TAG).db,
                                User, TAG_ROOT, ASSOC_SUBGROUP).db
<1>1. Grows(d, a)
  BY AddTagGrows, UserAssumption DEF TagTypes
<1>2. Grows(a, c)
  BY <1>1, PlacedTagGrows, UserAssumption, GrowsSound
<1>3. Grows(c, g)
  BY <1>2, PlacedTagGrows, UserAssumption, GrowsSound
<1>4. create_db(d) = g
  BY DEF create_db
<1> HIDE DEF a, c, g
<1> QED BY <1>1, <1>2, <1>3, <1>4, GrowsOn

LEMMA TaglibGrows ==
  ASSUME NEW d, Sound(d), "taglib" \in Plugins
  PROVE  Grows(d, load_taglib(d))
<1> DEFINE b == add_mime_type(d, TAG_AUDIO)
           e == add_metadata_type(b, TAG_AUDIO, TAG_ARTIST)
           f == add_metadata_type(e, TAG_AUDIO, TAG_ALBUM)
           g == add_metadata_type(f, TAG_AUDIO, TAG_GENRE)
<1>1. {TAG_AUDIO, TAG_ARTIST, TAG_ALBUM, TAG_GENRE} \subseteq TagNames
  BY PluginsAssumption
<1>2. Grows(d, b)
  BY <1>1, MimeTypeGrows
<1>3. Grows(b, e)
  BY <1>1, <1>2, MetadataTypeGrows, GrowsSound
<1>4. Grows(e, f)
  BY <1>1, <1>3, MetadataTypeGrows, GrowsSound
<1>5. Grows(f, g)
  BY <1>1, <1>4, MetadataTypeGrows, GrowsSound
<1>6. load_taglib(d) = g
  BY DEF load_taglib
<1> HIDE DEF b, e, f, g
<1> QED BY <1>2, <1>3, <1>4, <1>5, <1>6, GrowsOn

LEMMA PdfinfoGrows ==
  ASSUME NEW d, Sound(d), "pdfinfo" \in Plugins
  PROVE  Grows(d, load_pdfinfo(d))
<1> DEFINE b == add_mime_type(d, TAG_PDF)
           e == add_metadata_type(b, TAG_PDF, TAG_PDF_TITLE)
           f == add_metadata_type(e, TAG_PDF, TAG_PDF_SUBJECT)
           g == add_metadata_type(f, TAG_PDF, TAG_PDF_AUTHOR)
           h == add_metadata_type(g, TAG_PDF, TAG_PDF_PUBLISHER)
<1>1. {TAG_PDF, TAG_PDF_TITLE, TAG_PDF_SUBJECT, TAG_PDF_AUTHOR, TAG_PDF_PUBLISHER}
        \subseteq TagNames
  BY PluginsAssumption
<1>2. Grows(d, b)
  BY <1>1, MimeTypeGrows
<1>3. Grows(b, e)
  BY <1>1, <1>2, MetadataTypeGrows, GrowsSound
<1>4. Grows(e, f)
  BY <1>1, <1>3, MetadataTypeGrows, GrowsSound
<1>5. Grows(f, g)
  BY <1>1, <1>4, MetadataTypeGrows, GrowsSound
<1>6. Grows(g, h)
  BY <1>1, <1>5, MetadataTypeGrows, GrowsSound
<1>7. load_pdfinfo(d) = h
  BY DEF load_pdfinfo
<1> HIDE DEF b, e, f, g, h
<1> QED BY <1>2, <1>3, <1>4, <1>5, <1>6, <1>7, GrowsOn

LEMMA LibextractorGrows ==
  ASSUME NEW d, Sound(d), "libextractor" \in Plugins
  PROVE  Grows(d, load_libextractor(d))
<1> DEFINE b == add_mime_type(d, TAG_IMAGE)
           e == add_metadata_type(b, TAG_IMAGE, TAG_IMAGE_CREATOR)
           f == add_metadata_type(e, TAG_IMAGE, TAG_IMAGE_DATE)
           g == add_mime_type(f, TAG_VIDEO)
           h == add_metadata_type(g, TAG_VIDEO, TAG_VIDEO_LENGTH)
<1>1. {TAG_IMAGE, TAG_IMAGE_CREATOR, TAG_IMAGE_DATE, TAG_VIDEO, TAG_VIDEO_LENGTH}
        \subseteq TagNames
  BY PluginsAssumption
<1>2. Grows(d, b)
  BY <1>1, MimeTypeGrows
<1>3. Grows(b, e)
  BY <1>1, <1>2, MetadataTypeGrows, GrowsSound
<1>4. Grows(e, f)
  BY <1>1, <1>3, MetadataTypeGrows, GrowsSound
<1>5. Grows(f, g)
  BY <1>1, <1>4, MimeTypeGrows, GrowsSound
<1>6. Grows(g, h)
  BY <1>1, <1>5, MetadataTypeGrows, GrowsSound
<1>7. load_libextractor(d) = h
  BY DEF load_libextractor
<1> HIDE DEF b, e, f, g, h
<1> QED BY <1>2, <1>3, <1>4, <1>5, <1>6, <1>7, GrowsOn

LEMMA LoadGrows ==
  ASSUME NEW d, Sound(d)
  PROVE  Grows(d, load_plugins(d))
<1> DEFINE a == IF "taglib" \in Plugins THEN load_taglib(d) ELSE d
           b == IF "pdfinfo" \in Plugins THEN load_pdfinfo(a) ELSE a
           c == IF "libextractor" \in Plugins THEN load_libextractor(b) ELSE b
<1>1. \A e : Sound(e) => Grows(e, e)
  BY GrowsNothing
<1>2. Grows(d, a)
  BY <1>1, TaglibGrows
<1>3. Grows(a, b)
  <2> HIDE DEF a
  <2> QED BY <1>1, <1>2, PdfinfoGrows, GrowsSound
<1>4. Grows(b, c)
  <2> HIDE DEF b
  <2> QED BY <1>1, <1>3, LibextractorGrows, GrowsSound
<1>5. load_plugins(d) = c
  BY DEF load_plugins
<1> HIDE DEF a, b, c
<1> QED BY <1>2, <1>3, <1>4, <1>5, GrowsOn

-----------------------------------------------------------------------------
(* The check and the import.                                               *)

(* What the removal of a file leaves, row by row.                          *)
LEMMA RemoveGoneEffect ==
  ASSUME NEW d, Sound(d), NEW f \in FileIds
  PROVE  LET e  == remove_gone_file(d, f)
             ts == OnlyTagged(d, f)
         IN /\ e \in Databases
            /\ \A t \in TagIds : e.tags[t] = IF t \in ts THEN NoRow ELSE d.tags[t]
            /\ \A g \in FileIds : e.files[g] = IF g = f THEN NoRow ELSE d.files[g]
            /\ \A t \in TagIds, g \in FileIds :
                 e.fileAssoc[t][g] = IF t \in ts \/ g = f THEN 0 ELSE d.fileAssoc[t][g]
            /\ \A t, u \in TagIds, a \in AssocIds :
                 e.tagAssoc[t][u][a] = IF t \in ts \/ u \in ts THEN 0 ELSE d.tagAssoc[t][u][a]
<1> DEFINE e  == remove_gone_file(d, f)
           ts == OnlyTagged(d, f)
           c  == check_tag_if_empty(d, f)
<1>1. /\ d.tags \in TagTable /\ d.files \in FileTable
      /\ d.fileAssoc \in FileAssociationTable /\ d.tagAssoc \in TagAssociationTable
  BY DEF Sound, Databases
<1>2. /\ e.tags = c.tags /\ e.files = [c.files EXCEPT ![f] = NoRow] /\ e.tagAssoc = c.tagAssoc
      /\ e.fileAssoc = [t \in TagIds |-> [g \in FileIds |->
                          IF g = f THEN 0 ELSE c.fileAssoc[t][g]]]
      /\ e = [tags |-> e.tags, files |-> e.files, fileAssoc |-> e.fileAssoc,
              tagAssoc |-> e.tagAssoc]
  BY DEF remove_gone_file, WithoutFile
<1>3. /\ c.tags = [t \in TagIds |-> IF t \in ts THEN NoRow ELSE d.tags[t]]
      /\ c.files = d.files
      /\ c.fileAssoc = [t \in TagIds |-> [g \in FileIds |->
                          IF t \in ts THEN 0 ELSE d.fileAssoc[t][g]]]
      /\ c.tagAssoc = [t \in TagIds |-> [u \in TagIds |-> [a \in AssocIds |->
                          IF t \in ts \/ u \in ts THEN 0 ELSE d.tagAssoc[t][u][a]]]]
  BY DEF check_tag_if_empty
<1> HIDE DEF e, c, ts
<1>4. e.tags \in TagTable /\ \A t \in TagIds : e.tags[t] = IF t \in ts THEN NoRow ELSE d.tags[t]
  BY <1>1, <1>2, <1>3 DEF TagTable
<1>5. e.files \in FileTable /\ \A g \in FileIds : e.files[g] = IF g = f THEN NoRow ELSE d.files[g]
  BY <1>1, <1>2, <1>3 DEF FileTable
<1>6. /\ e.fileAssoc \in FileAssociationTable
      /\ \A t \in TagIds, g \in FileIds :
           e.fileAssoc[t][g] = IF t \in ts \/ g = f THEN 0 ELSE d.fileAssoc[t][g]
  <2>1. \A t \in TagIds, g \in FileIds :
          c.fileAssoc[t][g] = IF t \in ts THEN 0 ELSE d.fileAssoc[t][g]
    BY <1>3
  <2>2. \A t \in TagIds, g \in FileIds :
          e.fileAssoc[t][g] = IF g = f THEN 0 ELSE c.fileAssoc[t][g]
    BY <1>2
  <2>3. \A t \in TagIds, g \in FileIds :
          (IF g = f THEN 0 ELSE c.fileAssoc[t][g]) \in Nat
    BY <1>1, <2>1 DEF FileAssociationTable
  <2>4. e.fileAssoc \in FileAssociationTable
    BY <1>2, <2>3 DEF FileAssociationTable
  <2> QED BY <2>1, <2>2, <2>4
<1>7. /\ e.tagAssoc \in TagAssociationTable
      /\ \A t, u \in TagIds, a \in AssocIds :
           e.tagAssoc[t][u][a] = IF t \in ts \/ u \in ts THEN 0 ELSE d.tagAssoc[t][u][a]
  BY <1>1, <1>2, <1>3 DEF TagAssociationTable
<1>8. e \in Databases
  BY <1>2, <1>4, <1>5, <1>6, <1>7 DEF Databases
<1> QED BY <1>4, <1>5, <1>6, <1>7, <1>8 DEF e, ts

LEMMA RemoveGoneSound ==
  ASSUME NEW d, Sound(d), NEW f \in FileIds
  PROVE  Sound(remove_gone_file(d, f))
<1> DEFINE e  == remove_gone_file(d, f)
           ts == OnlyTagged(d, f)
<1>1. /\ e \in Databases
      /\ \A t \in TagIds : e.tags[t] = IF t \in ts THEN NoRow ELSE d.tags[t]
      /\ \A g \in FileIds : e.files[g] = IF g = f THEN NoRow ELSE d.files[g]
      /\ \A t \in TagIds, g \in FileIds :
           e.fileAssoc[t][g] = IF t \in ts \/ g = f THEN 0 ELSE d.fileAssoc[t][g]
      /\ \A t, u \in TagIds, a \in AssocIds :
           e.tagAssoc[t][u][a] = IF t \in ts \/ u \in ts THEN 0 ELSE d.tagAssoc[t][u][a]
  BY RemoveGoneEffect
<1> HIDE DEF e, ts
<1>2. UniqueNamesOf(e)
  <2>1. \A t, u \in TagIds : e.tags[t] # NoRow /\ e.tags[t] = e.tags[u] => t = u
    BY <1>1 DEF Sound, UniqueNamesOf
  <2>2. \A g, h \in FileIds :
          /\ e.files[g] # NoRow /\ e.files[h] # NoRow
          /\ BaseName[e.files[g]] = BaseName[e.files[h]]
          => g = h
    BY <1>1 DEF Sound, UniqueNamesOf
  <2> QED BY <2>1, <2>2 DEF UniqueNamesOf
<1>3. NoDanglingRowsOf(e)
  <2>1. \A t \in TagIds, g \in FileIds :
          e.fileAssoc[t][g] > 0 => e.tags[t] # NoRow /\ e.files[g] # NoRow
    BY <1>1 DEF Sound, NoDanglingRowsOf
  <2>2. \A t, u \in TagIds, a \in AssocIds :
          e.tagAssoc[t][u][a] > 0 => e.tags[t] # NoRow /\ e.tags[u] # NoRow
    BY <1>1 DEF Sound, NoDanglingRowsOf
  <2> QED BY <2>1, <2>2 DEF NoDanglingRowsOf
<1>4. NoDuplicateRowsOf(e)
  <2>1. \A t \in TagIds, g \in FileIds : e.fileAssoc[t][g] <= 1
    BY <1>1 DEF Sound, NoDuplicateRowsOf
  <2>2. \A t, u \in TagIds, a \in AssocIds : e.tagAssoc[t][u][a] <= 1
    BY <1>1 DEF Sound, NoDuplicateRowsOf
  <2>3. \A t, u \in TagIds, a, b \in AssocIds :
          e.tagAssoc[t][u][a] > 0 /\ e.tagAssoc[t][u][b] > 0 => a = b
    BY <1>1 DEF Sound, NoDuplicateRowsOf
  <2> QED BY <2>1, <2>2, <2>3 DEF NoDuplicateRowsOf
<1> QED BY <1>1, <1>2, <1>3, <1>4 DEF Sound, e

LEMMA DirNamesAreNames == \A dir \in Dirs : DirName[dir] \in TagNames
BY TreeAssumption

LEMMA ImportTopAdds ==
  ASSUME NEW d, Sound(d), NEW P
  PROVE  Adds(d, import_top(d), P)
<1> DEFINE e == add_tag(d, DirName[Music], USER_TAG).db
           f == add_association(e, DirName[Music], TAG_FILES, ASSOC_SUBGROUP).db
<1>1. DirName[Music] \in TagNames
  BY TreeAssumption
<1>2. Adds(d, e, P)
  BY <1>1, AddTagAdds DEF TagTypes
<1>3. import_top(d) \in {d, f}
  BY DEF import_top
<1> HIDE DEF e
<1>4. Adds(e, f, P)
  BY <1>1, <1>2, AddAssociationAdds, AddsSound, SubgroupAssumption, UserAssumption
<1> QED BY <1>2, <1>3, <1>4, AddsOn, AddsNothing

LEMMA ImportFileAdds ==
  ASSUME NEW d, Sound(d), NEW P, NEW p \in P, p \in AbsPaths, NEW dir \in Dirs
  PROVE  Adds(d, import_file(d, p, dir), P)
<1> DEFINE added == IF p \in locked THEN add_file_row(d, p) ELSE add_file(d, p)
           e == added.db
           f == tag_file(e, DirName[dir], BaseName[p]).db
<1>1. Adds(d, e, P)
  BY AddFileAdds, AddFileRowAdds
<1>2. DirName[dir] \in TagNames /\ BaseName[p] \in FileNames
  BY DirNamesAreNames DEF FileNames
<1>3. import_file(d, p, dir) \in {d, f}
  BY DEF import_file
<1> HIDE DEF e
<1>4. Adds(e, f, P)
  BY <1>1, <1>2, TagFileAdds, AddsSound
<1> QED BY <1>1, <1>3, <1>4, AddsOn, AddsNothing

-----------------------------------------------------------------------------
(* The program.                                                            *)

(* Where main may be.                                                      *)
MainOK ==
  /\ before \in Databases
  /\ stage \in Stages /\ next \in 0..(MaxFno + 1)
  /\ walk \in Seq(Frames) /\ (stage = "walk" <=> walk # <<>>)
  /\ locked \subseteq Lockable
  /\ steady \in BOOLEAN /\ quiet \in 0..2 /\ events \in 0..MaxEvents

StartInv == Inv /\ Sound(saved) /\ MainOK

LEMMA FrameIsFrame == \A dir \in Dirs : Frame(dir) \in Frames
BY DEF Frame, Listed, Entries, Frames

(* The directory that is being read.                                       *)
LEMMA TopIsFrame ==
  ASSUME MainOK, stage = "walk"
  PROVE  /\ Len(walk) \in Nat /\ Len(walk) >= 1 /\ Len(walk) \in DOMAIN walk
         /\ Top \in Frames /\ Top.dir \in Dirs
         /\ \A i \in 1..Len(walk) : walk[i] \in Frames
<1>1. walk \in Seq(Frames) /\ walk # <<>>
  BY DEF MainOK
<1>2. Len(walk) \in Nat /\ Len(walk) >= 1 /\ DOMAIN walk = 1..Len(walk)
  BY <1>1, EmptySeq, LenProperties
<1>3. \A i \in 1..Len(walk) : walk[i] \in Frames
  BY <1>1, ElementOfSeq
<1> QED BY <1>2, <1>3 DEF Top, Frames

LEMMA WithoutEntryIsWalk ==
  ASSUME MainOK, stage = "walk", NEW e
  PROVE  WithoutEntry(e) \in Seq(Frames) /\ Len(WithoutEntry(e)) = Len(walk)
<1>1. walk \in Seq(Frames) /\ Len(walk) \in 1..Len(walk) /\ Top \in Frames
  BY TopIsFrame DEF MainOK
<1>2. [Top EXCEPT !.rest = Top.rest \ {e}] \in Frames
  BY <1>1 DEF Frames
<1>3. WithoutEntry(e) = [walk EXCEPT ![Len(walk)] = [Top EXCEPT !.rest = Top.rest \ {e}]]
  BY <1>1, TopIsFrame DEF WithoutEntry, Top
<1> QED BY <1>1, <1>2, <1>3, ExceptSeq

(* Each turn of main leaves it somewhere it can be.                        *)
Turned == stage' \in Stages /\ next' \in 0..(MaxFno + 1) /\ walk' \in Seq(Frames)
          /\ (stage' = "walk" <=> walk' # <<>>)

LEMMA TurnsKeep ==
  ASSUME MainOK, Turned, UNCHANGED <<before, steady, quiet, events, locked>>
  PROVE  MainOK'
BY DEF MainOK, Turned

LEMMA ToTurned ==
  ASSUME MainOK, NEW s \in Stages \ {"walk"}, stage # "walk", To(s)
  PROVE  Turned
BY DEF MainOK, To, Turned

LEMMA CheckTurned ==
  ASSUME MainOK, NEW f \in FileIds, CheckTurn(f)
  PROVE  Turned
<1>1. f + 1 \in 0..(MaxFno + 1)
  BY BoundAssumption DEF FileIds
<1> QED BY <1>1 DEF MainOK, CheckTurn, Turned

LEMMA CheckedTurned ==
  ASSUME MainOK, CheckedTurn
  PROVE  Turned
<1>1. 0 \in 0..(MaxFno + 1)
  BY BoundAssumption
<1> QED BY <1>1 DEF MainOK, CheckedTurn, Turned, Stages

LEMMA ImportTurned ==
  ASSUME MainOK, ImportTurn
  PROVE  Turned
<1>1. CASE Music \in locked
  BY <1>1, ToTurned DEF ImportTurn, Stages
<1>2. CASE Music \notin locked
  <2>1. <<Frame(Music)>> \in Seq(Frames) /\ <<Frame(Music)>> # <<>>
    BY FrameIsFrame, TreeAssumption
  <2> QED BY <1>2, <2>1 DEF MainOK, ImportTurn, Turned, Stages
<1> QED BY <1>1, <1>2

LEMMA FileTurned ==
  ASSUME MainOK, NEW e, FileTurn(e)
  PROVE  Turned
<1>1. WithoutEntry(e) \in Seq(Frames) /\ Len(WithoutEntry(e)) = Len(walk) /\ Len(walk) >= 1
  BY WithoutEntryIsWalk, TopIsFrame DEF FileTurn
<1>2. WithoutEntry(e) # <<>>
  BY <1>1
<1> QED BY <1>1, <1>2 DEF MainOK, FileTurn, Turned

LEMMA DirectoryTurned ==
  ASSUME MainOK, NEW e \in Dirs, DirectoryTurn(e)
  PROVE  Turned
<1>1. WithoutEntry(e) \in Seq(Frames) /\ entered(e) \in Frames
  BY WithoutEntryIsWalk, FrameIsFrame DEF DirectoryTurn, entered
<1>2. /\ Append(WithoutEntry(e), entered(e)) \in Seq(Frames)
      /\ Append(WithoutEntry(e), entered(e)) # <<>>
  BY <1>1, AppendProperties
<1>3. Len(WithoutEntry(e)) = Len(walk) /\ Len(walk) >= 1
  BY WithoutEntryIsWalk, TopIsFrame DEF DirectoryTurn
<1>4. WithoutEntry(e) # <<>>
  BY <1>3
<1> QED BY <1>1, <1>2, <1>4 DEF MainOK, DirectoryTurn, Turned

LEMMA Shortened ==
  ASSUME NEW S, NEW w \in Seq(S), NEW i \in 0..Len(w)
  PROVE  SubSeq(w, 1, i) \in Seq(S) /\ Len(SubSeq(w, 1, i)) = i
<1>1. Len(w) \in Nat /\ 1 \in 1..Len(w) + 1
  BY LenProperties
<1> QED BY <1>1, SubSeqProperties

LEMMA ReturnTurned ==
  ASSUME MainOK, ReturnTurn
  PROVE  Turned
<1>1. walk \in Seq(Frames) /\ Len(walk) \in Nat /\ Len(walk) >= 1 /\ stage = "walk"
  BY TopIsFrame DEF MainOK, ReturnTurn
<1>2. /\ SubSeq(walk, 1, Len(walk) - 1) \in Seq(Frames)
      /\ Len(SubSeq(walk, 1, Len(walk) - 1)) = Len(walk) - 1
  <2>1. Len(walk) - 1 \in 0..Len(walk)
    BY <1>1
  <2> QED BY <1>1, <2>1, Shortened
<1>3. SubSeq(walk, 1, Len(walk) - 1) # <<>> <=> Len(walk) > 1
  <2> DEFINE w == SubSeq(walk, 1, Len(walk) - 1)
  <2>1. w \in Seq(Frames) /\ Len(w) = Len(walk) - 1
    BY <1>2
  <2> HIDE DEF w
  <2>2. w = <<>> <=> Len(w) = 0
    BY <2>1, EmptySeq
  <2>3. w # <<>> <=> Len(walk) > 1
    BY <1>1, <2>1, <2>2
  <2> QED BY <2>3 DEF w
<1> QED BY <1>1, <1>2, <1>3 DEF MainOK, ReturnTurn, Turned, Stages

-----------------------------------------------------------------------------
(* Whatever happens, the invariant stays.                                  *)

LEMMA ProgramStarts == ProgramInit => StartInv
<1> SUFFICES ASSUME ProgramInit PROVE StartInv
  OBVIOUS
<1>1. Inv /\ Sound(saved) /\ before \in Databases
  BY FuseInit, InitialDbAssumption DEF ProgramInit, Sound
<1>2. <<>> \in Seq(Frames)
  BY EmptySeq
<1>3. 0 \in 0..(MaxFno + 1) /\ 0 \in 0..MaxEvents /\ 0 \in 0..2
  BY BoundAssumption, EventsAssumption
<1> QED BY <1>1, <1>2, <1>3 DEF ProgramInit, StartInv, MainOK, Stages

(* A step that makes of the tables sound ones and leaves the daemon alone. *)
LEMMA SoundTablesKeep ==
  ASSUME Inv, Sound(db'), UNCHANGED daemon
  PROVE  Inv'
BY DEF Inv, TypeOK, TablesSound, Sound, daemon

LEMMA MainKeeps ==
  ASSUME StartInv, Main
  PROVE  StartInv'
<1> USE DEF StartInv
<1>1. Sound(db)
  BY DEF Inv, TablesSound
<1>2. CASE Create
  <2>1. Sound(db') /\ Sound(saved')
    BY <1>1, <1>2, CreateGrows, GrowsSound DEF Create
  <2>2. Turned
    BY <1>2, ToTurned DEF Create, Stages
  <2> QED BY <1>2, <2>1, <2>2, SoundTablesKeep, TurnsKeep DEF Create, found
<1>3. CASE LoadPlugins
  <2>1. Sound(db') /\ Sound(saved')
    BY <1>1, <1>3, LoadGrows, GrowsSound DEF LoadPlugins
  <2>2. Turned
    BY <1>3, ToTurned DEF LoadPlugins, Stages
  <2> QED BY <1>3, <2>1, <2>2, SoundTablesKeep, TurnsKeep DEF LoadPlugins, found
<1>4. CASE CheckFile
  <2>1. PICK f \in FileIds :
          /\ CheckTurn(f)
          /\ db' = IF CanOpen(db.files[f]) THEN db ELSE remove_gone_file(db, f)
    BY <1>4 DEF CheckFile
  <2>2. Sound(db')
    BY <1>1, <2>1, RemoveGoneSound
  <2>3. Turned
    BY <2>1, CheckTurned
  <2> QED BY <1>4, <2>2, <2>3, SoundTablesKeep, TurnsKeep DEF CheckFile, found
<1>5. CASE CheckDone
  <2>1. Turned
    BY <1>5, CheckedTurned DEF CheckDone
  <2>2. Sound(db') /\ Sound(saved')
    BY <1>1, <1>5 DEF CheckDone
  <2> QED BY <1>5, <2>1, <2>2, SoundTablesKeep, TurnsKeep DEF CheckDone, found
<1>6. CASE Import
  <2>1. Sound(db')
    <3>1. Adds(db, import_top(db), {})
      BY <1>1, ImportTopAdds
    <3> QED BY <1>6, <3>1, AddsSound DEF Import
  <2>2. Turned
    BY <1>6, ImportTurned DEF Import
  <2> QED BY <1>6, <2>1, <2>2, SoundTablesKeep, TurnsKeep DEF Import, found
<1>7. CASE WalkFile
  <2>1. PICK e \in AbsPaths :
          FileTurn(e) /\ db' = IF CanStat(e) THEN import_file(db, e, Top.dir) ELSE db
    BY <1>7 DEF WalkFile
  <2>2. Top.dir \in Dirs
    BY <2>1, TopIsFrame DEF FileTurn
  <2>3. Sound(db')
    <3>1. Adds(db, import_file(db, e, Top.dir), {e})
      BY <1>1, <2>2, ImportFileAdds
    <3> QED BY <1>1, <2>1, <3>1, AddsSound
  <2>4. Turned
    BY <2>1, FileTurned
  <2> QED BY <1>7, <2>3, <2>4, SoundTablesKeep, TurnsKeep DEF WalkFile, found
<1>8. CASE WalkDirectory
  <2>1. PICK e \in Dirs :
          DirectoryTurn(e) /\ db' \in {db, add_tag(db, DirName[e], USER_TAG).db}
    BY <1>8 DEF WalkDirectory
  <2>2. Sound(db')
    BY <1>1, <2>1, DirNamesAreNames, AddTagSound DEF TagTypes
  <2>3. Turned
    BY <2>1, DirectoryTurned
  <2> QED BY <1>8, <2>2, <2>3, SoundTablesKeep, TurnsKeep DEF WalkDirectory, found
<1>9. CASE WalkReturn
  <2>1. Turned /\ stage = "walk"
    BY <1>9, ReturnTurned DEF WalkReturn, ReturnTurn
  <2>2. CASE Len(walk) > 1
    <3>1. Len(walk) - 1 \in 1..Len(walk)
      BY <2>1, <2>2, TopIsFrame
    <3>2. Top.dir \in Dirs /\ walk[Len(walk) - 1].dir \in Dirs
      BY <2>1, <3>1, TopIsFrame DEF Frames
    <3>3. db' = add_association(db, DirName[Top.dir], DirName[walk[Len(walk) - 1].dir],
                                ASSOC_SUBGROUP).db /\ UNCHANGED saved
      BY <1>9, <2>2 DEF WalkReturn
    <3>4. Sound(db') /\ Sound(saved')
      BY <1>1, <3>2, <3>3, DirNamesAreNames, AddAssociationSound, SubgroupAssumption
    <3> QED BY <1>9, <2>1, <3>4, SoundTablesKeep, TurnsKeep DEF WalkReturn, found
  <2>3. CASE ~(Len(walk) > 1)
    <3>1. Sound(db') /\ Sound(saved')
      BY <1>1, <1>9, <2>3 DEF WalkReturn
    <3> QED BY <1>9, <2>1, <3>1, SoundTablesKeep, TurnsKeep DEF WalkReturn, found
  <2> QED BY <2>2, <2>3
<1>10. CASE Serve
  <2>1. Root \in CopyPaths /\ KW_SUCCESS \in Answers
    BY DEF CopyPaths, Answers
  <2>2. Inv'
    BY <1>10, <2>1 DEF Serve, Inv, TypeOK, TablesSound
  <2>3. Turned
    BY <1>10, ToTurned DEF Serve, Stages
  <2>4. quiet' \in 0..2
    BY <1>10 DEF Serve, MainOK
  <2> QED BY <1>10, <2>2, <2>3, <2>4 DEF Serve, MainOK, Turned
<1> QED BY <1>2, <1>3, <1>4, <1>5, <1>6, <1>7, <1>8, <1>9, <1>10 DEF Main

LEMMA FreshCallsAreCalls == \A path \in Paths : FreshCalls(path) => Calls(path)
BY DEF FreshCalls, Calls

LEMMA StoppedKeeps ==
  ASSUME StartInv, Stopped, events' \in 0..MaxEvents
  PROVE  StartInv'
<1>1. Root \in CopyPaths /\ KW_SUCCESS \in Answers
  BY DEF CopyPaths, Answers
<1>2. Inv' /\ Sound(saved')
  BY <1>1 DEF StartInv, Stopped, Inv, TypeOK, TablesSound, Sound
<1>3. <<>> \in Seq(Frames) /\ 0 \in 0..(MaxFno + 1)
  BY EmptySeq, BoundAssumption
<1>4. MainOK'
  BY <1>3 DEF StartInv, MainOK, Stopped, Stages
<1> QED BY <1>2, <1>4 DEF StartInv

LEMMA MoreEvents ==
  ASSUME MainOK, events < MaxEvents, events' = events + 1
  PROVE  events' \in 0..MaxEvents
BY EventsAssumption DEF MainOK

(* A change of the disk.                                                   *)
LEMMA EventKeeps ==
  ASSUME StartInv, Event, disk' \in Disks, locked' \subseteq Lockable,
         UNCHANGED <<db, cppath, alive, reply>>
  PROVE  StartInv'
<1>1. events' \in 0..MaxEvents
  BY MoreEvents DEF StartInv, Event
<1>2. Inv'
  BY DEF StartInv, Inv, TypeOK, TablesSound
<1>3. MainOK'
  <2>1. steady' \in BOOLEAN
    BY DEF Event
  <2>2. /\ before' \in Databases /\ stage' \in Stages /\ next' \in 0..(MaxFno + 1)
        /\ walk' \in Seq(Frames) /\ (stage' = "walk" <=> walk' # <<>>)
        /\ quiet' \in 0..2
    BY DEF StartInv, MainOK, Event
  <2> QED BY <1>1, <2>1, <2>2 DEF MainOK
<1> QED BY <1>2, <1>3 DEF StartInv, Event

LEMMA CallKeeps ==
  ASSUME StartInv, Call
  PROVE  StartInv'
<1>1. PICK path \in Paths : FreshCalls(path)
  BY DEF Call
<1>2. Inv'
  BY <1>1, FreshCallsAreCalls, CallsKeep DEF StartInv
<1>3. Sound(saved')
  BY <1>2 DEF Call, Inv, TablesSound
<1>4. events' \in 0..MaxEvents /\ quiet' \in 0..2
  <2>1. CASE db' = db
    BY <2>1 DEF Call, StartInv, MainOK
  <2>2. CASE db' # db
    BY <2>2, MoreEvents DEF Call, StartInv
  <2> QED BY <2>1, <2>2
<1>5. MainOK'
  BY <1>4 DEF Call, StartInv, MainOK
<1> QED BY <1>2, <1>3, <1>5 DEF StartInv

LEMMA ProgramSteps == StartInv /\ [ProgramNext]_programVars => StartInv'
<1> SUFFICES ASSUME StartInv, [ProgramNext]_programVars PROVE StartInv'
  OBVIOUS
<1>1. CASE Begin
  <2>1. Inv' /\ Sound(saved') /\ before' \in Databases
    BY <1>1 DEF Begin, vars, StartInv, Inv, TypeOK, TablesSound
  <2>2. MainOK'
    BY <1>1, <2>1 DEF Begin, To, StartInv, MainOK, Stages
  <2> QED BY <2>1, <2>2 DEF StartInv
<1>2. CASE Main
  BY <1>2, MainKeeps
<1>3. CASE Call
  BY <1>3, CallKeeps
<1>4. CASE Exit
  BY <1>4, StoppedKeeps DEF Exit, StartInv, MainOK
<1>5. CASE Crash
  BY <1>5, MoreEvents, StoppedKeeps DEF Crash, StartInv
<1>6. ASSUME NEW p \in AbsPaths, Remove(p) PROVE StartInv'
  <2>1. disk' \in Disks
    BY <1>6 DEF Remove, Vanish, StartInv, Inv, TypeOK, Disks
  <2>2. locked' \subseteq Lockable
    BY <1>6 DEF Remove, StartInv, MainOK
  <2> QED BY <1>6, <2>1, <2>2, EventKeeps DEF Remove, Vanish
<1>7. ASSUME NEW p \in AbsPaths, Store(p) PROVE StartInv'
  <2>1. disk' \in Disks
    BY <1>7 DEF Store, StartInv, Inv, TypeOK, Disks
  <2>2. locked' \subseteq Lockable
    BY <1>7 DEF Store, StartInv, MainOK
  <2> QED BY <1>7, <2>1, <2>2, EventKeeps DEF Store
<1>8. ASSUME NEW e \in Lockable, ChangeMode(e) PROVE StartInv'
  <2>1. disk' \in Disks
    BY <1>8 DEF ChangeMode, vars, StartInv, Inv, TypeOK
  <2>2. locked' \subseteq Lockable
    BY <1>8 DEF ChangeMode, StartInv, MainOK
  <2> QED BY <1>8, <2>1, <2>2, EventKeeps DEF ChangeMode, vars
<1>9. CASE UNCHANGED programVars
  BY <1>9 DEF programVars, main, vars, StartInv, MainOK, Inv, TypeOK, TablesSound
<1> QED BY <1>1, <1>2, <1>3, <1>4, <1>5, <1>6, <1>7, <1>8, <1>9 DEF ProgramNext

LEMMA ProgramAlways == Program => []StartInv
<1> QED BY ProgramStarts, ProgramSteps, PTL DEF Program

(* main, the walk of the import and the daemon stay where they can be.     *)
THEOREM ProgramTypeCorrect == Program => []ProgramTypeOK
<1>1. StartInv => ProgramTypeOK
  BY DEF StartInv, MainOK, Inv, ProgramTypeOK, Sound
<1> QED BY <1>1, ProgramAlways, PTL

(* Whenever the program crashes, whatever is on the disk when it starts    *)
(* again and whatever the daemon is asked, the tables stay sound, and so   *)
(* are those that were committed last.                                     *)
THEOREM StartsKeepTablesSound == Program => []ProgramTablesSound
<1>1. StartInv => ProgramTablesSound
  BY DEF StartInv, Inv, TablesSound, ProgramTablesSound
<1> QED BY <1>1, ProgramAlways, PTL

-----------------------------------------------------------------------------
(* The check.                                                              *)

(* A tag that is still there has the files that are still there, and some  *)
(* if it had any; a tag that is not there has lost them all.               *)
Kept(b, d, t) ==
  /\ d.tags[t] = b.tags[t]
  /\ \A f \in FileIds : d.fileAssoc[t][f] = IF d.files[f] = NoRow THEN 0 ELSE b.fileAssoc[t][f]
  /\ UnderTag(b, t) = {} \/ \E f \in UnderTag(b, t) : d.files[f] # NoRow
Lost(b, d, t) ==
  /\ d.tags[t] = NoRow /\ UnderTag(b, t) # {}
  /\ \A f \in UnderTag(b, t) : d.files[f] = NoRow
Checked(b, d) == \A t \in TagIds : b.tags[t] # NoRow => Kept(b, d, t) \/ Lost(b, d, t)

LEMMA GrownIsChecked ==
  ASSUME NEW b, NEW d, Grows(b, d)
  PROVE  Checked(b, d)
<1> SUFFICES ASSUME NEW t \in TagIds, b.tags[t] # NoRow PROVE Kept(b, d, t)
  BY DEF Checked
<1>1. /\ d.files = b.files /\ d.fileAssoc = b.fileAssoc /\ d.tags[t] = b.tags[t]
      /\ \A f \in FileIds : d.fileAssoc[t][f] \in Nat
      /\ \A f \in FileIds : d.fileAssoc[t][f] > 0 => d.files[f] # NoRow
  BY DEF Grows, Adds, Sound, Databases, FileAssociationTable, NoDanglingRowsOf
<1> QED BY <1>1 DEF Kept, UnderTag

(* The file with which a tag loses its last is the one it goes with.       *)
LEMMA RemovalIsChecked ==
  ASSUME NEW b \in Databases, NEW d, Sound(d), Checked(b, d),
         NEW f \in FileIds, d.files[f] # NoRow
  PROVE  Checked(b, remove_gone_file(d, f))
<1> DEFINE e  == remove_gone_file(d, f)
           ts == OnlyTagged(d, f)
<1>1. /\ \A t \in TagIds : e.tags[t] = IF t \in ts THEN NoRow ELSE d.tags[t]
      /\ \A g \in FileIds : e.files[g] = IF g = f THEN NoRow ELSE d.files[g]
      /\ \A t \in TagIds, g \in FileIds :
           e.fileAssoc[t][g] = IF t \in ts \/ g = f THEN 0 ELSE d.fileAssoc[t][g]
  BY RemoveGoneEffect
<1>2. \A t \in TagIds : t \in ts <=> /\ d.fileAssoc[t][f] = 1
                                     /\ \A g \in FileIds \ {f} : d.fileAssoc[t][g] = 0
  BY DEF OnlyTagged
<1> HIDE DEF e, ts
<1> SUFFICES ASSUME NEW t \in TagIds, b.tags[t] # NoRow
             PROVE  Kept(b, e, t) \/ Lost(b, e, t)
  BY DEF Checked, e
<1>3. \A g \in FileIds : b.fileAssoc[t][g] \in Nat /\ d.fileAssoc[t][g] \in {0, 1}
  <2>1. \A g \in FileIds : d.fileAssoc[t][g] \in Nat /\ d.fileAssoc[t][g] <= 1
    BY DEF Sound, Databases, FileAssociationTable, NoDuplicateRowsOf
  <2>2. \A g \in FileIds : b.fileAssoc[t][g] \in Nat
    BY DEF Databases, FileAssociationTable
  <2> QED BY <2>1, <2>2
<1>4. UnderTag(b, t) = {g \in FileIds : b.fileAssoc[t][g] > 0}
  BY DEF UnderTag
<1>5. CASE Lost(b, d, t)
  <2>1. e.tags[t] = NoRow /\ \A g \in UnderTag(b, t) : e.files[g] = NoRow
    BY <1>1, <1>4, <1>5 DEF Lost
  <2> QED BY <1>5, <2>1 DEF Lost
<1>6. CASE Kept(b, d, t) /\ t \in ts
  <2>1. d.fileAssoc[t][f] = b.fileAssoc[t][f] /\ f \in UnderTag(b, t)
    BY <1>2, <1>3, <1>4, <1>6 DEF Kept
  <2>2. \A g \in UnderTag(b, t) \ {f} : d.files[g] = NoRow
    BY <1>2, <1>3, <1>4, <1>6 DEF Kept
  <2> QED BY <1>1, <1>4, <1>6, <2>1, <2>2 DEF Lost
<1>7. CASE Kept(b, d, t) /\ t \notin ts
  <2>1. e.tags[t] = b.tags[t]
    BY <1>1, <1>7 DEF Kept
  <2>2. ASSUME NEW g \in FileIds
        PROVE  e.fileAssoc[t][g] = IF e.files[g] = NoRow THEN 0 ELSE b.fileAssoc[t][g]
    BY <1>1, <1>7 DEF Kept
  <2>3. ASSUME UnderTag(b, t) # {} PROVE \E g \in UnderTag(b, t) : e.files[g] # NoRow
    <3>1. PICK h \in UnderTag(b, t) : d.files[h] # NoRow
      BY <1>7, <2>3 DEF Kept
    <3>2. CASE h # f
      BY <1>1, <1>4, <3>1, <3>2
    <3>3. CASE h = f
      <4>1. d.fileAssoc[t][f] = 1
        BY <1>3, <1>4, <1>7, <3>1, <3>3 DEF Kept
      <4>2. PICK g \in FileIds \ {f} : d.fileAssoc[t][g] # 0
        BY <1>2, <1>7, <4>1
      <4>3. d.files[g] # NoRow /\ g \in UnderTag(b, t)
        BY <1>3, <1>4, <1>7, <4>2 DEF Kept
      <4> QED BY <1>1, <4>2, <4>3
    <3> QED BY <3>2, <3>3
  <2> QED BY <2>1, <2>2, <2>3 DEF Kept
<1> QED BY <1>5, <1>6, <1>7 DEF Checked

CheckInv == /\ stage \in {"create", "plugins"} => Grows(before, db)
            /\ stage \in {"check", "import"} => Checked(before, db)

LEMMA CheckKeeps ==
  ASSUME StartInv, CheckInv, [ProgramNext]_programVars
  PROVE  CheckInv'
<1>1. Sound(db) /\ before \in Databases
  BY DEF StartInv, MainOK, Inv, TablesSound
<1>2. CASE Begin
  <2>1. Grows(before', db') /\ stage' = "create"
    BY <1>1, <1>2, GrowsNothing DEF Begin, To, vars
  <2> QED BY <2>1 DEF CheckInv
<1>3. CASE Create
  <2>1. Grows(before, db) /\ Grows(db, db')
    BY <1>1, <1>3, CreateGrows DEF Create, CheckInv
  <2>2. Grows(before', db') /\ stage' = "plugins"
    BY <1>3, <2>1, GrowsOn DEF Create, To, found
  <2> QED BY <2>2 DEF CheckInv
<1>4. CASE LoadPlugins
  <2>1. Grows(before, db) /\ Grows(db, db')
    BY <1>1, <1>4, LoadGrows DEF LoadPlugins, CheckInv
  <2>2. Checked(before', db') /\ stage' = "check"
    BY <1>4, <2>1, GrowsOn, GrownIsChecked DEF LoadPlugins, To, found
  <2> QED BY <2>2 DEF CheckInv
<1>5. CASE CheckFile
  <2>1. PICK f \in FileIds :
          /\ CheckTurn(f)
          /\ db' = IF CanOpen(db.files[f]) THEN db ELSE remove_gone_file(db, f)
    BY <1>5 DEF CheckFile
  <2>2. stage = "check" /\ stage' = "check" /\ db.files[f] # NoRow /\ before' = before
    BY <1>5, <2>1 DEF CheckTurn, FilesFrom, CheckFile, found
  <2>3. Checked(before, db)
    BY <2>2 DEF CheckInv
  <2>4. Checked(before, db')
    BY <1>1, <2>1, <2>2, <2>3, RemovalIsChecked
  <2> QED BY <2>2, <2>4 DEF CheckInv
<1>6. CASE CheckDone
  <2>1. Checked(before', db') /\ stage' = "import"
    BY <1>6 DEF CheckDone, CheckedTurn, CheckInv, found
  <2> QED BY <2>1 DEF CheckInv
<1>7. CASE stage' \notin {"create", "plugins", "check", "import"}
  BY <1>7 DEF CheckInv
<1>8. CASE UNCHANGED <<db, before, stage>>
  BY <1>8 DEF CheckInv
<1>9. ASSUME Import \/ WalkFile \/ WalkDirectory \/ WalkReturn \/ Serve \/ Exit \/ Crash
      PROVE  stage' \notin {"create", "plugins", "check", "import"}
  BY <1>9 DEF Import, ImportTurn, To, WalkFile, FileTurn, WalkDirectory, DirectoryTurn,
              WalkReturn, ReturnTurn, Serve, Exit, Crash, Stopped
<1>10. ASSUME Call PROVE stage' \notin {"create", "plugins", "check", "import"}
  BY <1>10 DEF Call
<1>11. ASSUME NEW p \in AbsPaths, Remove(p) \/ Store(p)
       PROVE  UNCHANGED <<db, before, stage>>
  BY <1>11 DEF Remove, Vanish, Store, Event
<1>12. ASSUME NEW e \in Lockable, ChangeMode(e) PROVE UNCHANGED <<db, before, stage>>
  BY <1>12 DEF ChangeMode, Event, vars
<1>13. ASSUME UNCHANGED programVars PROVE UNCHANGED <<db, before, stage>>
  BY <1>13 DEF programVars, main, vars
<1> QED BY <1>2, <1>3, <1>4, <1>5, <1>6, <1>7, <1>8, <1>9, <1>10, <1>11, <1>12, <1>13
        DEF ProgramNext, Main

(* The check removes every tag of the start that has lost all its files    *)
(* and no other, whatever the files, their tags and their order.           *)
THEOREM CheckRemovesOnlyEmptied == Program => []CheckRemovesEmptied
<1>1. ProgramInit => CheckInv
  BY DEF ProgramInit, CheckInv
<1>2. StartInv /\ CheckInv /\ [ProgramNext]_programVars => CheckInv'
  BY CheckKeeps
<1>3. CheckInv => CheckRemovesEmptied
  <2> SUFFICES ASSUME CheckInv, stage = "import", NEW t \in TagIds, before.tags[t] # NoRow
               PROVE  db.tags[t] = NoRow <=>
                        UnderTag(before, t) # {} /\ \A f \in UnderTag(before, t) : db.files[f] = NoRow
    BY DEF CheckRemovesEmptied
  <2>1. Kept(before, db, t) \/ Lost(before, db, t)
    BY DEF CheckInv, Checked
  <2> QED BY <2>1 DEF Kept, Lost
<1> QED BY <1>1, <1>2, <1>3, ProgramAlways, PTL DEF Program

-----------------------------------------------------------------------------
(* On a disk that does not change.                                         *)

Present  == {p \in AbsPaths : CanStat(p)}
Openable == {p \in AbsPaths : CanOpen(p)}

LEMMA OpenIsPresent == Openable \subseteq Present
BY DEF Openable, Present, CanOpen

LEMMA PresentStays ==
  ASSUME UNCHANGED <<disk, locked>>
  PROVE  Present' = Present /\ Openable' = Openable
BY DEF Present, Openable, CanOpen, CanStat

(* The import adds, and of files those that are there.                     *)
LEMMA ImportAdds ==
  ASSUME StartInv, Import \/ WalkFile \/ WalkDirectory \/ WalkReturn,
         stage' \in {"walk", "rules"}
  PROVE  Adds(db, db', Present) /\ UNCHANGED <<disk, locked, before, steady>>
<1>1. Sound(db) /\ MainOK
  BY DEF StartInv, Inv, TablesSound
<1>2. UNCHANGED <<disk, locked, before, steady>>
  BY DEF Import, WalkFile, WalkDirectory, WalkReturn, daemon, found
<1> SUFFICES Adds(db, db', Present)
  BY <1>2
<1>3. CASE Import
  <2>1. db' = import_top(db)
    BY <1>3 DEF Import, ImportTurn, To
  <2> QED BY <1>1, <2>1, ImportTopAdds
<1>4. CASE WalkFile
  <2>1. PICK e \in AbsPaths :
          FileTurn(e) /\ db' = IF CanStat(e) THEN import_file(db, e, Top.dir) ELSE db
    BY <1>4 DEF WalkFile
  <2>2. Top.dir \in Dirs
    BY <1>1, <2>1, TopIsFrame DEF FileTurn
  <2>3. CASE ~CanStat(e)
    BY <1>1, <2>1, <2>3, AddsNothing
  <2>4. CASE CanStat(e)
    <3>1. e \in Present
      BY <2>4 DEF Present
    <3> QED BY <1>1, <2>1, <2>2, <2>4, <3>1, ImportFileAdds
  <2> QED BY <2>3, <2>4
<1>5. CASE WalkDirectory
  <2>1. PICK e \in Dirs : db' \in {db, add_tag(db, DirName[e], USER_TAG).db}
    BY <1>5 DEF WalkDirectory
  <2> QED BY <1>1, <2>1, DirNamesAreNames, AddTagAdds, AddsNothing DEF TagTypes
<1>6. CASE WalkReturn
  <2>1. stage = "walk"
    BY <1>6 DEF WalkReturn, ReturnTurn
  <2>2. CASE Len(walk) > 1
    <3>1. Len(walk) - 1 \in 1..Len(walk)
      BY <1>1, <2>1, <2>2, TopIsFrame
    <3>2. Top.dir \in Dirs /\ walk[Len(walk) - 1].dir \in Dirs
      BY <1>1, <2>1, <3>1, TopIsFrame DEF Frames
    <3>3. db' = add_association(db, DirName[Top.dir], DirName[walk[Len(walk) - 1].dir],
                                ASSOC_SUBGROUP).db
      BY <1>6, <2>2 DEF WalkReturn
    <3> QED BY <1>1, <3>2, <3>3, DirNamesAreNames, AddAssociationAdds, SubgroupAssumption
  <2>3. CASE ~(Len(walk) > 1)
    <3>1. db' = db
      BY <1>6, <2>3 DEF WalkReturn
    <3> QED BY <1>1, <3>1, AddsNothing
  <2> QED BY <2>2, <2>3
<1> QED BY <1>3, <1>4, <1>5, <1>6

(* Where a step may lead that is not a part of main before the daemon.     *)
LEMMA OtherSteps ==
  ASSUME [ProgramNext]_programVars
  PROVE  \/ Begin \/ Create \/ LoadPlugins \/ CheckFile \/ CheckDone
         \/ stage' \in {"walk", "rules"} /\ (Import \/ WalkFile \/ WalkDirectory \/ WalkReturn)
         \/ stage' \in {"off", "live"}
         \/ ~steady' /\ UNCHANGED <<stage, next>>
         \/ UNCHANGED <<db, disk, locked, before, steady, stage, next>>
<1>1. ASSUME Import \/ WalkFile \/ WalkDirectory \/ WalkReturn
      PROVE  stage' \in {"walk", "rules", "off"}
  BY <1>1 DEF Import, ImportTurn, To, WalkFile, FileTurn, WalkDirectory, DirectoryTurn,
              WalkReturn, ReturnTurn
<1>2. ASSUME Serve \/ Exit \/ Crash \/ Call
      PROVE  stage' \in {"off", "live"}
  BY <1>2 DEF Serve, To, Exit, Crash, Stopped, Call
<1>3. ASSUME \/ \E p \in AbsPaths : Remove(p) \/ Store(p)
             \/ \E e \in Lockable : ChangeMode(e)
      PROVE  ~steady' /\ UNCHANGED <<stage, next>>
  BY <1>3 DEF Remove, Store, ChangeMode, Event
<1>4. ASSUME UNCHANGED programVars
      PROVE  UNCHANGED <<db, disk, locked, before, steady, stage, next>>
  BY <1>4 DEF programVars, main, vars
<1> QED BY <1>1, <1>2, <1>3, <1>4 DEF ProgramNext, Main

LEMMA KnownIsPath ==
  ASSUME NEW d \in Databases, NEW f \in FileIds, d.files[f] # NoRow
  PROVE  d.files[f] \in AbsPaths
BY DEF Databases, FileTable

ThereIn(f) == db.files[f] # NoRow => db.files[f] \in Present

GoneInv ==
  /\ stage # "check" => next = 0
  /\ steady /\ stage = "check" => \A f \in FileIds : f < next => ThereIn(f)
  /\ steady /\ stage \in {"import", "walk", "rules"} => \A f \in FileIds : ThereIn(f)

LEMMA NextIsOfTheCheck ==
  ASSUME [ProgramNext]_programVars, stage # "check" => next = 0
  PROVE  stage' # "check" => next' = 0
<1>1. ASSUME Main PROVE stage' # "check" => next' = 0
  BY <1>1
  DEF Main, Create, LoadPlugins, To, CheckFile, CheckTurn, CheckDone, CheckedTurn, Import,
      ImportTurn, WalkFile, FileTurn, WalkDirectory, DirectoryTurn, WalkReturn, ReturnTurn, Serve
<1>2. ASSUME Exit \/ Crash PROVE next' = 0
  BY <1>2 DEF Exit, Crash, Stopped
<1>3. ASSUME Begin PROVE stage' # "check" => next' = 0
  BY <1>3 DEF Begin, To
<1>4. ASSUME \/ Call \/ UNCHANGED programVars
             \/ \E p \in AbsPaths : Remove(p) \/ Store(p)
             \/ \E e \in Lockable : ChangeMode(e)
      PROVE  UNCHANGED <<stage, next>>
  BY <1>4 DEF Call, Remove, Store, ChangeMode, Event, programVars, main
<1> QED BY <1>1, <1>2, <1>3, <1>4 DEF ProgramNext

LEMMA GoneKeeps ==
  ASSUME StartInv, GoneInv, [ProgramNext]_programVars
  PROVE  GoneInv'
<1>1. stage' # "check" => next' = 0
  BY NextIsOfTheCheck DEF GoneInv
<1>2. /\ Sound(db) /\ next \in Nat
      /\ FileIds \subseteq Nat /\ steady \in BOOLEAN
  BY BoundAssumption DEF StartInv, MainOK, Inv, TablesSound, FileIds
<1>3. CASE CheckFile
  <2>1. PICK f \in FileIds :
          /\ CheckTurn(f)
          /\ db' = IF CanOpen(db.files[f]) THEN db ELSE remove_gone_file(db, f)
    BY <1>3 DEF CheckFile
  <2>2. /\ stage = "check" /\ stage' = "check" /\ next' = f + 1
        /\ disk' = disk /\ steady' = steady /\ Present' = Present
    BY <1>3, <2>1, PresentStays DEF CheckFile, CheckTurn, daemon, found
  <2>3. \A g \in FileIds : g < f /\ g >= next => db.files[g] = NoRow
    <3>1. \A g \in FileIds : g >= next /\ db.files[g] # NoRow => f <= g
      BY <2>1 DEF CheckTurn, FilesFrom
    <3> QED BY <1>2, <3>1
  <2>4. \A g \in FileIds :
          IF g = f THEN db'.files[g] = NoRow \/ (db'.files[g] = db.files[g] /\ ThereIn(g))
          ELSE db'.files[g] = db.files[g]
    <3>1. CASE ~CanOpen(db.files[f])
      BY <1>2, <2>1, <3>1, RemoveGoneEffect
    <3>2. CASE CanOpen(db.files[f])
      <4>1. db.files[f] \in Present
        BY <1>2, <2>1, <3>2, KnownIsPath DEF Sound, Present, CanOpen, CheckTurn, FilesFrom
      <4> QED BY <2>1, <3>2, <4>1 DEF ThereIn
    <3> QED BY <3>1, <3>2
  <2>5. ASSUME steady, NEW g \in FileIds, g < f + 1
        PROVE  ThereIn(g)'
    <3>1. g = f \/ (g < f /\ g < next) \/ (g < f /\ g >= next)
      BY <1>2, <2>5
    <3>2. g < next => ThereIn(g)
      BY <2>2, <2>5 DEF GoneInv
    <3> QED BY <2>2, <2>3, <2>4, <3>1, <3>2 DEF ThereIn
  <2> QED BY <1>1, <2>2, <2>5 DEF GoneInv
<1>4. CASE CheckDone
  <2>1. /\ stage = "check" /\ stage' = "import" /\ UNCHANGED <<db, steady, Present>>
        /\ \A g \in FileIds : g >= next => db.files[g] = NoRow
    BY <1>4, PresentStays DEF CheckDone, CheckedTurn, daemon, found, FilesFrom
  <2>2. ASSUME steady, NEW g \in FileIds PROVE ThereIn(g)
    <3>1. g < next \/ g >= next
      BY <1>2
    <3> QED BY <2>1, <2>2, <3>1 DEF GoneInv, ThereIn
  <2> QED BY <1>1, <2>1, <2>2 DEF GoneInv, ThereIn
<1>5. CASE stage' \in {"walk", "rules"} /\ (Import \/ WalkFile \/ WalkDirectory \/ WalkReturn)
  <2>1. Adds(db, db', Present) /\ UNCHANGED <<steady, Present>>
    BY <1>5, ImportAdds, PresentStays
  <2>2. stage \in {"import", "walk"}
    BY <1>5 DEF Import, ImportTurn, WalkFile, FileTurn, WalkDirectory, DirectoryTurn,
                WalkReturn, ReturnTurn
  <2>3. ASSUME steady, NEW f \in FileIds PROVE ThereIn(f)'
    <3>1. ThereIn(f)
      BY <2>2, <2>3 DEF GoneInv
    <3>2. db'.files[f] = db.files[f] \/ db'.files[f] \in Present
      BY <2>1 DEF Adds
    <3> QED BY <2>1, <3>1, <3>2 DEF ThereIn
  <2> QED BY <1>1, <1>5, <2>1, <2>3 DEF GoneInv
<1>6. CASE LoadPlugins
  <2>1. stage' = "check" /\ next' = 0
    BY <1>6 DEF LoadPlugins, To, GoneInv
  <2>2. \A f \in FileIds : ~(f < next')
    BY <1>2, <2>1
  <2> QED BY <1>1, <2>1, <2>2 DEF GoneInv
<1>7. CASE stage' \in {"create", "plugins", "off", "live"}
  BY <1>1, <1>7 DEF GoneInv
<1>8. ASSUME Begin \/ Create PROVE stage' \in {"create", "plugins"}
  BY <1>8 DEF Begin, Create, To
<1>9. CASE ~steady' /\ UNCHANGED <<stage, next>>
  BY <1>1, <1>9 DEF GoneInv
<1>10. CASE UNCHANGED <<db, disk, locked, before, steady, stage, next>>
  BY <1>10, PresentStays DEF GoneInv, ThereIn
<1> QED BY <1>3, <1>4, <1>5, <1>6, <1>7, <1>8, <1>9, <1>10, OtherSteps

(* On a disk that does not change the check leaves no file that is gone,   *)
(* and the import adds none, whatever the files and their ids.             *)
THEOREM CheckLeavesNoFileGone == Program => []NoFileIsGone
<1>1. ProgramInit => GoneInv
  BY DEF ProgramInit, GoneInv
<1>2. StartInv /\ GoneInv /\ [ProgramNext]_programVars => GoneInv'
  BY GoneKeeps
<1>3. GoneInv => NoFileIsGone
  BY DEF GoneInv, ThereIn, Present, NoFileIsGone
<1> QED BY <1>1, <1>2, <1>3, ProgramAlways, PTL DEF Program

(* Every file this start found can be opened.                              *)
NoneGone == \A f \in FileIds : before.files[f] # NoRow => before.files[f] \in Openable

AddsInv ==
  steady /\ NoneGone =>
    /\ stage \in {"create", "plugins", "check"} => Adds(before, db, {})
    /\ stage \in {"import", "walk", "rules"} => Adds(before, db, Present)

LEMMA AddsMore ==
  ASSUME NEW d, NEW e, NEW P, Adds(d, e, {})
  PROVE  Adds(d, e, P)
BY DEF Adds

LEMMA AddsKeeps ==
  ASSUME StartInv, CheckInv, AddsInv, [ProgramNext]_programVars
  PROVE  AddsInv'
<1>1. CASE Begin
  <2>1. stage' = "create" /\ db' = db /\ before' = db /\ Sound(db)
    BY <1>1 DEF Begin, To, vars, StartInv, Inv, TablesSound
  <2> QED BY <2>1, AddsNothing DEF AddsInv
<1>2. CASE Create
  <2>1. Sound(db) /\ Grows(before, db) /\ stage' = "plugins" /\ UNCHANGED before
    BY <1>2 DEF Create, To, CheckInv, StartInv, Inv, TablesSound, found
  <2>2. Grows(db, db')
    BY <1>2, <2>1, CreateGrows DEF Create
  <2>3. Adds(before, db', {})
    BY <2>1, <2>2, AddsOn DEF Grows
  <2> QED BY <2>1, <2>3 DEF AddsInv
<1>3. CASE LoadPlugins
  <2>1. Sound(db) /\ Grows(before, db) /\ stage' = "check" /\ UNCHANGED before
    BY <1>3 DEF LoadPlugins, To, CheckInv, StartInv, Inv, TablesSound, found
  <2>2. Grows(db, db')
    BY <1>3, <2>1, LoadGrows DEF LoadPlugins
  <2>3. Adds(before, db', {})
    BY <2>1, <2>2, AddsOn DEF Grows
  <2> QED BY <2>1, <2>3 DEF AddsInv
<1>4. CASE CheckFile
  <2>1. PICK f \in FileIds :
          /\ CheckTurn(f)
          /\ db' = IF CanOpen(db.files[f]) THEN db ELSE remove_gone_file(db, f)
    BY <1>4 DEF CheckFile
  <2>2. /\ stage = "check" /\ stage' = "check" /\ db.files[f] # NoRow
        /\ UNCHANGED <<before, steady, Openable>>
    BY <1>4, <2>1, PresentStays DEF CheckFile, CheckTurn, FilesFrom, daemon, found
  <2>3. ASSUME steady, NoneGone PROVE Adds(before, db', {})
    <3>1. Adds(before, db, {})
      BY <2>2, <2>3 DEF AddsInv
    <3>2. db.files[f] = before.files[f]
      BY <3>1 DEF Adds
    <3>3. CanOpen(db.files[f])
      BY <2>2, <2>3, <3>2 DEF NoneGone, Openable
    <3> QED BY <2>1, <3>1, <3>3
  <2> QED BY <2>2, <2>3 DEF AddsInv, NoneGone
<1>5. CASE CheckDone
  <2>1. /\ stage = "check" /\ stage' = "import"
        /\ UNCHANGED <<db, before, steady, Present, Openable>>
    BY <1>5, PresentStays DEF CheckDone, CheckedTurn, daemon, found
  <2>2. ASSUME steady, NoneGone PROVE Adds(before, db, Present)
    BY <2>1, <2>2, AddsMore DEF AddsInv
  <2> QED BY <2>1, <2>2 DEF AddsInv, NoneGone
<1>6. CASE stage' \in {"walk", "rules"} /\ (Import \/ WalkFile \/ WalkDirectory \/ WalkReturn)
  <2>1. Adds(db, db', Present) /\ UNCHANGED <<before, steady, Present, Openable>>
    BY <1>6, ImportAdds, PresentStays
  <2>2. stage \in {"import", "walk"}
    BY <1>6 DEF Import, ImportTurn, WalkFile, FileTurn, WalkDirectory, DirectoryTurn,
                WalkReturn, ReturnTurn
  <2>3. ASSUME steady, NoneGone PROVE Adds(before, db', Present)
    BY <2>1, <2>2, <2>3, AddsOn DEF AddsInv
  <2> QED BY <1>6, <2>1, <2>3 DEF AddsInv, NoneGone
<1>7. CASE stage' \in {"off", "live"}
  BY <1>7 DEF AddsInv
<1>8. CASE ~steady' /\ UNCHANGED <<stage, next>>
  BY <1>8 DEF AddsInv
<1>9. CASE UNCHANGED <<db, disk, locked, before, steady, stage, next>>
  BY <1>9, PresentStays DEF AddsInv, NoneGone
<1> QED BY <1>1, <1>2, <1>3, <1>4, <1>5, <1>6, <1>7, <1>8, <1>9, OtherSteps

(* Where every known file can be opened a start adds tags, files, rows and *)
(* relations and takes none away, whatever the plugins and the metadata.   *)
THEOREM StartsOnlyAdd == Program => []StartOnlyAdds
<1>1. ProgramInit => CheckInv /\ AddsInv
  BY DEF ProgramInit, CheckInv, AddsInv
<1>2. StartInv /\ CheckInv /\ [ProgramNext]_programVars => CheckInv'
  BY CheckKeeps
<1>3. StartInv /\ CheckInv /\ AddsInv /\ [ProgramNext]_programVars => AddsInv'
  BY AddsKeeps
<1>4. StartInv /\ AddsInv => StartOnlyAdds
  <2> SUFFICES ASSUME StartInv, AddsInv, stage = "rules", steady,
                      \A f \in FileIds : before.files[f] # NoRow => CanOpen(before.files[f])
               PROVE  /\ \A f \in FileIds : before.files[f] # NoRow => db.files[f] = before.files[f]
                      /\ \A t \in TagIds : before.tags[t] # NoRow => db.tags[t] = before.tags[t]
                      /\ \A t \in TagIds, f \in FileIds :
                           before.fileAssoc[t][f] <= db.fileAssoc[t][f]
                      /\ \A t, u \in TagIds, a \in AssocIds :
                           before.tagAssoc[t][u][a] <= db.tagAssoc[t][u][a]
    BY DEF StartOnlyAdds
  <2>2. NoneGone
    BY KnownIsPath DEF NoneGone, Openable, StartInv, MainOK
  <2>1. Adds(before, db, Present)
    BY <2>2 DEF AddsInv
  <2> QED BY <2>1 DEF Adds
<1> QED BY <1>1, <1>2, <1>3, <1>4, ProgramAlways, PTL DEF Program

-----------------------------------------------------------------------------
(* Room for more rows.                                                     *)

(* A class of ids that has run out has run out for good, as long as rows   *)
(* are only added.                                                         *)
LEMMA RoomGone ==
  ASSUME NEW N \in Nat, NEW lo \in Nat, NEW hi \in Nat, lo < hi,
         NEW range, range = {i \in 0..N : lo <= i /\ i < hi},
         NEW table, NEW later, DOMAIN table = 0..N, DOMAIN later = 0..N,
         \A i \in 0..N : table[i] # NoRow => later[i] # NoRow,
         NEW U, U = {i \in range : table[i] # NoRow},
         NEW V, V = {i \in range : later[i] # NoRow},
         ~Insertable(table, IdAfter(U, lo))
  PROVE  ~Insertable(later, IdAfter(V, lo))
<1>1. U \subseteq V /\ V \subseteq range /\ range \subseteq 0..N
  OBVIOUS
<1>2. IdAfter(U, lo) \in Nat /\ (IdAfter(U, lo) \in range => table[IdAfter(U, lo)] = NoRow)
  BY <1>1, IdAfterIsNew
<1>3. ~Insertable(table, IdAfter(U, lo))
  OBVIOUS
<1>4. IdAfter(U, lo) \notin range
  BY <1>1, <1>2, <1>3 DEF Insertable
<1>5. IdAfter(V, lo) = IdAfter(U, lo)
  <2>1. CASE U = {}
    <3>1. IdAfter(U, lo) = lo
      BY <2>1 DEF IdAfter
    <3>2. range = {}
      BY <1>4, <3>1
    <3> QED BY <1>1, <2>1, <3>2
  <2>2. CASE U # {}
    <3> DEFINE m == Max(U)
               k == Max(V)
    <3>1. m \in U /\ U \subseteq 0..N
      BY <1>1, <2>2, MaxExists
    <3>2. k \in V /\ \A y \in V : k >= y
      <4>1. V \subseteq 0..N /\ V # {}
        BY <1>1, <2>2
      <4> QED BY <4>1, MaxExists
    <3>3. IdAfter(U, lo) = m + 1 /\ IdAfter(V, lo) = k + 1
      BY <2>2, <1>1 DEF IdAfter
    <3> HIDE DEF m, k
    <3>4. m \in Nat /\ k \in Nat /\ k >= m /\ m \in range /\ k \in range
      BY <1>1, <3>1, <3>2
    <3>5. k <= m
      BY <1>4, <3>3, <3>4
    <3> QED BY <3>3, <3>4, <3>5
  <2> QED BY <2>1, <2>2
<1>6. ~Insertable(later, IdAfter(U, lo))
  BY <1>3 DEF Insertable
<1> QED BY <1>5, <1>6

(* Where rows are only added, a tag that is there keeps its name.          *)
LEMMA AddsTagRows ==
  ASSUME NEW d, NEW e, NEW P, Adds(d, e, P)
  PROVE  /\ DOMAIN d.tags = TagIds /\ DOMAIN e.tags = TagIds
         /\ \A t \in TagIds : d.tags[t] # NoRow => e.tags[t] = d.tags[t]
<1>1. d \in Databases /\ e \in Databases
  BY AddsSound DEF Sound
<1> QED BY <1>1 DEF Adds, Databases, TagTable

(* Where rows are only added, a file that is there keeps its path, and the *)
(* paths that are new are of P.                                            *)
LEMMA AddsFileRows ==
  ASSUME NEW d, NEW e, NEW P, Adds(d, e, P)
  PROVE  /\ DOMAIN d.files = FileIds /\ DOMAIN e.files = FileIds
         /\ \A f \in FileIds : d.files[f] # NoRow => e.files[f] = d.files[f]
         /\ \A f \in FileIds : e.files[f] # d.files[f] => d.files[f] = NoRow /\ e.files[f] \in P
<1>1. d \in Databases /\ e \in Databases
  BY AddsSound DEF Sound
<1> QED BY <1>1 DEF Adds, Databases, FileTable

(* Tags never get room again.                                              *)
LEMMA TagRoomGone ==
  ASSUME NEW d, NEW e, NEW P, Adds(d, e, P), NEW type \in {USER_TAG, SYSTEM_TAG},
         ~RoomForTag(d, type)
  PROVE  ~RoomForTag(e, type)
<1> DEFINE lo == IF type = USER_TAG THEN UserTagStart ELSE 0
           hi == IF type = USER_TAG THEN UserMadeTag ELSE UserTagStart
<1>1. lo \in Nat /\ hi \in Nat /\ lo < hi /\ MaxTno \in Nat
  BY BoundAssumption
<1>2. /\ FirstIdOf(type) = lo
      /\ IdsOf(type) = {i \in 0..MaxTno : lo <= i /\ i < hi}
  <2>1. CASE type = USER_TAG
    BY <2>1 DEF FirstIdOf, IdsOf, TagIds, USER_TAG, SYSTEM_TAG, USER_MADE_TAG
  <2>2. CASE type = SYSTEM_TAG
    BY <2>2 DEF FirstIdOf, IdsOf, TagIds, USER_TAG, SYSTEM_TAG, USER_MADE_TAG
  <2> QED BY <2>1, <2>2
<1>3. /\ DOMAIN d.tags = 0..MaxTno /\ DOMAIN e.tags = 0..MaxTno
      /\ \A i \in 0..MaxTno : d.tags[i] # NoRow => e.tags[i] # NoRow
  BY AddsTagRows DEF TagIds
<1>4. PICK range, U, V : /\ range = IdsOf(type)
                         /\ U = {i \in range : d.tags[i] # NoRow}
                         /\ V = {i \in range : e.tags[i] # NoRow}
  OBVIOUS
<1>5. ~Insertable(d.tags, IdAfter(U, lo)) /\ range = {i \in 0..MaxTno : lo <= i /\ i < hi}
  BY <1>2, <1>4 DEF RoomForTag
<1> HIDE DEF lo, hi
<1>6. ~Insertable(e.tags, IdAfter(V, lo))
  BY <1>1, <1>3, <1>4, <1>5, RoomGone
<1> QED BY <1>2, <1>4, <1>6 DEF RoomForTag

(* Files never get room again.                                             *)
LEMMA FileRoomGone ==
  ASSUME NEW d, NEW e, NEW P, Adds(d, e, P), ~RoomForFile(d)
  PROVE  ~RoomForFile(e)
<1>1. 0 \in Nat /\ MaxFno + 1 \in Nat /\ 0 < MaxFno + 1 /\ MaxFno \in Nat
  BY BoundAssumption
<1>2. FileIds = {i \in 0..MaxFno : 0 <= i /\ i < MaxFno + 1}
  BY <1>1 DEF FileIds
<1>3. /\ DOMAIN d.files = 0..MaxFno /\ DOMAIN e.files = 0..MaxFno
      /\ \A i \in 0..MaxFno : d.files[i] # NoRow => e.files[i] # NoRow
  BY AddsFileRows DEF FileIds
<1>4. PICK U, V : /\ U = {i \in FileIds : d.files[i] # NoRow}
                  /\ V = {i \in FileIds : e.files[i] # NoRow}
  OBVIOUS
<1>5. ~Insertable(d.files, IdAfter(U, 0))
  BY <1>4 DEF RoomForFile
<1>6. ~Insertable(e.files, IdAfter(V, 0))
  BY <1>1, <1>2, <1>3, <1>4, <1>5, RoomGone
<1> QED BY <1>4, <1>6 DEF RoomForFile

-----------------------------------------------------------------------------
(* What is there, by name.                                                 *)

Tagged(d, n) == \E t \in TagIds : d.tags[t] = n
Known(d, n)  == \E f \in FileIds : d.files[f] # NoRow /\ BaseName[d.files[f]] = n
Related(d, m, n) ==
  \E t, u \in TagIds : /\ d.tags[t] = m /\ d.tags[u] = n
                       /\ \E a \in AssocIds : d.tagAssoc[t][u][a] > 0

(* The lookup of a tag by its name misses none.                            *)
LEMMA TaggedFound ==
  ASSUME NEW d, Sound(d), NEW n \in TagNames
  PROVE  Tagged(d, n) <=> get_tag_id(d, n) # KW_FAIL
<1>1. \/ get_tag_id(d, n) = KW_FAIL /\ \A u \in TagIds : d.tags[u] # n
      \/ /\ get_tag_id(d, n) \in TagIds /\ get_tag_id(d, n) # KW_FAIL
         /\ d.tags[get_tag_id(d, n)] = n
  BY TagIdFound DEF Sound
<1> QED BY <1>1 DEF Tagged

(* The lookup of a file by its base name misses none.                      *)
LEMMA KnownFound ==
  ASSUME NEW d, Sound(d), NEW n
  PROVE  Known(d, n) <=> get_file_id(d, n) # KW_FAIL
<1>1. \/ /\ get_file_id(d, n) = KW_FAIL
         /\ \A g \in FileIds : d.files[g] # NoRow => BaseName[d.files[g]] # n
      \/ /\ get_file_id(d, n) \in FileIds /\ get_file_id(d, n) # KW_FAIL
         /\ d.files[get_file_id(d, n)] # NoRow /\ BaseName[d.files[get_file_id(d, n)]] = n
  BY FileIdFound DEF Sound
<1> QED BY <1>1 DEF Known

(* What is there, by name, stays while rows are only added.                *)
LEMMA TaggedStays ==
  ASSUME NEW d, NEW e, NEW P, Adds(d, e, P), NEW n \in TagNames, Tagged(d, n)
  PROVE  Tagged(e, n)
BY AddsTagRows, NoRowAssumption DEF Tagged

LEMMA KnownStays ==
  ASSUME NEW d, NEW e, NEW P, Adds(d, e, P), NEW n, Known(d, n)
  PROVE  Known(e, n)
BY AddsFileRows DEF Known

LEMMA RelatedStays ==
  ASSUME NEW d, NEW e, NEW P, Adds(d, e, P), NEW m \in TagNames, NEW n \in TagNames,
         Related(d, m, n)
  PROVE  Related(e, m, n)
<1>1. PICK t \in TagIds, u \in TagIds :
        /\ d.tags[t] = m /\ d.tags[u] = n
        /\ \E a \in AssocIds : d.tagAssoc[t][u][a] > 0
  BY DEF Related
<1>2. PICK a \in AssocIds : d.tagAssoc[t][u][a] > 0
  BY <1>1
<1>3. e.tags[t] = m /\ e.tags[u] = n
  BY <1>1, AddsTagRows, NoRowAssumption
<1>4. d.tagAssoc[t][u][a] \in Nat /\ e.tagAssoc[t][u][a] \in Nat
  BY AddsSound DEF Sound, Databases, TagAssociationTable
<1>5. d.tagAssoc[t][u][a] <= e.tagAssoc[t][u][a]
  BY DEF Adds
<1>6. e.tagAssoc[t][u][a] > 0
  BY <1>2, <1>4, <1>5
<1> QED BY <1>3, <1>6 DEF Related

(* A tag of the class is there, or there is no id for it.                  *)
Made(d, n, type) == Tagged(d, n) \/ ~RoomForTag(d, type)

LEMMA MadeStays ==
  ASSUME NEW d, NEW e, NEW P, Adds(d, e, P), NEW n \in TagNames,
         NEW type \in {USER_TAG, SYSTEM_TAG}, Made(d, n, type)
  PROVE  Made(e, n, type)
BY TaggedStays, TagRoomGone DEF Made

(* add_tag leaves a tag of the name, or the class of ids is used up.       *)
LEMMA AddTagMakes ==
  ASSUME NEW d, Sound(d), NEW n \in TagNames, NEW type \in {USER_TAG, SYSTEM_TAG}
  PROVE  Made(add_tag(d, n, type).db, n, type)
<1> DEFINE t == set_tag_id(d, n, type)
           r == add_tag(d, n, type)
<1>1. type \in TagTypes
  BY DEF TagTypes
<1>2. CASE r = Return(d, KW_ERROR) /\ get_tag_id(d, n) # KW_FAIL
  BY <1>2, TaggedFound DEF Made, Return
<1>3. CASE r = Return(d, KW_FAIL) /\ get_tag_id(d, n) = KW_FAIL
  <2>1. t # KW_FAIL
    BY <1>1, <1>3, NewTagId DEF Sound
  <2>2. t = IdAfter({u \in IdsOf(type) : d.tags[u] # NoRow}, FirstIdOf(type))
    BY <1>3 DEF set_tag_id
  <2>3. ~Insertable(d.tags, t)
    <3>1. SUFFICES ASSUME Insertable(d.tags, t) PROVE FALSE
      OBVIOUS
    <3>2. r = Return([d EXCEPT !.tags[t] = n], KW_SUCCESS)
      BY <2>1, <3>1 DEF add_tag
    <3>3. Return([d EXCEPT !.tags[t] = n], KW_SUCCESS).code = KW_SUCCESS
      BY DEF Return
    <3> HIDE DEF r
    <3> QED BY <1>3, <3>2, <3>3 DEF Return, KW_SUCCESS, KW_FAIL
  <2> QED BY <1>3, <2>2, <2>3 DEF Made, RoomForTag, Return
<1>4. ASSUME NEW u \in TagIds, r = Return([d EXCEPT !.tags[u] = n], KW_SUCCESS)
      PROVE  Made(r.db, n, type)
  <2>1. r.db.tags[u] = n
    BY <1>4 DEF Return, Sound, Databases, TagTable
  <2> QED BY <2>1 DEF Made, Tagged
<1> HIDE DEF r
<1> QED BY <1>1, <1>2, <1>3, <1>4, AddTagEffect DEF r

(* And then it is left as it is.                                           *)
LEMMA AddTagIdle ==
  ASSUME NEW d, Sound(d), NEW n \in TagNames, NEW type \in {USER_TAG, SYSTEM_TAG},
         Made(d, n, type)
  PROVE  add_tag(d, n, type).db = d /\ add_tag(d, n, type).code # KW_SUCCESS
<1>1. CASE get_tag_id(d, n) # KW_FAIL
  BY <1>1 DEF add_tag, set_tag_id, Return, KW_ERROR, KW_SUCCESS
<1>2. CASE get_tag_id(d, n) = KW_FAIL
  <2>1. ~RoomForTag(d, type)
    BY <1>2, TaggedFound DEF Made
  <2>2. set_tag_id(d, n, type) # KW_FAIL
    BY <1>2, NewTagId DEF Sound, TagTypes
  <2>3. set_tag_id(d, n, type) = IdAfter({u \in IdsOf(type) : d.tags[u] # NoRow}, FirstIdOf(type))
    BY <1>2 DEF set_tag_id
  <2>4. ~Insertable(d.tags, set_tag_id(d, n, type))
    BY <2>1, <2>3 DEF RoomForTag
  <2> QED BY <2>2, <2>4 DEF add_tag, Return, KW_FAIL, KW_SUCCESS
<1> QED BY <1>1, <1>2

(* The same for files.                                                     *)
LEMMA AddFileRowKnows ==
  ASSUME NEW d, Sound(d), NEW p \in AbsPaths
  PROVE  Known(add_file_row(d, p).db, BaseName[p]) \/ ~RoomForFile(d)
<1> DEFINE row == add_file_row(d, p)
           f   == set_file_id(d, p)
<1>1. CASE row = Return(d, KW_ERROR) /\ get_file_id(d, BaseName[p]) # KW_FAIL
  <2>1. row.db = d
    BY <1>1 DEF Return
  <2> QED BY <1>1, <2>1, KnownFound
<1>2. CASE row = Return(d, KW_FAIL) /\ get_file_id(d, BaseName[p]) = KW_FAIL
  <2>1. f = IdAfter({g \in FileIds : d.files[g] # NoRow}, 0)
    BY <1>2 DEF set_file_id
  <2>2. f \in Nat
    <3>1. FileIds \subseteq 0..MaxFno /\ MaxFno \in Nat /\ 0 \in Nat
      BY BoundAssumption DEF FileIds
    <3>2. IdAfter({g \in FileIds : d.files[g] # NoRow}, 0) \in Nat
      BY <3>1, IdAfterIsNew
    <3> QED BY <2>1, <3>2
  <2>3. ~Insertable(d.files, f)
    <3>1. SUFFICES ASSUME Insertable(d.files, f) PROVE FALSE
      OBVIOUS
    <3>2. f # KW_FAIL
      BY <2>2 DEF KW_FAIL
    <3>3. row = Return([d EXCEPT !.files[f] = p], KW_SUCCESS)
      BY <3>1, <3>2 DEF add_file_row
    <3>4. Return([d EXCEPT !.files[f] = p], KW_SUCCESS).code = KW_SUCCESS
      BY DEF Return
    <3> HIDE DEF row
    <3> QED BY <1>2, <3>3, <3>4 DEF Return, KW_SUCCESS, KW_FAIL
  <2> QED BY <2>1, <2>3 DEF RoomForFile
<1>3. ASSUME NEW g \in FileIds, row = Return([d EXCEPT !.files[g] = p], KW_SUCCESS)
      PROVE  Known(row.db, BaseName[p])
  <2>1. row.db.files[g] = p
    BY <1>3 DEF Return, Sound, Databases, FileTable
  <2> QED BY <2>1, NoRowAssumption DEF Known
<1> HIDE DEF row
<1> QED BY <1>1, <1>2, <1>3, AddFileRowEffect DEF row

LEMMA AddFileKnows ==
  ASSUME NEW d, Sound(d), NEW p \in AbsPaths
  PROVE  Known(add_file(d, p).db, BaseName[p]) \/ ~RoomForFile(d)
<1> DEFINE row == add_file_row(d, p)
           e   == add_metadata_file(row.db, Metadata[p], BaseName[p])
<1>1. add_file(d, p) = IF row.code # KW_SUCCESS THEN row ELSE Return(e, KW_SUCCESS)
  BY DEF add_file
<1>2. Known(row.db, BaseName[p]) \/ ~RoomForFile(d)
  BY AddFileRowKnows
<1>3. Sound(row.db)
  BY AddFileRowSound
<1> HIDE DEF row
<1>4. Adds(row.db, e, {})
  BY <1>3, MetadataFileAdds
<1>5. Known(row.db, BaseName[p]) => Known(e, BaseName[p])
  BY <1>4, KnownStays
<1> QED BY <1>1, <1>2, <1>5 DEF Return

(* Adding a file that is known, or without an id left, changes nothing.    *)
LEMMA AddFileRowIdle ==
  ASSUME NEW d, Sound(d), NEW p \in AbsPaths, Known(d, BaseName[p]) \/ ~RoomForFile(d)
  PROVE  add_file_row(d, p).code # KW_SUCCESS /\ add_file_row(d, p).db = d
<1> DEFINE f == set_file_id(d, p)
<1>1. CASE get_file_id(d, BaseName[p]) # KW_FAIL
  BY <1>1 DEF add_file_row, set_file_id, Return, KW_ERROR, KW_SUCCESS
<1>2. CASE get_file_id(d, BaseName[p]) = KW_FAIL
  <2>1. ~RoomForFile(d)
    BY <1>2, KnownFound
  <2>2. f = IdAfter({g \in FileIds : d.files[g] # NoRow}, 0)
    BY <1>2 DEF set_file_id
  <2>3. f \in Nat
    <3>1. FileIds \subseteq 0..MaxFno /\ MaxFno \in Nat /\ 0 \in Nat
      BY BoundAssumption DEF FileIds
    <3>2. IdAfter({g \in FileIds : d.files[g] # NoRow}, 0) \in Nat
      BY <3>1, IdAfterIsNew
    <3> QED BY <2>2, <3>2
  <2>4. f # KW_FAIL /\ ~Insertable(d.files, f)
    BY <2>1, <2>2, <2>3 DEF RoomForFile, KW_FAIL
  <2> QED BY <2>4 DEF add_file_row, Return, KW_FAIL, KW_SUCCESS
<1> QED BY <1>1, <1>2

LEMMA AddFileIdle ==
  ASSUME NEW d, Sound(d), NEW p \in AbsPaths, Known(d, BaseName[p]) \/ ~RoomForFile(d)
  PROVE  add_file(d, p).code # KW_SUCCESS /\ add_file(d, p).db = d
BY AddFileRowIdle DEF add_file

-----------------------------------------------------------------------------
(* The directories above an entry.                                         *)

LEMMA AboveIsDir == \A x \in Entries : Above[x] \in Dirs
BY TreeAssumption DEF Entries

(* The directories above an entry are closed upwards, and they are the     *)
(* least such set.                                                         *)
LEMMA UpHolds ==
  ASSUME NEW x \in Entries
  PROVE  Above[x] \in Up(x) /\ Up(x) \subseteq Dirs /\ Closed(Up(x))
<1>1. Above[x] \in Up(x) /\ Up(x) \subseteq Dirs
  BY AboveIsDir DEF Up
<1>2. ASSUME NEW y \in Up(x) \ {Music} PROVE Above[y] \in Up(x)
  <2>1. y \in Dirs /\ Above[y] \in Dirs
    BY <1>1, <1>2, AboveIsDir DEF Entries
  <2>2. ASSUME NEW S \in SUBSET Dirs, Above[x] \in S, Closed(S) PROVE Above[y] \in S
    <3>1. y \in S
      BY <1>2, <2>2 DEF Up
    <3> QED BY <1>2, <2>2, <3>1 DEF Closed
  <2> QED BY <2>1, <2>2 DEF Up
<1> QED BY <1>1, <1>2 DEF Closed

LEMMA UpIsLeast ==
  ASSUME NEW x \in Entries, NEW S \in SUBSET Dirs, Above[x] \in S, Closed(S)
  PROVE  Up(x) \subseteq S
BY DEF Up

(* A directory above an entry is entered by one of its own entries.        *)
LEMMA UpUnfolds ==
  ASSUME NEW x \in Entries, NEW dir \in Up(x)
  PROVE  \E e \in Entries : Above[e] = dir /\ (e = x \/ e \in Up(x))
<1> SUFFICES ASSUME \A e \in Entries : e = x \/ e \in Up(x) => Above[e] # dir
             PROVE  FALSE
  OBVIOUS
<1> DEFINE S == Up(x) \ {dir}
<1>1. Above[x] \in Up(x) /\ Up(x) \subseteq Dirs /\ Closed(Up(x))
  BY UpHolds
<1>2. S \in SUBSET Dirs /\ Above[x] \in S
  BY <1>1
<1>3. ASSUME NEW y \in S \ {Music} PROVE Above[y] \in S
  <2>1. y \in Entries /\ y \in Up(x)
    BY <1>1, <1>3 DEF Entries
  <2>2. Above[y] \in Up(x)
    BY <1>1, <1>3, <2>1 DEF Closed
  <2> QED BY <2>1, <2>2
<1>4. Closed(S)
  <2> HIDE DEF S
  <2> QED BY <1>3 DEF Closed
<1>5. dir \in S
  <2> HIDE DEF S
  <2> QED BY <1>2, <1>4, UpIsLeast
<1> QED BY <1>5

(* Every entry is below Music: a path has no cycle.                        *)
LEMMA MusicIsAbove == \A x \in Entries : Music \in Up(x)
<1> SUFFICES ASSUME NEW x \in Entries, Music \notin Up(x) PROVE FALSE
  OBVIOUS
<1>1. Above[x] \in Up(x) /\ Up(x) \subseteq Dirs /\ Closed(Up(x))
  BY UpHolds
<1>2. Up(x) \in SUBSET (Dirs \ {Music}) /\ Up(x) # {}
  BY <1>1
<1>3. PICK dir \in Up(x) : Above[dir] \notin Up(x)
  BY <1>2, TreeAssumption
<1> QED BY <1>1, <1>2, <1>3 DEF Closed

(* An entry to which the way is clear.                                     *)
Clear(x) == CanStat(x) /\ Up(x) \cap Skipped \subseteq {Music} /\ x \notin Skipped

(* A way that is clear stays so while nothing happens to the disk and the  *)
(* directories.                                                            *)
LEMMA ClearStays ==
  ASSUME UNCHANGED <<disk, locked>>, NEW x
  PROVE  Clear(x)' <=> Clear(x)
BY DEF Clear, CanStat

(* A file that the consistency check reaches has a clear way.              *)
LEMMA ReachedIsClear ==
  ASSUME NEW p \in AbsPaths, Reached(p)
  PROVE  Clear(p)
<1>1. PICK path \in SUBSET (Dirs \ locked) :
        /\ Music \in path /\ path \cap Skipped \subseteq {Music}
        /\ \A dir \in path \ {Music} : Above[dir] \in path
        /\ Above[p] \in path /\ p \notin Skipped /\ disk[p] # Absent
  BY DEF Reached
<1>2. p \in Entries /\ path \in SUBSET Dirs /\ Closed(path)
  BY <1>1 DEF Entries, Closed
<1>3. Up(p) \subseteq path
  BY <1>1, <1>2, UpIsLeast
<1> QED BY <1>1, <1>3 DEF Clear, CanStat

(* What readdir lists in a directory that main came to has a clear way.    *)
LEMMA ListedIsClear ==
  ASSUME NEW dir \in Dirs, dir \notin locked, dir = Music \/ Clear(dir), NEW e \in Listed(dir)
  PROVE  e \in Entries /\ Above[e] = dir /\ Clear(e)
<1>1. /\ e \in Entries /\ Above[e] = dir /\ e \notin Skipped
      /\ e \in AbsPaths => disk[e] # Absent
  BY DEF Listed, Entries
<1>2. CASE dir = Music
  <2>1. Closed({Music}) /\ {Music} \in SUBSET Dirs
    BY TreeAssumption DEF Closed
  <2>2. Up(e) \subseteq {Music}
    BY <1>1, <1>2, <2>1, UpIsLeast
  <2> QED BY <1>1, <1>2, <2>2 DEF Clear, CanStat
<1>3. CASE dir # Music
  <2>1. dir \in Entries
    BY <1>3 DEF Entries
  <2>2. Above[dir] \in Up(dir) /\ Up(dir) \subseteq Dirs /\ Closed(Up(dir))
    BY <2>1, UpHolds
  <2>3. PICK S : S = Up(dir) \cup {dir}
    OBVIOUS
  <2>4. Closed(S)
    BY <2>2, <2>3 DEF Closed
  <2>5. Up(e) \subseteq S
    BY <1>1, <2>2, <2>3, <2>4, UpIsLeast
  <2>6. Clear(dir)
    BY <1>3
  <2>7. Up(e) \cap locked = {} /\ Up(e) \cap Skipped \subseteq {Music}
    BY <2>3, <2>5, <2>6 DEF Clear, CanStat
  <2> QED BY <1>1, <2>7 DEF Clear, CanStat
<1> QED BY <1>2, <1>3

(* The entry of a directory by which the way to x leads.                   *)
Leads(e, x) == e = x \/ e \in Up(x)

(* In every directory above an entry with a clear way, an entry that leads *)
(* to it is listed.                                                        *)
LEMMA WayIsListed ==
  ASSUME NEW x \in Entries, Clear(x), NEW dir \in Up(x)
  PROVE  dir \notin locked /\ \E e \in Listed(dir) : Leads(e, x)
<1>1. PICK e \in Entries : Above[e] = dir /\ (e = x \/ e \in Up(x))
  BY UpUnfolds
<1>2. Up(x) \subseteq Dirs
  BY UpHolds
<1>3. e \notin Skipped
  <2>1. e # Music
    BY <1>1, TreeAssumption DEF Entries
  <2> QED BY <1>1, <2>1 DEF Clear, CanStat
<1>4. e \in AbsPaths => disk[e] # Absent
  <2>1. e \in AbsPaths => e = x
    BY <1>1, <1>2, TreeAssumption
  <2> QED BY <2>1 DEF Clear, CanStat
<1>5. e \in Listed(dir)
  BY <1>1, <1>3, <1>4 DEF Listed, Entries
<1>6. dir \notin locked
  BY DEF Clear, CanStat
<1> QED BY <1>1, <1>5, <1>6 DEF Leads

-----------------------------------------------------------------------------
(* The calls of import_semantics.                                          *)

(* Taking an entry leaves the directories of the walk and the other        *)
(* entries.                                                                *)
LEMMA WithoutEntryRows ==
  ASSUME MainOK, stage = "walk", NEW e
  PROVE  /\ Len(WithoutEntry(e)) = Len(walk) /\ WithoutEntry(e) \in Seq(Frames)
         /\ \A i \in 1..Len(walk) :
              /\ WithoutEntry(e)[i].dir = walk[i].dir
              /\ WithoutEntry(e)[i].rest = IF i = Len(walk) THEN walk[i].rest \ {e} ELSE walk[i].rest
<1>1. walk \in Seq(Frames) /\ Len(walk) \in 1..Len(walk) /\ Top \in Frames
  BY TopIsFrame DEF MainOK
<1>2. PICK top : top = [Top EXCEPT !.rest = Top.rest \ {e}]
  OBVIOUS
<1>3. top.dir = Top.dir /\ top.rest = Top.rest \ {e}
  BY <1>1, <1>2 DEF Frames
<1>4. WithoutEntry(e) = [walk EXCEPT ![Len(walk)] = top]
  BY <1>1, <1>2, TopIsFrame DEF WithoutEntry, Top
<1>5. DOMAIN walk = 1..Len(walk)
  BY <1>1, LenProperties
<1>6. \A i \in 1..Len(walk) : WithoutEntry(e)[i] = IF i = Len(walk) THEN top ELSE walk[i]
  BY <1>4, <1>5
<1>7. Len(WithoutEntry(e)) = Len(walk) /\ WithoutEntry(e) \in Seq(Frames)
  BY WithoutEntryIsWalk
<1> QED BY <1>3, <1>6, <1>7 DEF Top

(* A walk without its last directory.                                      *)
LEMMA ShorterWalk ==
  ASSUME walk \in Seq(Frames), Len(walk) >= 1,
         NEW n, n = Len(walk) - 1, NEW w, w = SubSeq(walk, 1, Len(walk) - 1)
  PROVE  Len(w) = n /\ \A i \in 1..n : w[i] = walk[i]
<1>2. n \in Nat
  BY LenProperties
<1>3. 1 \in Int /\ n \in Int /\ \A i \in 1..n : walk[i] \in Frames
  <2>1. \A i \in 1..n : i \in 1..Len(walk)
    BY <1>2, LenProperties
  <2> QED BY <1>2, <2>1, ElementOfSeq
<1>4. /\ Len(SubSeq(walk, 1, n)) = IF 1 <= n THEN n - 1 + 1 ELSE 0
      /\ \A i \in 1..(n - 1 + 1) : SubSeq(walk, 1, n)[i] = walk[1 + i - 1]
  BY <1>3, SubSeqProperties
<1>5. n - 1 + 1 = n /\ (~(1 <= n) => n = 0) /\ \A i \in 1..n : 1 + i - 1 = i
  BY <1>2
<1>6. Len(SubSeq(walk, 1, n)) = n /\ \A i \in 1..n : SubSeq(walk, 1, n)[i] = walk[i]
  BY <1>4, <1>5
<1>7. w = SubSeq(walk, 1, n)
  BY ZenonT(30)
<1> QED BY <1>6, <1>7

(* The ways a step may leave main in the walk.                             *)
WalkOn == UNCHANGED <<disk, locked, steady, quiet, before>>

(* How main may come to, and go on with, the walk.                         *)
LEMMA WalkSteps ==
  ASSUME StartInv, [ProgramNext]_programVars, stage' \in {"walk", "rules"}
  PROVE  \/ Import /\ stage = "import" /\ Music \notin locked /\ WalkOn
         \/ (WalkFile \/ WalkDirectory \/ WalkReturn) /\ stage = "walk" /\ WalkOn
         \/ ~steady' /\ quiet' = 0 /\ UNCHANGED <<stage, db, walk, before>>
         \/ WalkOn /\ UNCHANGED <<stage, db, walk>>
<1>1. ASSUME Import PROVE stage = "import" /\ Music \notin locked /\ WalkOn
  BY <1>1 DEF Import, ImportTurn, To, daemon, found, WalkOn
<1>2. ASSUME WalkFile \/ WalkDirectory \/ WalkReturn PROVE stage = "walk" /\ WalkOn
  BY <1>2 DEF WalkFile, FileTurn, WalkDirectory, DirectoryTurn, WalkReturn, ReturnTurn,
              daemon, found, WalkOn
<1>3. ASSUME Begin \/ Create \/ LoadPlugins \/ CheckFile \/ CheckDone \/ Serve PROVE FALSE
  BY <1>3 DEF Begin, Create, LoadPlugins, CheckFile, CheckTurn, CheckDone, CheckedTurn, Serve, To
<1>4. ASSUME Call \/ Exit \/ Crash PROVE FALSE
  BY <1>4 DEF Call, Exit, Crash, Stopped
<1>5. ASSUME NEW p \in AbsPaths, Remove(p) \/ Store(p)
      PROVE  ~steady' /\ quiet' = 0 /\ UNCHANGED <<stage, db, walk, before>>
  BY <1>5 DEF Remove, Vanish, Store, Event
<1>6. ASSUME NEW e \in Lockable, ChangeMode(e)
      PROVE  ~steady' /\ quiet' = 0 /\ UNCHANGED <<stage, db, walk, before>>
  BY <1>6 DEF ChangeMode, Event, vars
<1>7. ASSUME UNCHANGED programVars PROVE WalkOn /\ UNCHANGED <<stage, db, walk>>
  BY <1>7 DEF programVars, main, vars, WalkOn
<1> QED BY <1>1, <1>2, <1>3, <1>4, <1>5, <1>6, <1>7 DEF ProgramNext, Main

(* A frame of the walk belongs to a directory of the one below it, whose   *)
(* tag has been made, and what is left in it are entries of its own.       *)
FramePlaced(i) ==
  IF i = 1 THEN walk[i].dir = Music
  ELSE walk[i].dir # Music /\ Above[walk[i].dir] = walk[i - 1].dir
FrameOwns(i)  == \A e \in walk[i].rest : e \in Entries /\ Above[e] = walk[i].dir
FrameClear(i) == /\ walk[i].dir = Music \/ Clear(walk[i].dir)
                 /\ \A e \in walk[i].rest : Clear(e)
FrameFits(i) ==
  /\ FramePlaced(i) /\ FrameOwns(i)
  /\ Made(db, DirName[walk[i].dir], USER_TAG)
  /\ steady => FrameClear(i)

(* The walk is a chain of directories from Music down, each with a clear   *)
(* way, a tag and only entries of its own that it has still to do.         *)
FramesInv == \A i \in 1..Len(walk) : FrameFits(i)

(* A directory on the walk stays as it should be while rows are added and  *)
(* entries taken.                                                          *)
LEMMA FrameStays ==
  ASSUME NEW P, Adds(db, db', P), UNCHANGED <<disk, locked, steady>>,
         NEW i \in Nat, i >= 1, FrameFits(i), walk[i].dir \in Dirs, walk'[i].dir = walk[i].dir,
         i > 1 => walk'[i - 1].dir = walk[i - 1].dir,
         walk'[i].rest \subseteq walk[i].rest
  PROVE  FrameFits(i)'
<1>1. \A x : Clear(x)' <=> Clear(x)
  BY ClearStays
<1>2. Made(db', DirName[walk'[i].dir], USER_TAG)
  BY DirNamesAreNames, MadeStays DEF FrameFits
<1>3. FramePlaced(i)'
  BY DEF FrameFits, FramePlaced
<1>4. FrameOwns(i)'
  BY DEF FrameFits, FrameOwns
<1>5. FrameClear(i) => FrameClear(i)'
  BY <1>1 DEF FrameClear
<1> QED BY <1>2, <1>3, <1>4, <1>5 DEF FrameFits

(* What is left to read in a directory that has just been opened.          *)
LEMMA OpenedFits ==
  ASSUME NEW dir \in Dirs
  PROVE  \A e \in Frame(dir).rest :
           /\ e \in Entries /\ Above[e] = dir
           /\ dir = Music \/ Clear(dir) => Clear(e)
<1> SUFFICES ASSUME NEW e \in Frame(dir).rest
             PROVE  /\ e \in Entries /\ Above[e] = dir
                    /\ dir = Music \/ Clear(dir) => Clear(e)
  OBVIOUS
<1>1. dir \notin locked /\ e \in Listed(dir)
  BY DEF Frame
<1>2. e \in Entries /\ Above[e] = dir
  BY <1>1 DEF Listed, Entries
<1>3. ASSUME dir = Music \/ Clear(dir) PROVE Clear(e)
  BY <1>1, <1>3, ListedIsClear
<1> QED BY <1>2, <1>3

(* What is taken of a directory can be reached, unless the disk changed.   *)
LEMMA TakenIsSeen ==
  ASSUME MainOK, FramesInv, steady, stage = "walk", NEW e \in Top.rest
  PROVE  e \in Entries /\ Clear(e) /\ CanStat(e)
<1>1. Top = walk[Len(walk)] /\ Len(walk) \in 1..Len(walk)
  BY TopIsFrame DEF Top
<1>2. e \in Entries /\ Clear(e)
  BY <1>1 DEF FramesInv, FrameFits, FrameOwns, FrameClear
<1> QED BY <1>2 DEF Clear

(* A directory that cannot be reached any more is passed over.             *)
LEMMA DirectorySteps ==
  ASSUME WalkDirectory
  PROVE  \E e \in Dirs :
           /\ e \in Top.rest
           /\ IF CanStat(e)
              THEN /\ walk' = Append(WithoutEntry(e), Frame(e))
                   /\ db' = add_tag(db, DirName[e], USER_TAG).db
              ELSE walk' = WithoutEntry(e) /\ db' = db
BY DEF WalkDirectory, DirectoryTurn, entered

(* add_tag that fails changes nothing.                                     *)
LEMMA AddTagRefuses ==
  ASSUME NEW d, NEW n, NEW type, add_tag(d, n, type).code # KW_SUCCESS
  PROVE  add_tag(d, n, type).db = d
<1> DEFINE t == set_tag_id(d, n, type)
<1>1. CASE t = KW_FAIL
  BY <1>1 DEF add_tag, Return
<1>2. CASE t # KW_FAIL /\ ~Insertable(d.tags, t)
  BY <1>2 DEF add_tag, Return
<1>3. CASE t # KW_FAIL /\ Insertable(d.tags, t)
  BY <1>3 DEF add_tag, Return
<1> QED BY <1>1, <1>2, <1>3

(* After import_top the tag Music is there, or the user ids are used up.   *)
LEMMA ImportTopMakes ==
  ASSUME NEW d, Sound(d)
  PROVE  Made(import_top(d), DirName[Music], USER_TAG)
<1> DEFINE made == add_tag(d, DirName[Music], USER_TAG)
<1>1. DirName[Music] \in TagNames /\ TAG_FILES \in TagNames
  BY TreeAssumption, UserAssumption
<1>2. Made(made.db, DirName[Music], USER_TAG)
  BY <1>1, AddTagMakes
<1>3. Sound(made.db)
  BY <1>1, AddTagSound DEF TagTypes
<1>4. CASE made.code = KW_SUCCESS
  <2>1. Adds(made.db, add_association(made.db, DirName[Music], TAG_FILES, ASSOC_SUBGROUP).db, {})
    BY <1>1, <1>3, AddAssociationAdds, SubgroupAssumption
  <2>2. import_top(d) = add_association(made.db, DirName[Music], TAG_FILES, ASSOC_SUBGROUP).db
    BY <1>4 DEF import_top
  <2> HIDE DEF made
  <2> QED BY <1>1, <1>2, <2>1, <2>2, MadeStays
<1>5. CASE made.code # KW_SUCCESS
  <2>1. import_top(d) = d
    BY <1>5 DEF import_top
  <2>2. made.db = d
    BY <1>5, AddTagRefuses
  <2> QED BY <1>2, <2>1, <2>2
<1> QED BY <1>4, <1>5

(* No step of the program breaks FramesInv.                                *)
LEMMA FramesKeep ==
  ASSUME StartInv, StartInv', FramesInv, [ProgramNext]_programVars
  PROVE  FramesInv'
<1>1. Sound(db) /\ MainOK /\ MainOK' /\ steady \in BOOLEAN
  BY DEF StartInv, Inv, TablesSound, MainOK
<1>2. CASE stage' # "walk"
  <2>1. walk' = <<>>
    BY <1>1, <1>2 DEF MainOK
  <2>2. Len(walk') = 0
    BY <2>1, EmptySeq
  <2>3. 1..0 = {}
    OBVIOUS
  <2> QED BY <2>2, <2>3 DEF FramesInv
<1>3. CASE stage' = "walk" /\ Import /\ stage = "import" /\ Music \notin locked /\ WalkOn
  <2>1. walk' = <<Frame(Music)>> /\ db' = import_top(db)
    BY <1>3 DEF Import, ImportTurn
  <2>2. Len(walk') = 1 /\ walk'[1] = Frame(Music)
    BY <2>1
  <2>3. Frame(Music).dir = Music /\ Music \in Dirs
    BY TreeAssumption DEF Frame
  <2>4. \A e \in Frame(Music).rest : e \in Entries /\ Above[e] = Music /\ Clear(e)
    BY <2>3, OpenedFits
  <2>5. Made(db', DirName[Music], USER_TAG)
    BY <1>1, <2>1, ImportTopMakes
  <2>6. \A x : Clear(x)' <=> Clear(x)
    BY <1>3, ClearStays DEF WalkOn
  <2>7. FrameFits(1)'
    <3>1. FramePlaced(1)' /\ FrameOwns(1)' /\ FrameClear(1)'
      BY <2>2, <2>3, <2>4, <2>6 DEF FramePlaced, FrameOwns, FrameClear
    <3> QED BY <2>2, <2>3, <2>5, <3>1 DEF FrameFits
  <2>8. 1..1 = {1}
    OBVIOUS
  <2> QED BY <2>2, <2>7, <2>8 DEF FramesInv
<1>4. CASE stage' = "walk" /\ (WalkFile \/ WalkDirectory \/ WalkReturn) /\ stage = "walk" /\ WalkOn
  <2>1. Adds(db, db', Present) /\ UNCHANGED <<disk, locked, steady>>
    BY <1>4, ImportAdds DEF WalkOn
  <2>2. /\ Len(walk) \in Nat /\ Len(walk) >= 1 /\ Top \in Frames /\ Top.dir \in Dirs
        /\ \A i \in 1..Len(walk) : walk[i] \in Frames /\ walk[i].dir \in Dirs
        /\ Top = walk[Len(walk)]
    BY <1>1, <1>4, TopIsFrame DEF Frames, Top
  <2>3. ASSUME NEW i \in 1..Len(walk), walk'[i].dir = walk[i].dir,
               i > 1 => walk'[i - 1].dir = walk[i - 1].dir, walk'[i].rest \subseteq walk[i].rest
        PROVE  FrameFits(i)'
    <3>1. i \in Nat /\ i >= 1 /\ FrameFits(i) /\ walk[i].dir \in Dirs
      BY <2>2 DEF FramesInv
    <3> QED BY <2>1, <2>3, <3>1, FrameStays
  <2>4. CASE WalkFile
    <3>1. PICK e \in AbsPaths : walk' = WithoutEntry(e)
      BY <2>4 DEF WalkFile, FileTurn
    <3>2. /\ Len(walk') = Len(walk)
          /\ \A i \in 1..Len(walk) : walk'[i].dir = walk[i].dir /\ walk'[i].rest \subseteq walk[i].rest
      BY <1>1, <1>4, <3>1, WithoutEntryRows
    <3>3. \A i \in 1..Len(walk) : i > 1 => i - 1 \in 1..Len(walk)
      BY <2>2
    <3>4. \A i \in 1..Len(walk) : FrameFits(i)'
      BY <2>3, <3>2, <3>3
    <3> QED BY <3>2, <3>4 DEF FramesInv
  <2>7. ASSUME NEW e \in Dirs, walk' = WithoutEntry(e) PROVE FramesInv'
    <3>2. /\ Len(walk') = Len(walk)
          /\ \A i \in 1..Len(walk) : walk'[i].dir = walk[i].dir /\ walk'[i].rest \subseteq walk[i].rest
      BY <1>1, <1>4, <2>7, WithoutEntryRows
    <3>3. \A i \in 1..Len(walk) : i > 1 => i - 1 \in 1..Len(walk)
      BY <2>2
    <3>4. \A i \in 1..Len(walk) : FrameFits(i)'
      BY <2>3, <3>2, <3>3
    <3> QED BY <3>2, <3>4 DEF FramesInv
  <2>8. ASSUME NEW e \in Dirs, e \in Top.rest, walk' = Append(WithoutEntry(e), Frame(e)),
               db' = add_tag(db, DirName[e], USER_TAG).db
        PROVE  FramesInv'
    <3>1. /\ e \in Top.rest /\ walk' = Append(WithoutEntry(e), Frame(e))
          /\ db' = add_tag(db, DirName[e], USER_TAG).db
      BY <2>8
    <3>0. PICK n : n = Len(walk)
      OBVIOUS
    <3> DEFINE w == WithoutEntry(e)
    <3>2. /\ Len(w) = n /\ w \in Seq(Frames)
          /\ \A i \in 1..n : w[i].dir = walk[i].dir /\ w[i].rest \subseteq walk[i].rest
      BY <1>1, <1>4, <3>0, WithoutEntryRows
    <3>3. Frame(e) \in Frames /\ Frame(e).dir = e
      BY FrameIsFrame DEF Frame
    <3> HIDE DEF w
    <3>4. /\ Len(walk') = n + 1 /\ walk'[n + 1] = Frame(e)
          /\ \A i \in 1..n : walk'[i] = w[i]
      BY <3>1, <3>2, <3>3, AppendProperties DEF w
    <3>5. n \in Nat /\ n >= 1 /\ n \in 1..n /\ \A i \in 1..n : i > 1 => i - 1 \in 1..n
      BY <2>2, <3>0
    <3>6. \A i \in 1..n : FrameFits(i)'
      BY <2>3, <3>0, <3>2, <3>4, <3>5
    <3>7. e \in Entries /\ Above[e] = Top.dir /\ (steady => Clear(e))
      <4>1. FrameFits(n) /\ walk[n] = Top
        BY <2>2, <3>0, <3>5 DEF FramesInv
      <4> QED BY <3>1, <4>1 DEF FrameFits, FrameOwns, FrameClear
    <3>8. e # Music
      BY <3>7, TreeAssumption DEF Entries
    <3>9. Made(db', DirName[e], USER_TAG)
      BY <1>1, <3>1, DirNamesAreNames, AddTagMakes
    <3>10. \A x : Clear(x)' <=> Clear(x)
      BY <2>1, ClearStays
    <3>11. walk'[n + 1].dir = e /\ walk'[n].dir = Top.dir /\ n + 1 # 1 /\ (n + 1) - 1 = n
      BY <2>2, <3>0, <3>2, <3>3, <3>4, <3>5
    <3>12. FrameFits(n + 1)'
      <4>1. FramePlaced(n + 1)'
        BY <3>7, <3>8, <3>11 DEF FramePlaced
      <4>2. FrameOwns(n + 1)'
        BY <3>4, <3>11, OpenedFits DEF FrameOwns
      <4>3. Clear(e) => FrameClear(n + 1)'
        BY <3>4, <3>10, <3>11, OpenedFits DEF FrameClear
      <4>4. steady' = steady
        BY <2>1
      <4> QED BY <3>7, <3>9, <3>11, <4>1, <4>2, <4>3, <4>4 DEF FrameFits
    <3>13. \A i \in 1..(n + 1) : i \in 1..n \/ i = n + 1
      BY <3>5
    <3> QED BY <3>4, <3>6, <3>12, <3>13 DEF FramesInv
  <2>5. CASE WalkDirectory
    BY <2>5, <2>7, <2>8, DirectorySteps
  <2>6. CASE WalkReturn
    <3>1. walk' = SubSeq(walk, 1, Len(walk) - 1)
      BY <2>6 DEF WalkReturn, ReturnTurn
    <3>2. PICK n : n = Len(walk) - 1
      OBVIOUS
    <3>12. walk \in Seq(Frames)
      BY <1>1 DEF MainOK
    <3>3. Len(walk') = n /\ \A i \in 1..n : walk'[i] = walk[i]
      BY <2>2, <3>1, <3>2, <3>12, ShorterWalk
    <3>4. \A i \in 1..n : i \in 1..Len(walk) /\ (i > 1 => i - 1 \in 1..n)
      BY <2>2, <3>2
    <3>5. \A i \in 1..n : FrameFits(i)'
      BY <2>3, <3>3, <3>4
    <3> QED BY <3>3, <3>5 DEF FramesInv
  <2> QED BY <1>4, <2>4, <2>5, <2>6
<1>5. CASE stage = "walk" /\ ~steady' /\ UNCHANGED <<db, walk>>
  <2>1. ASSUME NEW i, FrameFits(i) PROVE FrameFits(i)'
    <3>1. FramePlaced(i)' /\ FrameOwns(i)'
      BY <1>5, <2>1 DEF FrameFits, FramePlaced, FrameOwns
    <3> QED BY <1>5, <2>1, <3>1 DEF FrameFits
  <2> QED BY <1>5, <2>1 DEF FramesInv
<1>6. CASE stage = "walk" /\ WalkOn /\ UNCHANGED <<db, walk>>
  <2>1. \A x : Clear(x)' <=> Clear(x)
    BY <1>6, ClearStays DEF WalkOn
  <2>2. ASSUME NEW i, FrameFits(i) PROVE FrameFits(i)'
    <3>1. FramePlaced(i)' /\ FrameOwns(i)'
      BY <1>6, <2>2 DEF FrameFits, FramePlaced, FrameOwns
    <3>2. FrameClear(i) => FrameClear(i)'
      BY <1>6, <2>1 DEF FrameClear
    <3> QED BY <1>6, <2>2, <3>1, <3>2 DEF FrameFits, WalkOn
  <2> QED BY <1>6, <2>2 DEF FramesInv
<1> QED BY <1>2, <1>3, <1>4, <1>5, <1>6, WalkSteps

-----------------------------------------------------------------------------
(* What the walk covers.                                                   *)

(* An entry that main still comes to, or is done with.                     *)
Pending(x) == \E i \in 1..Len(walk) : \E e \in walk[i].rest : Leads(e, x)
Handled(d, x) == IF x \in AbsPaths THEN Known(d, BaseName[x]) \/ ~RoomForFile(d)
                 ELSE Made(d, DirName[x], USER_TAG)

(* On a disk that did not change, nothing with a clear way is lost between *)
(* what main has done and what is listed on the walk.                      *)
CoverInv ==
  steady /\ stage \in {"walk", "rules"} =>
    /\ Made(db, DirName[Music], USER_TAG)
    /\ \A x \in Entries : Clear(x) => Pending(x) \/ Handled(db, x)

(* What main is done with stays so.                                        *)
LEMMA HandledStays ==
  ASSUME NEW d, NEW e, NEW P, Adds(d, e, P), NEW x \in Entries, Handled(d, x)
  PROVE  Handled(e, x)
<1>1. CASE x \in AbsPaths
  BY <1>1, KnownStays, FileRoomGone DEF Handled
<1>2. CASE x \notin AbsPaths
  <2>1. x \in Dirs /\ DirName[x] \in TagNames
    BY <1>2, DirNamesAreNames DEF Entries
  <2> QED BY <1>2, <2>1, MadeStays DEF Handled
<1> QED BY <1>1, <1>2

(* A row that is refused changes nothing.                                  *)
LEMMA AddFileRowRefuses ==
  ASSUME NEW d, NEW p, add_file_row(d, p).code # KW_SUCCESS
  PROVE  add_file_row(d, p).db = d
<1> DEFINE f == set_file_id(d, p)
<1>1. CASE f = KW_FAIL
  BY <1>1 DEF add_file_row, Return
<1>2. CASE f # KW_FAIL /\ ~Insertable(d.files, f)
  BY <1>2 DEF add_file_row, Return
<1>3. CASE f # KW_FAIL /\ Insertable(d.files, f)
  BY <1>3 DEF add_file_row, Return
<1> QED BY <1>1, <1>2, <1>3

(* import_file leaves a file of the base name, or the ids are used up.     *)
LEMMA ImportFileKnows ==
  ASSUME NEW d, Sound(d), NEW p \in AbsPaths, NEW dir \in Dirs
  PROVE  Handled(import_file(d, p, dir), p)
<1> DEFINE added == IF p \in locked THEN add_file_row(d, p) ELSE add_file(d, p)
           e     == tag_file(added.db, DirName[dir], BaseName[p]).db
<1>1. Adds(d, added.db, {p})
  BY AddFileAdds, AddFileRowAdds
<1>2. Known(added.db, BaseName[p]) \/ ~RoomForFile(d)
  BY AddFileKnows, AddFileRowKnows
<1>3. Known(added.db, BaseName[p]) \/ ~RoomForFile(added.db)
  BY <1>1, <1>2, FileRoomGone
<1>4. Handled(added.db, p)
  BY <1>3 DEF Handled
<1>5. CASE added.code = KW_SUCCESS
  <2>1. DirName[dir] \in TagNames /\ BaseName[p] \in FileNames
    BY DirNamesAreNames DEF FileNames
  <2>2. Sound(added.db)
    BY <1>1, AddsSound
  <2>3. import_file(d, p, dir) = e
    BY <1>5 DEF import_file
  <2> HIDE DEF added
  <2>4. Adds(added.db, e, {})
    BY <2>1, <2>2, TagFileAdds
  <2> QED BY <1>4, <2>3, <2>4, HandledStays DEF Entries
<1>6. CASE added.code # KW_SUCCESS
  <2>1. import_file(d, p, dir) = d /\ added.db = d
    <3>1. import_file(d, p, dir) = d
      BY <1>6 DEF import_file
    <3>2. added = add_file_row(d, p) /\ add_file_row(d, p).code # KW_SUCCESS
      <4>1. CASE p \in locked
        BY <1>6, <4>1
      <4>2. CASE p \notin locked
        BY <1>6, <4>2 DEF add_file, Return
      <4> QED BY <4>1, <4>2
    <3>3. add_file_row(d, p).db = d
      BY <3>2, AddFileRowRefuses
    <3> QED BY <3>1, <3>2, <3>3
  <2> QED BY <1>4, <2>1
<1> QED BY <1>5, <1>6

(* No step of the program breaks CoverInv.                                 *)
LEMMA CoverKeeps ==
  ASSUME StartInv, StartInv', FramesInv, CoverInv, [ProgramNext]_programVars
  PROVE  CoverInv'
<1> SUFFICES ASSUME steady', stage' \in {"walk", "rules"}
             PROVE  /\ Made(db', DirName[Music], USER_TAG)
                    /\ \A x \in Entries : Clear(x)' => Pending(x)' \/ Handled(db', x)
  BY DEF CoverInv
<1>1. Sound(db) /\ MainOK /\ MainOK' /\ DirName[Music] \in TagNames
  BY TreeAssumption DEF StartInv, Inv, TablesSound
<1>2. CASE Import /\ stage = "import" /\ Music \notin locked /\ WalkOn
  <2>1. walk' = <<Frame(Music)>> /\ db' = import_top(db)
    BY <1>2 DEF Import, ImportTurn
  <2>2. 1 \in 1..Len(walk') /\ walk'[1].rest = Listed(Music)
    BY <1>2, <2>1 DEF Frame
  <2>3. ASSUME NEW x \in Entries, Clear(x)' PROVE Pending(x)'
    <3>1. Clear(x) /\ Music \in Up(x)
      BY <1>2, <2>3, ClearStays, MusicIsAbove DEF WalkOn
    <3> QED BY <2>2, <3>1, WayIsListed DEF Pending
  <2> QED BY <1>1, <2>1, <2>3, ImportTopMakes
<1>3. CASE (WalkFile \/ WalkDirectory \/ WalkReturn) /\ stage = "walk" /\ WalkOn
  <2>1. Adds(db, db', Present) /\ UNCHANGED <<disk, locked, steady>>
    BY <1>3, ImportAdds DEF WalkOn
  <2>2. /\ Len(walk) \in Nat /\ Len(walk) >= 1 /\ Top \in Frames /\ Top.dir \in Dirs
        /\ \A i \in 1..Len(walk) : walk[i] \in Frames
        /\ Top = walk[Len(walk)]
    BY <1>1, <1>3, TopIsFrame DEF Top
  <2>3. /\ Made(db, DirName[Music], USER_TAG)
        /\ \A x \in Entries : Clear(x) => Pending(x) \/ Handled(db, x)
    BY <1>3, <2>1 DEF CoverInv
  <2>4. Made(db', DirName[Music], USER_TAG)
    BY <1>1, <2>1, <2>3, MadeStays
  <2> SUFFICES ASSUME NEW x \in Entries, Clear(x), Pending(x)
               PROVE  Pending(x)' \/ Handled(db', x)
    BY <2>1, <2>3, <2>4, ClearStays, HandledStays
  <2>5. PICK i \in 1..Len(walk) : \E e \in walk[i].rest : Leads(e, x)
    BY DEF Pending
  <2>6. PICK y \in walk[i].rest : Leads(y, x)
    BY <2>5
  <2>7. CASE WalkFile
    <3>1. PICK e \in AbsPaths :
            /\ walk' = WithoutEntry(e)
            /\ db' = IF CanStat(e) THEN import_file(db, e, Top.dir) ELSE db
      BY <2>7 DEF WalkFile, FileTurn
    <3>2. /\ Len(walk') = Len(walk)
          /\ \A j \in 1..Len(walk) : walk[j].rest \ {e} \subseteq walk'[j].rest
      BY <1>1, <1>3, <3>1, WithoutEntryRows
    <3>3. CASE y # e
      BY <2>6, <3>2, <3>3 DEF Pending
    <3>4. CASE y = e
      <4>1. Up(x) \subseteq Dirs /\ Dirs \cap AbsPaths = {}
        BY UpHolds, TreeAssumption
      <4>2. e = x
        BY <2>6, <3>4, <4>1 DEF Leads
      <4>3. CanStat(e)
        BY <4>2 DEF Clear
      <4> QED BY <1>1, <2>2, <3>1, <4>2, <4>3, ImportFileKnows
    <3> QED BY <3>3, <3>4
  <2>8. CASE WalkDirectory
    <3>1. PICK e \in Dirs : /\ e \in Top.rest /\ walk' = Append(WithoutEntry(e), Frame(e))
                            /\ db' = add_tag(db, DirName[e], USER_TAG).db
      BY <1>1, <1>3, <2>1, <2>8, DirectorySteps, TakenIsSeen
    <3>2. PICK n : n = Len(walk)
      OBVIOUS
    <3> DEFINE w == WithoutEntry(e)
    <3>3. /\ Len(w) = n /\ w \in Seq(Frames)
          /\ \A j \in 1..n : walk[j].rest \ {e} \subseteq w[j].rest
      BY <1>1, <1>3, <3>2, WithoutEntryRows
    <3>4. Frame(e) \in Frames
      BY FrameIsFrame
    <3> HIDE DEF w
    <3>5. /\ Len(walk') = n + 1 /\ walk'[n + 1] = Frame(e)
          /\ \A j \in 1..n : walk'[j] = w[j]
      BY <3>1, <3>3, <3>4, AppendProperties DEF w
    <3>6. n \in Nat /\ n + 1 \in 1..(n + 1) /\ \A j \in 1..n : j \in 1..(n + 1)
      BY <2>2, <3>2
    <3>7. CASE y # e
      BY <2>6, <3>2, <3>3, <3>5, <3>6, <3>7 DEF Pending
    <3>8. CASE y = e /\ e = x
      <4>1. Made(db', DirName[e], USER_TAG) /\ e \notin AbsPaths
        BY <1>1, <3>1, DirNamesAreNames, AddTagMakes, TreeAssumption
      <4> QED BY <3>8, <4>1 DEF Handled
    <3>9. CASE y = e /\ e \in Up(x)
      <4>1. e \notin locked /\ \E z \in Listed(e) : Leads(z, x)
        BY <3>9, WayIsListed
      <4>2. Frame(e).rest = Listed(e)
        BY <4>1 DEF Frame
      <4> QED BY <3>5, <3>6, <4>1, <4>2 DEF Pending
    <3> QED BY <2>6, <3>7, <3>8, <3>9 DEF Leads
  <2>9. CASE WalkReturn
    <3>1. walk' = SubSeq(walk, 1, Len(walk) - 1) /\ Top.rest = {}
      BY <2>9 DEF WalkReturn, ReturnTurn
    <3>2. i \in 1..(Len(walk) - 1)
      <4>1. i # Len(walk)
        BY <2>2, <2>6, <3>1
      <4> QED BY <2>2, <4>1
    <3>3. PICK n : n = Len(walk) - 1
      OBVIOUS
    <3>4. walk \in Seq(Frames)
      BY <1>1 DEF MainOK
    <3>5. Len(walk') = n /\ \A k \in 1..n : walk'[k] = walk[k]
      BY <2>2, <3>1, <3>3, <3>4, ShorterWalk
    <3>6. i \in 1..Len(walk') /\ walk'[i] = walk[i]
      BY <3>2, <3>3, <3>5
    <3> QED BY <2>6, <3>6 DEF Pending
  <2> QED BY <1>3, <2>7, <2>8, <2>9
<1>4. CASE ~steady' /\ UNCHANGED <<stage, db, walk>>
  BY <1>4
<1>5. CASE WalkOn /\ UNCHANGED <<stage, db, walk>>
  <2>1. \A x : (Clear(x)' <=> Clear(x)) /\ (Pending(x)' <=> Pending(x))
    BY <1>5, ClearStays DEF WalkOn, Pending
  <2> QED BY <1>5, <2>1 DEF CoverInv, WalkOn
<1> QED BY <1>2, <1>3, <1>4, <1>5, WalkSteps

(* On a disk that does not change, the import comes to every file it can   *)
(* reach, however deep the directories and in whatever order it reads      *)
(* them, and enters it while there are ids.                                *)
THEOREM ImportCoversFiles == Program => []EveryFileIsKnown
<1>1. ProgramInit => FramesInv /\ CoverInv
  <2> SUFFICES ASSUME ProgramInit PROVE FramesInv /\ CoverInv
    OBVIOUS
  <2>1. Len(walk) = 0 /\ 1..0 = {}
    BY EmptySeq DEF ProgramInit
  <2> QED BY <2>1 DEF FramesInv, CoverInv, ProgramInit
<1>2. StartInv /\ StartInv' /\ FramesInv /\ CoverInv /\ [ProgramNext]_programVars
        => FramesInv' /\ CoverInv'
  BY FramesKeep, CoverKeeps
<1>3. StartInv /\ CoverInv => EveryFileIsKnown
  <2> SUFFICES ASSUME StartInv, CoverInv, stage = "rules", steady, RoomForFile(db),
                      NEW p \in AbsPaths, Reached(p)
               PROVE  get_file_id(db, BaseName[p]) # KW_FAIL
    BY DEF EveryFileIsKnown
  <2>1. Clear(p) /\ p \in Entries
    BY ReachedIsClear DEF Entries
  <2>2. ~Pending(p)
    <3>1. walk = <<>>
      BY DEF StartInv, MainOK
    <3>2. Len(walk) = 0 /\ 1..0 = {}
      BY <3>1, EmptySeq
    <3> QED BY <3>2 DEF Pending
  <2>3. Handled(db, p)
    BY <2>1, <2>2 DEF CoverInv
  <2>4. Sound(db)
    BY DEF StartInv, Inv, TablesSound
  <2> QED BY <2>3, <2>4, KnownFound DEF Handled
<1> QED BY <1>1, <1>2, <1>3, ProgramAlways, PTL DEF Program

-----------------------------------------------------------------------------
(* Where the new files are put.                                            *)

(* How main may come to, and go on with, the check.                        *)
LEMMA CheckSteps ==
  ASSUME [ProgramNext]_programVars, stage' \in {"check", "import"}
  PROVE  \/ LoadPlugins \/ CheckFile \/ CheckDone
         \/ UNCHANGED <<stage, db, before>>
<1>1. ASSUME Import \/ WalkFile \/ WalkDirectory \/ WalkReturn \/ Serve \/ Exit \/ Crash \/ Begin
             \/ Create \/ Call
      PROVE  FALSE
  BY <1>1 DEF Import, ImportTurn, To, WalkFile, FileTurn, WalkDirectory, DirectoryTurn,
              WalkReturn, ReturnTurn, Serve, Exit, Crash, Stopped, Begin, Create, Call
<1>2. ASSUME NEW p \in AbsPaths, Remove(p) \/ Store(p) PROVE UNCHANGED <<stage, db, before>>
  BY <1>2 DEF Remove, Vanish, Store, Event
<1>3. ASSUME NEW e \in Lockable, ChangeMode(e) PROVE UNCHANGED <<stage, db, before>>
  BY <1>3 DEF ChangeMode, Event, vars
<1>4. ASSUME UNCHANGED programVars PROVE UNCHANGED <<stage, db, before>>
  BY <1>4 DEF programVars, main, vars
<1> QED BY <1>1, <1>2, <1>3, <1>4 DEF ProgramNext, Main

(* A file is under the tag of the directory it is in.                      *)
Filed(d, f) == \E t \in TagIds : /\ d.tags[t] = DirName[Above[d.files[f]]]
                                 /\ d.fileAssoc[t][f] > 0

NewIsFiled(d, f) == \/ d.files[f] = NoRow \/ d.files[f] = before.files[f]
                    \/ Filed(d, f) \/ ~RoomForTag(d, USER_TAG)

FiledInv ==
  /\ stage \in {"check", "import"} =>
       \A f \in FileIds : db.files[f] = NoRow \/ db.files[f] = before.files[f]
  /\ stage \in {"walk", "rules"} => \A f \in FileIds : NewIsFiled(db, f)

(* A file stays in its directory while rows are only added.                *)
LEMMA FiledStays ==
  ASSUME NEW d, NEW e, NEW P, Adds(d, e, P), NEW f \in FileIds, e.files[f] = d.files[f], Filed(d, f)
  PROVE  Filed(e, f)
<1>1. PICK t \in TagIds : d.tags[t] = DirName[Above[d.files[f]]] /\ d.fileAssoc[t][f] > 0
  BY DEF Filed
<1>2. d.fileAssoc[t][f] \in Nat /\ e.fileAssoc[t][f] \in Nat /\ d.tags[t] # NoRow
  BY <1>1, AddsSound DEF Sound, Databases, FileAssociationTable, NoDanglingRowsOf
<1>3. e.tags[t] = d.tags[t] /\ d.fileAssoc[t][f] <= e.fileAssoc[t][f]
  BY <1>2 DEF Adds
<1>4. e.fileAssoc[t][f] > 0
  BY <1>1, <1>2, <1>3
<1> QED BY <1>1, <1>3, <1>4 DEF Filed

(* A file that is imported is put in the directory, if its tag is there.   *)
LEMMA ImportFileFiles ==
  ASSUME NEW d, Sound(d), NEW p \in AbsPaths, Made(d, DirName[Above[p]], USER_TAG),
         NEW f \in FileIds, import_file(d, p, Above[p]).files[f] # d.files[f]
  PROVE  \/ Filed(import_file(d, p, Above[p]), f)
         \/ ~RoomForTag(import_file(d, p, Above[p]), USER_TAG)
<1> DEFINE dir   == Above[p]
           added == IF p \in locked THEN add_file_row(d, p) ELSE add_file(d, p)
           a     == added.db
           u     == get_tag_id(a, DirName[dir])
           g     == get_file_id(a, BaseName[p])
           e     == tag_file(a, DirName[dir], BaseName[p]).db
<1>1. /\ dir \in Dirs /\ DirName[dir] \in TagNames /\ BaseName[p] \in FileNames
  BY TreeAssumption, DirNamesAreNames DEF FileNames
<1>2. Adds(d, a, {p})
  BY AddFileAdds, AddFileRowAdds
<1>3. import_file(d, p, dir) = e
  <2>1. import_file(d, p, dir) = IF added.code = KW_SUCCESS THEN e ELSE d
    BY DEF import_file
  <2> QED BY <2>1
<1>4. Sound(a)
  BY <1>2, AddsSound
<1> HIDE DEF dir, added
<1>5. Adds(a, e, {})
  <2> HIDE DEF a
  <2> QED BY <1>1, <1>4, TagFileAdds
<1>6. Made(a, DirName[dir], USER_TAG)
  BY <1>1, <1>2, MadeStays DEF dir
<1>7. CASE ~RoomForTag(a, USER_TAG)
  BY <1>3, <1>5, <1>7, TagRoomGone DEF dir
<1>8. CASE Tagged(a, DirName[dir])
  <2>1. a.files[f] = p /\ a.files[f] # NoRow /\ e.files = a.files
    <3>1. e.files = a.files
      <4> HIDE DEF a
      <4> QED BY <1>4 DEF tag_file, Return, Sound, Databases
    <3>2. a.files[f] # d.files[f]
      BY <1>3, <3>1 DEF dir
    <3>3. a.files[f] \in {p}
      BY <1>2, <3>2, AddsFileRows
    <3> QED BY <3>1, <3>3, NoRowAssumption
  <2>2. u \in TagIds /\ u # KW_FAIL /\ a.tags[u] = DirName[dir]
    <3> HIDE DEF a
    <3>1. get_tag_id(a, DirName[dir]) # KW_FAIL
      BY <1>1, <1>4, <1>8, TaggedFound
    <3> QED BY <1>1, <1>4, <3>1, TagIdFound DEF Sound
  <2>3. g # KW_FAIL /\ g = f
    <3> HIDE DEF a
    <3>1. Known(a, BaseName[p])
      BY <2>1 DEF Known
    <3>2. g # KW_FAIL
      BY <1>4, <3>1, KnownFound
    <3>3. g \in FileIds /\ a.files[g] # NoRow /\ BaseName[a.files[g]] = BaseName[p]
      BY <1>4, <3>2, FileIdFound DEF Sound
    <3> HIDE DEF g
    <3> QED BY <1>4, <2>1, <3>2, <3>3 DEF Sound, UniqueNamesOf
  <2>4. e.fileAssoc[u][f] > 0
    <3> HIDE DEF a
    <3>1. CASE a.fileAssoc[u][g] > 0
      <4>1. e = a
        BY <3>1 DEF tag_file, Return
      <4> QED BY <2>3, <3>1, <4>1
    <3>2. CASE ~(a.fileAssoc[u][g] > 0)
      <4>1. e = [a EXCEPT !.fileAssoc[u][g] = @ + 1]
        BY <2>2, <2>3, <3>2 DEF tag_file, Return
      <4> HIDE DEF e, u, g
      <4>2. a.fileAssoc[u][f] \in Nat
        BY <1>4, <2>2 DEF Sound, Databases, FileAssociationTable
      <4>3. e = [a EXCEPT !.fileAssoc[u][f] = a.fileAssoc[u][f] + 1]
        BY <2>3, <4>1
      <4>4. a.fileAssoc[u][f] + 1 = 1
        BY <2>3, <3>2, <4>2
      <4>5. e = [a EXCEPT !.fileAssoc[u][f] = 1]
        BY <4>3, <4>4
      <4>6. e.fileAssoc[u][f] = 1
        BY <1>4, <2>2, <4>5, SetRow DEF Sound
      <4> QED BY <4>6
    <3> QED BY <3>1, <3>2
  <2>5. e.tags = a.tags
    <3> HIDE DEF a
    <3> QED BY <1>4 DEF tag_file, Return, Sound, Databases
  <2> HIDE DEF a, e, u, g
  <2>6. Filed(e, f)
    BY <2>1, <2>2, <2>4, <2>5 DEF Filed, dir
  <2> QED BY <1>3, <2>6 DEF dir
<1> QED BY <1>6, <1>7, <1>8 DEF Made

(* import_top adds no file.                                                *)
LEMMA ImportTopGrows ==
  ASSUME NEW d, Sound(d)
  PROVE  Grows(d, import_top(d))
<1> DEFINE e == add_tag(d, DirName[Music], USER_TAG).db
           f == add_association(e, DirName[Music], TAG_FILES, ASSOC_SUBGROUP).db
<1>1. DirName[Music] \in TagNames /\ TAG_FILES \in TagNames /\ USER_TAG \in TagTypes
  BY TreeAssumption, UserAssumption DEF TagTypes
<1>2. Grows(d, e)
  BY <1>1, AddTagGrows
<1>3. import_top(d) \in {d, f}
  BY DEF import_top
<1> HIDE DEF e
<1>4. Grows(e, f)
  BY <1>1, <1>2, RelateGrows, GrowsSound
<1> QED BY <1>2, <1>3, <1>4, GrowsOn, GrowsNothing

(* A step of the walk other than reading a file.                           *)
LEMMA DirectoriesGrow ==
  ASSUME StartInv, stage = "walk", WalkDirectory \/ WalkReturn
  PROVE  Grows(db, db')
<1>1. Sound(db) /\ MainOK /\ USER_TAG \in TagTypes
  BY DEF StartInv, Inv, TablesSound, TagTypes
<1>2. CASE WalkDirectory
  <2>1. PICK e \in Dirs : db' \in {db, add_tag(db, DirName[e], USER_TAG).db}
    BY <1>2 DEF WalkDirectory
  <2> QED BY <1>1, <2>1, DirNamesAreNames, AddTagGrows, GrowsNothing
<1>3. CASE WalkReturn
  <2>1. CASE Len(walk) > 1
    <3>1. Len(walk) - 1 \in 1..Len(walk)
      BY <1>1, <2>1, TopIsFrame
    <3>2. Top.dir \in Dirs /\ walk[Len(walk) - 1].dir \in Dirs
      BY <1>1, <3>1, TopIsFrame DEF Frames
    <3>3. db' = add_association(db, DirName[Top.dir], DirName[walk[Len(walk) - 1].dir],
                                ASSOC_SUBGROUP).db
      BY <1>3, <2>1 DEF WalkReturn
    <3> QED BY <1>1, <3>2, <3>3, DirNamesAreNames, RelateGrows
  <2>2. CASE ~(Len(walk) > 1)
    <3>1. db' = db
      BY <1>3, <2>2 DEF WalkReturn
    <3> QED BY <1>1, <3>1, GrowsNothing
  <2> QED BY <2>1, <2>2
<1> QED BY <1>2, <1>3

(* A new file stays in its directory while rows are only added.            *)
LEMMA NewStaysFiled ==
  ASSUME NEW P, Adds(db, db', P), UNCHANGED before, NEW f \in FileIds,
         NewIsFiled(db, f), db'.files[f] = db.files[f]
  PROVE  NewIsFiled(db, f)'
<1>1. Filed(db, f) => Filed(db', f)
  BY FiledStays
<1>2. ~RoomForTag(db, USER_TAG) => ~RoomForTag(db', USER_TAG)
  BY TagRoomGone
<1> QED BY <1>1, <1>2 DEF NewIsFiled

(* No step of the program breaks FiledInv.                                 *)
LEMMA FiledKeeps ==
  ASSUME StartInv, CheckInv, FramesInv, FiledInv, [ProgramNext]_programVars
  PROVE  FiledInv'
<1>1. Sound(db) /\ MainOK
  BY DEF StartInv, Inv, TablesSound
<1>2. ASSUME stage' \in {"check", "import"}, NEW f \in FileIds
      PROVE  db'.files[f] = NoRow \/ db'.files[f] = before'.files[f]
  <2>1. CASE LoadPlugins
    <3>1. Grows(before, db) /\ before' = before
      BY <2>1 DEF LoadPlugins, CheckInv, found
    <3>2. Grows(db, db')
      BY <1>1, <2>1, LoadGrows DEF LoadPlugins
    <3> QED BY <3>1, <3>2 DEF Grows
  <2>2. CASE CheckFile
    <3>1. PICK g \in FileIds :
            /\ CheckTurn(g)
            /\ db' = IF CanOpen(db.files[g]) THEN db ELSE remove_gone_file(db, g)
      BY <2>2 DEF CheckFile
    <3>2. stage = "check" /\ before' = before
      BY <2>2, <3>1 DEF CheckFile, CheckTurn, found
    <3>3. db'.files[f] = NoRow \/ db'.files[f] = db.files[f]
      BY <1>1, <3>1, RemoveGoneEffect
    <3> QED BY <3>2, <3>3 DEF FiledInv
  <2>3. CASE CheckDone
    BY <2>3 DEF CheckDone, CheckedTurn, found, FiledInv
  <2>4. CASE UNCHANGED <<stage, db, before>>
    BY <1>2, <2>4 DEF FiledInv
  <2> QED BY <1>2, <2>1, <2>2, <2>3, <2>4, CheckSteps
<1>3. ASSUME stage' \in {"walk", "rules"}, NEW f \in FileIds
      PROVE  NewIsFiled(db, f)'
  <2>1. CASE Import /\ stage = "import" /\ Music \notin locked /\ WalkOn
    <3>1. db' = import_top(db) /\ before' = before
      BY <2>1 DEF Import, WalkOn
    <3>2. db'.files[f] = db.files[f]
      BY <1>1, <3>1, ImportTopGrows DEF Grows
    <3> QED BY <2>1, <3>1, <3>2 DEF FiledInv, NewIsFiled
  <2>2. CASE WalkFile /\ stage = "walk" /\ WalkOn
    <3>1. PICK e \in AbsPaths :
            /\ FileTurn(e) /\ e \in Top.rest
            /\ db' = IF CanStat(e) THEN import_file(db, e, Top.dir) ELSE db
      BY <2>2 DEF WalkFile, FileTurn
    <3>2. Adds(db, db', Present) /\ UNCHANGED before
      BY <1>3, <2>2, ImportAdds
    <3>3. Top = walk[Len(walk)] /\ Len(walk) \in 1..Len(walk)
      BY <1>1, <2>2, TopIsFrame DEF Top
    <3>4. Top.dir = Above[e] /\ Made(db, DirName[Above[e]], USER_TAG)
      BY <3>1, <3>3 DEF FramesInv, FrameFits, FrameOwns
    <3>5. CASE db'.files[f] = db.files[f]
      BY <2>2, <3>2, <3>5, NewStaysFiled DEF FiledInv
    <3>6. CASE db'.files[f] # db.files[f]
      <4>1. db' = import_file(db, e, Above[e])
        BY <3>1, <3>4, <3>6
      <4>2. Filed(db', f) \/ ~RoomForTag(db', USER_TAG)
        BY <1>1, <3>4, <3>6, <4>1, ImportFileFiles
      <4> QED BY <4>2 DEF NewIsFiled
    <3> QED BY <3>5, <3>6
  <2>3. CASE (WalkDirectory \/ WalkReturn) /\ stage = "walk" /\ WalkOn
    <3>1. Grows(db, db') /\ before' = before
      BY <2>3, DirectoriesGrow DEF WalkOn
    <3> QED BY <2>3, <3>1, NewStaysFiled DEF Grows, FiledInv
  <2>4. CASE UNCHANGED <<stage, db, before>>
    BY <1>3, <2>4 DEF FiledInv, NewIsFiled
  <2> QED BY <1>3, <2>1, <2>2, <2>3, <2>4, WalkSteps DEF WalkOn
<1> QED BY <1>2, <1>3 DEF FiledInv

(* Whatever the tables held and the plugins make of a file, a file that is *)
(* imported is put into the directory it was found in, while there are ids *)
(* for the tags of directories.                                            *)
THEOREM ImportFilesFiles == Program => []NewFilesAreFiled
<1>1. ProgramInit => CheckInv /\ FramesInv /\ FiledInv
  <2> SUFFICES ASSUME ProgramInit PROVE CheckInv /\ FramesInv /\ FiledInv
    OBVIOUS
  <2>1. Len(walk) = 0 /\ 1..0 = {}
    BY EmptySeq DEF ProgramInit
  <2> QED BY <2>1 DEF CheckInv, FramesInv, FiledInv, ProgramInit
<1>2. StartInv /\ StartInv' /\ CheckInv /\ FramesInv /\ FiledInv /\ [ProgramNext]_programVars
        => CheckInv' /\ FramesInv' /\ FiledInv'
  BY CheckKeeps, FramesKeep, FiledKeeps
<1>3. FiledInv => NewFilesAreFiled
  <2> SUFFICES ASSUME FiledInv, stage = "rules", RoomForTag(db, USER_TAG), NEW f \in FileIds,
                      db.files[f] # NoRow, db.files[f] # before.files[f]
               PROVE  \E t \in TagIds : /\ db.tags[t] = DirName[Above[db.files[f]]]
                                        /\ db.fileAssoc[t][f] > 0
    BY DEF NewFilesAreFiled
  <2>1. NewIsFiled(db, f)
    BY DEF FiledInv
  <2> QED BY <2>1 DEF NewIsFiled, Filed
<1> QED BY <1>1, <1>2, <1>3, ProgramAlways, PTL DEF Program

-----------------------------------------------------------------------------
(* What a start makes, and leaves alone when it is there.                  *)

(* A relation is made where both tags are there and not related yet.       *)
LEMMA Relates ==
  ASSUME NEW d, Sound(d), NEW m \in TagNames, NEW n \in TagNames,
         Tagged(d, m), Tagged(d, n)
  PROVE  Related(add_association(d, m, n, ASSOC_SUBGROUP).db, m, n)
<1> DEFINE t == get_tag_id(d, m)
           u == get_tag_id(d, n)
           a == ASSOC_SUBGROUP
           e == add_association(d, m, n, a).db
<1>1. t \in TagIds /\ t # KW_FAIL /\ d.tags[t] = m /\ u \in TagIds /\ u # KW_FAIL /\ d.tags[u] = n
  <2>1. t # KW_FAIL /\ u # KW_FAIL
    BY TaggedFound
  <2> QED BY <2>1, TagIdFound DEF Sound
<1>2. a \in AssocIds
  BY SubgroupAssumption
<1>3. CASE get_association(d, m, n) # KW_FAIL
  <2>1. e = d
    BY <1>3 DEF add_association, Return
  <2>2. AssociationRows(d, t, u) # {}
    BY <1>1, <1>3 DEF get_association
  <2>3. PICK b \in AssocIds : d.tagAssoc[t][u][b] > 0
    BY <2>2 DEF AssociationRows
  <2> HIDE DEF t, u, e
  <2> QED BY <1>1, <2>1, <2>3 DEF Related, e
<1>4. CASE get_association(d, m, n) = KW_FAIL
  <2>1. e = [d EXCEPT !.tagAssoc[t][u][a] = @ + 1]
    BY <1>1, <1>4 DEF add_association, is_association_type, Return, KW_FAIL
  <2>2. d.tagAssoc[t][u][a] \in Nat
    BY <1>1, <1>2 DEF Sound, Databases, TagAssociationTable
  <2> HIDE DEF e, t, u, a
  <2>3. e = WithRelation(d, t, u, a, d.tagAssoc[t][u][a] + 1)
    BY <2>1, Zenon DEF WithRelation
  <2>4. d.tagAssoc[t][u][a] + 1 \in Nat
    BY <2>2
  <2>5. OnlyRelation(d, e, t, u, a, d.tagAssoc[t][u][a] + 1)
    BY <1>1, <1>2, <2>3, <2>4, SetRelation DEF Sound
  <2>6. e.tags = d.tags /\ e.tagAssoc[t][u][a] = d.tagAssoc[t][u][a] + 1
    BY <1>1, <1>2, <2>5 DEF OnlyRelation
  <2>7. e.tagAssoc[t][u][a] > 0
    BY <2>2, <2>6
  <2> QED BY <1>1, <1>2, <2>6, <2>7 DEF Related, e, a
<1> QED BY <1>3, <1>4

(* A relation is made between tags that are there.                         *)
LEMMA RelateKeepsTags ==
  ASSUME NEW d, Sound(d), NEW m, NEW n
  PROVE  add_association(d, m, n, ASSOC_SUBGROUP).db.tags = d.tags
BY DEF add_association, Return, Sound, Databases

(* A relation that is there, or between names that are no tags, is not     *)
(* made.                                                                   *)
LEMMA RelateIdle ==
  ASSUME NEW d, Sound(d), NEW m \in TagNames, NEW n \in TagNames,
         Related(d, m, n) \/ ~Tagged(d, m) \/ ~Tagged(d, n)
  PROVE  add_association(d, m, n, ASSOC_SUBGROUP).db = d
<1> DEFINE t == get_tag_id(d, m)
           u == get_tag_id(d, n)
<1>1. CASE ~Tagged(d, m) \/ ~Tagged(d, n)
  <2>1. t = KW_FAIL \/ u = KW_FAIL
    BY <1>1, TaggedFound
  <2> QED BY <2>1 DEF add_association, Return
<1>2. CASE Related(d, m, n)
  <2>1. PICK v \in TagIds, w \in TagIds :
          d.tags[v] = m /\ d.tags[w] = n /\ \E a \in AssocIds : d.tagAssoc[v][w][a] > 0
    BY <1>2 DEF Related
  <2>2. t \in TagIds /\ t # KW_FAIL /\ d.tags[t] = m /\ u \in TagIds /\ u # KW_FAIL /\ d.tags[u] = n
    <3>1. Tagged(d, m) /\ Tagged(d, n)
      BY <2>1 DEF Tagged
    <3>2. t # KW_FAIL /\ u # KW_FAIL
      BY <3>1, TaggedFound
    <3> QED BY <3>2, TagIdFound DEF Sound
  <2> HIDE DEF t, u
  <2>3. v = t /\ w = u
    BY <2>1, <2>2, NoRowAssumption DEF Sound, UniqueNamesOf
  <2>4. AssociationRows(d, t, u) # {}
    BY <2>1, <2>3 DEF AssociationRows
  <2>5. get_association(d, m, n) = CHOOSE b \in AssociationRows(d, t, u) : TRUE
    BY <2>2, <2>4 DEF get_association, t, u
  <2>6. get_association(d, m, n) \in AssocIds
    BY <2>4, <2>5 DEF AssociationRows
  <2>7. get_association(d, m, n) # KW_FAIL
    BY <2>6, AssocAssumption DEF KW_FAIL
  <2> QED BY <2>7 DEF add_association, Return
<1> QED BY <1>1, <1>2

(* What only adds, and no tag where the ids of the system have run out.    *)
Quietly(d, e) == Grows(d, e) /\ (~RoomForTag(d, SYSTEM_TAG) => e.tags = d.tags)

(* Quietly is a preorder.                                                  *)
LEMMA QuietlyNothing ==
  ASSUME NEW d, Sound(d)
  PROVE  Quietly(d, d)
BY GrowsNothing DEF Quietly

LEMMA QuietlyOn ==
  ASSUME NEW d, NEW e, NEW f, Quietly(d, e), Quietly(e, f)
  PROVE  Quietly(d, f)
<1>1. Grows(d, f) /\ Adds(d, e, {})
  BY GrowsOn DEF Quietly, Grows
<1>2. ~RoomForTag(d, SYSTEM_TAG) => ~RoomForTag(e, SYSTEM_TAG)
  BY <1>1, TagRoomGone
<1> QED BY <1>1, <1>2 DEF Quietly

(* The two steps of which a start makes its tags are quiet.                *)
LEMMA RelateQuietly ==
  ASSUME NEW d, Sound(d), NEW m \in TagNames, NEW n \in TagNames
  PROVE  Quietly(d, add_association(d, m, n, ASSOC_SUBGROUP).db)
BY RelateGrows, RelateKeepsTags DEF Quietly

LEMMA AddTagQuietly ==
  ASSUME NEW d, Sound(d), NEW n \in TagNames
  PROVE  Quietly(d, add_tag(d, n, SYSTEM_TAG).db)
<1>1. Grows(d, add_tag(d, n, SYSTEM_TAG).db)
  BY AddTagGrows DEF TagTypes
<1>2. ~RoomForTag(d, SYSTEM_TAG) => add_tag(d, n, SYSTEM_TAG).db = d
  BY AddTagIdle DEF Made
<1> QED BY <1>1, <1>2 DEF Quietly

(* A tag of the system that is made and put below another, if the ids are  *)
(* enough for both.                                                        *)
place(d, m, n) == add_association(add_tag(d, m, SYSTEM_TAG).db, m, n, ASSOC_SUBGROUP).db

Placed(d, m, n) ==
  /\ Made(d, m, SYSTEM_TAG)
  /\ \/ Related(d, m, n)
     \/ ~RoomForTag(d, SYSTEM_TAG) /\ (~Tagged(d, m) \/ ~Tagged(d, n))

(* A tag that is placed stays so.                                          *)
LEMMA PlacedStays ==
  ASSUME NEW d, NEW e, Quietly(d, e), NEW m \in TagNames, NEW n \in TagNames, Placed(d, m, n)
  PROVE  Placed(e, m, n)
<1>1. Adds(d, e, {})
  BY DEF Quietly, Grows
<1>2. Made(e, m, SYSTEM_TAG)
  BY <1>1, MadeStays DEF Placed
<1>3. CASE Related(d, m, n)
  BY <1>1, <1>2, <1>3, RelatedStays DEF Placed
<1>4. CASE ~RoomForTag(d, SYSTEM_TAG) /\ (~Tagged(d, m) \/ ~Tagged(d, n))
  <2>1. e.tags = d.tags
    BY <1>4 DEF Quietly
  <2>2. ~RoomForTag(e, SYSTEM_TAG)
    BY <1>1, <1>4, TagRoomGone
  <2>3. ~Tagged(e, m) \/ ~Tagged(e, n)
    BY <1>4, <2>1 DEF Tagged
  <2> QED BY <1>2, <2>2, <2>3 DEF Placed
<1> QED BY <1>3, <1>4 DEF Placed

(* A tag is placed below one that is there or that has no id left.         *)
LEMMA PlacePlaces ==
  ASSUME NEW d, Sound(d), NEW m \in TagNames, NEW n \in TagNames, Made(d, n, SYSTEM_TAG)
  PROVE  Quietly(d, place(d, m, n)) /\ Placed(place(d, m, n), m, n)
<1> DEFINE e == add_tag(d, m, SYSTEM_TAG).db
           f == add_association(e, m, n, ASSOC_SUBGROUP).db
<1>1. Quietly(d, e) /\ Made(e, m, SYSTEM_TAG)
  BY AddTagQuietly, AddTagMakes
<1>2. place(d, m, n) = f
  BY DEF place
<1> HIDE DEF e
<1>3. Sound(e) /\ Adds(d, e, {})
  BY <1>1, GrowsSound DEF Quietly, Grows
<1>4. Quietly(e, f)
  BY <1>3, RelateQuietly
<1>5. Made(e, n, SYSTEM_TAG)
  BY <1>3, MadeStays
<1>6. CASE Tagged(e, m) /\ Tagged(e, n)
  <2>1. Related(f, m, n)
    BY <1>3, <1>6, Relates
  <2> HIDE DEF f
  <2>2. Made(f, m, SYSTEM_TAG)
    <3>1. Adds(e, f, {})
      BY <1>4 DEF Quietly, Grows
    <3> QED BY <1>1, <3>1, MadeStays
  <2> QED BY <1>1, <1>2, <1>4, <2>1, <2>2, QuietlyOn DEF Placed
<1>7. CASE ~Tagged(e, m) \/ ~Tagged(e, n)
  <2> HIDE DEF f
  <2>1. Placed(e, m, n)
    BY <1>1, <1>5, <1>7 DEF Placed, Made
  <2>2. Placed(f, m, n)
    BY <1>4, <2>1, PlacedStays
  <2> QED BY <1>1, <1>2, <1>4, <2>2, QuietlyOn
<1> QED BY <1>6, <1>7

(* A tag that is placed is not placed again.                               *)
LEMMA PlaceIdle ==
  ASSUME NEW d, Sound(d), NEW m \in TagNames, NEW n \in TagNames, Placed(d, m, n)
  PROVE  place(d, m, n) = d
<1>1. add_tag(d, m, SYSTEM_TAG).db = d
  BY AddTagIdle DEF Placed
<1>2. Related(d, m, n) \/ ~Tagged(d, m) \/ ~Tagged(d, n)
  BY DEF Placed
<1>3. place(d, m, n) = add_association(d, m, n, ASSOC_SUBGROUP).db
  BY <1>1 DEF place
<1> QED BY <1>2, <1>3, RelateIdle

-----------------------------------------------------------------------------
(* Root, and pairs of tags of which the first is placed below the second.  *)

InPlace(d, S) == /\ Made(d, TAG_ROOT, SYSTEM_TAG)
                 /\ \A m, n \in TagNames : <<m, n>> \in S => Placed(d, m, n)

(* Pairs that are placed stay so, and are not placed again.                *)
LEMMA InPlaceStays ==
  ASSUME NEW d, NEW e, Quietly(d, e), NEW S, InPlace(d, S)
  PROVE  InPlace(e, S)
<1>1. Adds(d, e, {}) /\ TAG_ROOT \in TagNames
  BY UserAssumption DEF Quietly, Grows
<1>2. Made(e, TAG_ROOT, SYSTEM_TAG)
  BY <1>1, MadeStays DEF InPlace
<1> QED BY <1>2, PlacedStays DEF InPlace

(* One more below one that is there.                                       *)
LEMMA PlaceMore ==
  ASSUME NEW d, Sound(d), NEW S, InPlace(d, S), NEW m \in TagNames, NEW n \in TagNames,
         n = TAG_ROOT \/ \E k \in TagNames : <<n, k>> \in S
  PROVE  LET e == place(d, m, n) IN
         Sound(e) /\ Quietly(d, e) /\ InPlace(e, S \cup {<<m, n>>})
<1>1. Made(d, n, SYSTEM_TAG)
  BY DEF InPlace, Placed
<1>2. PICK e : e = place(d, m, n)
  OBVIOUS
<1>3. Quietly(d, e) /\ Placed(e, m, n)
  BY <1>1, <1>2, PlacePlaces
<1>4. Sound(e)
  BY <1>3, GrowsSound DEF Quietly
<1>5. InPlace(e, S)
  BY <1>3, InPlaceStays
<1>6. InPlace(e, S \cup {<<m, n>>})
  BY <1>3, <1>5 DEF InPlace
<1> QED BY <1>2, <1>3, <1>4, <1>6

LEMMA PlaceAgain ==
  ASSUME NEW d, Sound(d), NEW S, InPlace(d, S), NEW m \in TagNames, NEW n \in TagNames,
         <<m, n>> \in S
  PROVE  place(d, m, n) = d
BY PlaceIdle DEF InPlace

(* Both functions with which plugins make their tags place a tag below     *)
(* another.                                                                *)
LEMMA TypesArePlaced ==
  /\ \A d, mime : add_mime_type(d, mime) = place(d, mime, TAG_ROOT)
  /\ \A d, mime, metadata : add_metadata_type(d, mime, metadata) = place(d, metadata, mime)
BY DEF add_mime_type, add_metadata_type, place

(* What create_db and the plugins place.                                   *)
CreatePairs == {<<TAG_FILES, TAG_ROOT>>, <<User, TAG_ROOT>>}
TaglibPairs == {<<TAG_AUDIO, TAG_ROOT>>, <<TAG_ARTIST, TAG_AUDIO>>, <<TAG_ALBUM, TAG_AUDIO>>,
                <<TAG_GENRE, TAG_AUDIO>>}
PdfinfoPairs == {<<TAG_PDF, TAG_ROOT>>, <<TAG_PDF_TITLE, TAG_PDF>>, <<TAG_PDF_SUBJECT, TAG_PDF>>,
                 <<TAG_PDF_AUTHOR, TAG_PDF>>, <<TAG_PDF_PUBLISHER, TAG_PDF>>}
LibextractorPairs == {<<TAG_IMAGE, TAG_ROOT>>, <<TAG_IMAGE_CREATOR, TAG_IMAGE>>,
                      <<TAG_IMAGE_DATE, TAG_IMAGE>>, <<TAG_VIDEO, TAG_ROOT>>,
                      <<TAG_VIDEO_LENGTH, TAG_VIDEO>>}
PluginPairs == (IF "taglib" \in Plugins THEN TaglibPairs ELSE {})
          \cup (IF "pdfinfo" \in Plugins THEN PdfinfoPairs ELSE {})
          \cup (IF "libextractor" \in Plugins THEN LibextractorPairs ELSE {})

(* create_db places its two tags, and a second one changes nothing.        *)
LEMMA CreatePlaces ==
  ASSUME NEW d, Sound(d)
  PROVE  /\ Quietly(d, create_db(d)) /\ InPlace(create_db(d), CreatePairs)
         /\ InPlace(d, CreatePairs) => create_db(d) = d
<1> DEFINE a == add_tag(d, TAG_ROOT, SYSTEM_TAG).db
<1>1. TAG_ROOT \in TagNames /\ TAG_FILES \in TagNames /\ User \in TagNames
  BY UserAssumption
<1>2. create_db(d) = place(place(a, TAG_FILES, TAG_ROOT), User, TAG_ROOT)
  BY DEF create_db, place
<1>3. Quietly(d, a) /\ Made(a, TAG_ROOT, SYSTEM_TAG)
  BY <1>1, AddTagQuietly, AddTagMakes
<1>4. InPlace(d, CreatePairs) => a = d
  BY <1>1, AddTagIdle DEF InPlace
<1> HIDE DEF a
<1>5. Sound(a) /\ InPlace(a, {})
  BY <1>3, GrowsSound DEF Quietly, InPlace
<1>6. PICK b : b = place(a, TAG_FILES, TAG_ROOT)
  OBVIOUS
<1>7. Sound(b) /\ Quietly(a, b) /\ InPlace(b, {<<TAG_FILES, TAG_ROOT>>})
  <2>1. {} \cup {<<TAG_FILES, TAG_ROOT>>} = {<<TAG_FILES, TAG_ROOT>>}
    OBVIOUS
  <2> QED BY <1>1, <1>5, <1>6, <2>1, PlaceMore
<1>8. PICK c : c = place(b, User, TAG_ROOT)
  OBVIOUS
<1>9. Quietly(b, c) /\ InPlace(c, CreatePairs)
  <2>1. {<<TAG_FILES, TAG_ROOT>>} \cup {<<User, TAG_ROOT>>} = CreatePairs
    BY DEF CreatePairs
  <2> QED BY <1>1, <1>7, <1>8, <2>1, PlaceMore
<1>10. InPlace(d, CreatePairs) => c = d
  <2> SUFFICES ASSUME InPlace(d, CreatePairs) PROVE c = d
    OBVIOUS
  <2>1. <<TAG_FILES, TAG_ROOT>> \in CreatePairs /\ <<User, TAG_ROOT>> \in CreatePairs
    BY DEF CreatePairs
  <2>2. b = d
    BY <1>1, <1>4, <1>6, <2>1, PlaceAgain
  <2> QED BY <1>1, <1>8, <2>1, <2>2, PlaceAgain
<1> QED BY <1>2, <1>3, <1>6, <1>7, <1>8, <1>9, <1>10, QuietlyOn

(* A plugin places its tags below Root, whatever is placed already.        *)
Loads(e, d, S, T) == /\ Sound(e) /\ Quietly(d, e) /\ InPlace(e, S \cup T)
                     /\ T \subseteq S => e = d

(* The tags of a plugin are placed one pair after the other.               *)
LEMMA LoadsNothing ==
  ASSUME NEW d, Sound(d), NEW S, InPlace(d, S)
  PROVE  Loads(d, d, S, {})
<1>1. S \cup {} = S
  OBVIOUS
<1> QED BY <1>1, QuietlyNothing DEF Loads

LEMMA LoadsMore ==
  ASSUME NEW d, NEW S, NEW T, NEW e, Loads(e, d, S, T),
         NEW m \in TagNames, NEW n \in TagNames,
         n = TAG_ROOT \/ \E k \in TagNames : <<n, k>> \in T
  PROVE  Loads(place(e, m, n), d, S, T \cup {<<m, n>>})
<1>1. PICK f : f = place(e, m, n)
  OBVIOUS
<1>2. Sound(f) /\ Quietly(e, f) /\ InPlace(f, (S \cup T) \cup {<<m, n>>})
  BY <1>1, PlaceMore DEF Loads
<1>3. (S \cup T) \cup {<<m, n>>} = S \cup (T \cup {<<m, n>>})
  OBVIOUS
<1>4. Quietly(d, f)
  BY <1>2, QuietlyOn DEF Loads
<1>5. ASSUME T \cup {<<m, n>>} \subseteq S PROVE f = d
  <2>1. e = d /\ S \cup T = S /\ <<m, n>> \in S
    BY <1>5 DEF Loads
  <2>2. Sound(d) /\ InPlace(d, S)
    BY <2>1 DEF Loads
  <2> QED BY <1>1, <2>1, <2>2, PlaceAgain
<1> QED BY <1>1, <1>2, <1>3, <1>4, <1>5 DEF Loads

LEMMA LoadsOn ==
  ASSUME NEW d, NEW e, NEW f, NEW S, NEW T, NEW U, Loads(e, d, S, T), Loads(f, e, S \cup T, U)
  PROVE  Loads(f, d, S, T \cup U)
<1>1. Quietly(d, f)
  BY QuietlyOn DEF Loads
<1>2. (S \cup T) \cup U = S \cup (T \cup U)
  OBVIOUS
<1> QED BY <1>1, <1>2 DEF Loads

(* Each plugin places its pairs, and a second load changes nothing.        *)
LEMMA TaglibPlaces ==
  ASSUME NEW d, Sound(d), NEW S, InPlace(d, S), "taglib" \in Plugins
  PROVE  Loads(load_taglib(d), d, S, TaglibPairs)
<1> DEFINE b == place(d, TAG_AUDIO, TAG_ROOT)
           e == place(b, TAG_ARTIST, TAG_AUDIO)
           f == place(e, TAG_ALBUM, TAG_AUDIO)
           g == place(f, TAG_GENRE, TAG_AUDIO)
           T1 == {} \cup {<<TAG_AUDIO, TAG_ROOT>>}
           T2 == T1 \cup {<<TAG_ARTIST, TAG_AUDIO>>}
           T3 == T2 \cup {<<TAG_ALBUM, TAG_AUDIO>>}
           T4 == T3 \cup {<<TAG_GENRE, TAG_AUDIO>>}
<1>1. TAG_ROOT \in TagNames /\ {TAG_AUDIO, TAG_ARTIST, TAG_ALBUM, TAG_GENRE} \subseteq TagNames
  BY UserAssumption, PluginsAssumption
<1>2. load_taglib(d) = g
  BY TypesArePlaced DEF load_taglib
<1>3. T4 = TaglibPairs /\ \A T \in {T1, T2, T3} : <<TAG_AUDIO, TAG_ROOT>> \in T
  BY DEF TaglibPairs
<1>4. Loads(b, d, S, T1)
  BY <1>1, LoadsNothing, LoadsMore
<1> HIDE DEF b, e, f, g, T1, T2, T3, T4
<1>5. Loads(e, d, S, T2)
  BY <1>1, <1>3, <1>4, LoadsMore DEF e, T2
<1>6. Loads(f, d, S, T3)
  BY <1>1, <1>3, <1>5, LoadsMore DEF f, T3
<1>7. Loads(g, d, S, T4)
  BY <1>1, <1>3, <1>6, LoadsMore DEF g, T4
<1> QED BY <1>2, <1>3, <1>7

LEMMA PdfinfoPlaces ==
  ASSUME NEW d, Sound(d), NEW S, InPlace(d, S), "pdfinfo" \in Plugins
  PROVE  Loads(load_pdfinfo(d), d, S, PdfinfoPairs)
<1> DEFINE b == place(d, TAG_PDF, TAG_ROOT)
           e == place(b, TAG_PDF_TITLE, TAG_PDF)
           f == place(e, TAG_PDF_SUBJECT, TAG_PDF)
           g == place(f, TAG_PDF_AUTHOR, TAG_PDF)
           h == place(g, TAG_PDF_PUBLISHER, TAG_PDF)
           T1 == {} \cup {<<TAG_PDF, TAG_ROOT>>}
           T2 == T1 \cup {<<TAG_PDF_TITLE, TAG_PDF>>}
           T3 == T2 \cup {<<TAG_PDF_SUBJECT, TAG_PDF>>}
           T4 == T3 \cup {<<TAG_PDF_AUTHOR, TAG_PDF>>}
           T5 == T4 \cup {<<TAG_PDF_PUBLISHER, TAG_PDF>>}
<1>1. /\ TAG_ROOT \in TagNames
      /\ {TAG_PDF, TAG_PDF_TITLE, TAG_PDF_SUBJECT, TAG_PDF_AUTHOR, TAG_PDF_PUBLISHER}
           \subseteq TagNames
  BY UserAssumption, PluginsAssumption
<1>2. load_pdfinfo(d) = h
  BY TypesArePlaced DEF load_pdfinfo
<1>3. T5 = PdfinfoPairs /\ \A T \in {T1, T2, T3, T4} : <<TAG_PDF, TAG_ROOT>> \in T
  BY DEF PdfinfoPairs
<1>4. Loads(b, d, S, T1)
  BY <1>1, LoadsNothing, LoadsMore
<1> HIDE DEF b, e, f, g, h, T1, T2, T3, T4, T5
<1>5. Loads(e, d, S, T2)
  BY <1>1, <1>3, <1>4, LoadsMore DEF e, T2
<1>6. Loads(f, d, S, T3)
  BY <1>1, <1>3, <1>5, LoadsMore DEF f, T3
<1>7. Loads(g, d, S, T4)
  BY <1>1, <1>3, <1>6, LoadsMore DEF g, T4
<1>8. Loads(h, d, S, T5)
  BY <1>1, <1>3, <1>7, LoadsMore DEF h, T5
<1> QED BY <1>2, <1>3, <1>8

LEMMA LibextractorPlaces ==
  ASSUME NEW d, Sound(d), NEW S, InPlace(d, S), "libextractor" \in Plugins
  PROVE  Loads(load_libextractor(d), d, S, LibextractorPairs)
<1> DEFINE b == place(d, TAG_IMAGE, TAG_ROOT)
           e == place(b, TAG_IMAGE_CREATOR, TAG_IMAGE)
           f == place(e, TAG_IMAGE_DATE, TAG_IMAGE)
           g == place(f, TAG_VIDEO, TAG_ROOT)
           h == place(g, TAG_VIDEO_LENGTH, TAG_VIDEO)
           T1 == {} \cup {<<TAG_IMAGE, TAG_ROOT>>}
           T2 == T1 \cup {<<TAG_IMAGE_CREATOR, TAG_IMAGE>>}
           T3 == T2 \cup {<<TAG_IMAGE_DATE, TAG_IMAGE>>}
           T4 == T3 \cup {<<TAG_VIDEO, TAG_ROOT>>}
           T5 == T4 \cup {<<TAG_VIDEO_LENGTH, TAG_VIDEO>>}
<1>1. /\ TAG_ROOT \in TagNames
      /\ {TAG_IMAGE, TAG_IMAGE_CREATOR, TAG_IMAGE_DATE, TAG_VIDEO, TAG_VIDEO_LENGTH}
           \subseteq TagNames
  BY UserAssumption, PluginsAssumption
<1>2. load_libextractor(d) = h
  BY TypesArePlaced DEF load_libextractor
<1>3. /\ T5 = LibextractorPairs /\ <<TAG_VIDEO, TAG_ROOT>> \in T4
      /\ \A T \in {T1, T2} : <<TAG_IMAGE, TAG_ROOT>> \in T
  BY DEF LibextractorPairs
<1>4. Loads(b, d, S, T1)
  BY <1>1, LoadsNothing, LoadsMore
<1> HIDE DEF b, e, f, g, h, T1, T2, T3, T4, T5
<1>5. Loads(e, d, S, T2)
  BY <1>1, <1>3, <1>4, LoadsMore DEF e, T2
<1>6. Loads(f, d, S, T3)
  BY <1>1, <1>3, <1>5, LoadsMore DEF f, T3
<1>7. Loads(g, d, S, T4)
  BY <1>1, <1>6, LoadsMore DEF g, T4
<1>8. Loads(h, d, S, T5)
  BY <1>1, <1>3, <1>7, LoadsMore DEF h, T5
<1> QED BY <1>2, <1>3, <1>8

(* So do all of them.                                                      *)
LEMMA LoadPlaces ==
  ASSUME NEW d, Sound(d), NEW S, InPlace(d, S)
  PROVE  Loads(load_plugins(d), d, S, PluginPairs)
<1> DEFINE T1 == IF "taglib" \in Plugins THEN TaglibPairs ELSE {}
           T2 == IF "pdfinfo" \in Plugins THEN PdfinfoPairs ELSE {}
           T3 == IF "libextractor" \in Plugins THEN LibextractorPairs ELSE {}
           a == IF "taglib" \in Plugins THEN load_taglib(d) ELSE d
           b == IF "pdfinfo" \in Plugins THEN load_pdfinfo(a) ELSE a
           c == IF "libextractor" \in Plugins THEN load_libextractor(b) ELSE b
<1>1. Loads(a, d, S, T1)
  BY TaglibPlaces, LoadsNothing
<1>2. load_plugins(d) = c /\ PluginPairs = (T1 \cup T2) \cup T3
  BY DEF load_plugins, PluginPairs
<1> HIDE DEF T1, a
<1>3. Loads(b, a, S \cup T1, T2)
  <2>1. Sound(a) /\ InPlace(a, S \cup T1)
    BY <1>1 DEF Loads
  <2> QED BY <2>1, PdfinfoPlaces, LoadsNothing
<1> HIDE DEF T2, b
<1>4. Loads(b, d, S, T1 \cup T2)
  BY <1>1, <1>3, LoadsOn
<1>5. Loads(c, b, S \cup (T1 \cup T2), T3)
  <2>1. Sound(b) /\ InPlace(b, S \cup (T1 \cup T2))
    BY <1>4 DEF Loads
  <2> QED BY <2>1, LibextractorPlaces, LoadsNothing
<1> HIDE DEF T3, c
<1> QED BY <1>2, <1>4, <1>5, LoadsOn

-----------------------------------------------------------------------------
(* Starts with nothing between them.                                       *)

(* A call that does something to the tables or the buffer leaves the disk. *)
LEMMA CallsTouch ==
  ASSUME NEW path, Calls(path)
  PROVE  disk' = disk \/ UNCHANGED <<db, cppath>>
<1>1. ASSUME NEW contents, Change(path, contents)
      PROVE  disk' = disk \/ UNCHANGED <<db, cppath>>
  <2>1. \/ Refused(SIGSEGV) \/ Refused(KW_SUCCESS) \/ Refused(Validity(path)) \/ Refused(EIO)
        \/ Refused(ENOENT) \/ UNCHANGED <<db, cppath>>
    BY <1>1, Zenon DEF Change
  <2> QED BY <2>1 DEF Refused
<1>2. ASSUME Mkdir(path) PROVE disk' = disk
  BY <1>2 DEF Mkdir, Refused
<1>3. ASSUME Rmdir(path) PROVE disk' = disk
  BY <1>3 DEF Rmdir, Refused
<1>4. ASSUME Unlink(path) PROVE disk' = disk
  BY <1>4 DEF Unlink, Refused
<1>5. ASSUME Mknod(path) PROVE disk' = disk
  BY <1>5 DEF Mknod, Refused
<1>6. ASSUME NEW to, Rename(path, to) PROVE disk' = disk
  BY <1>6 DEF Rename, Refused
<1>7. ASSUME \/ Getattr(path) \/ Readdir(path) \/ Access(path) \/ Release(path)
             \/ SetAttributes(path)
      PROVE  disk' = disk
  BY <1>7 DEF Getattr, Readdir, Access, Release, SetAttributes, Refused
<1>8. ASSUME Open(path) \/ Read(path) PROVE disk' = disk
  BY <1>8 DEF Open, Read
<1> QED BY <1>1, <1>2, <1>3, <1>4, <1>5, <1>6, <1>7, <1>8 DEF Calls, Truncate, Write

Still == UNCHANGED <<disk, locked, quiet>>

(* A step that is not of main, or nothing.                                 *)
Rests == /\ UNCHANGED <<stage, db, walk, before, steady>>
         /\ saved' = saved \/ (stage = "live" /\ saved' = db)

(* A call after which nothing is counted as an event left the tables       *)
(* alone.                                                                  *)
LEMMA CallRests ==
  ASSUME Call, quiet' # 0
  PROVE  Still /\ Rests
<1>1. db' = db /\ UNCHANGED quiet
  BY DEF Call
<1>2. PICK path \in Paths : FreshCalls(path)
  BY DEF Call
<1>3. disk' = disk
  <2>1. ~UNCHANGED <<db, cppath>>
    BY DEF Call
  <2> QED BY <1>2, <2>1, FreshCallsAreCalls, CallsTouch
<1> QED BY <1>1, <1>3 DEF Call, Still, Rests

(* Which steps there are between starts with nothing between them.         *)
LEMMA QuietSteps ==
  ASSUME [ProgramNext]_programVars, quiet' # 0
  PROVE  \/ Serve
         \/ /\ Still
            /\ \/ Begin \/ Create \/ LoadPlugins \/ CheckFile \/ CheckDone \/ Import
               \/ WalkFile \/ WalkDirectory \/ WalkReturn \/ Stopped \/ Rests
<1>1. ASSUME Begin PROVE Still
  BY <1>1 DEF Begin, vars, Still
<1>2. ASSUME \/ Create \/ LoadPlugins \/ CheckFile \/ CheckDone \/ Import
             \/ WalkFile \/ WalkDirectory \/ WalkReturn
      PROVE  Still
  BY <1>2 DEF Create, LoadPlugins, CheckFile, CheckDone, Import, WalkFile, WalkDirectory,
              WalkReturn, daemon, found, Still
<1>3. ASSUME Call PROVE Still /\ Rests
  BY <1>3, CallRests
<1>4. ASSUME Exit \/ Crash PROVE Still /\ Stopped
  BY <1>4 DEF Exit, Crash, Stopped, Still
<1>5. ASSUME NEW p \in AbsPaths, Remove(p) \/ Store(p) PROVE FALSE
  BY <1>5 DEF Remove, Store, Event
<1>6. ASSUME NEW e \in Lockable, ChangeMode(e) PROVE FALSE
  BY <1>6 DEF ChangeMode, Event
<1>7. ASSUME UNCHANGED programVars PROVE Still /\ Rests
  BY <1>7 DEF programVars, main, vars, Still, Rests
<1> QED BY <1>1, <1>2, <1>3, <1>4, <1>5, <1>6, <1>7 DEF ProgramNext, Main

(* Between the parts of main nothing is left to commit.                    *)
SavedInv == stage \in {"off", "create", "plugins", "import", "rules", "live"} => saved = db

(* No step of the program breaks SavedInv.                                 *)
LEMMA SavedKeeps ==
  ASSUME SavedInv, [ProgramNext]_programVars
  PROVE  SavedInv'
<1>1. CASE Begin
  BY <1>1 DEF Begin, To, vars, SavedInv
<1>2. CASE Create \/ LoadPlugins
  BY <1>2 DEF Create, LoadPlugins, SavedInv
<1>3. CASE CheckFile
  <2>1. stage' = "check"
    BY <1>3 DEF CheckFile, CheckTurn
  <2> QED BY <2>1 DEF SavedInv
<1>4. CASE CheckDone
  BY <1>4 DEF CheckDone, SavedInv
<1>5. CASE Import
  <2>1. CASE Music \in locked
    BY <1>5, <2>1 DEF Import, SavedInv
  <2>2. CASE Music \notin locked
    BY <1>5, <2>2 DEF Import, ImportTurn, SavedInv
  <2> QED BY <2>1, <2>2
<1>6. CASE WalkFile \/ WalkDirectory
  <2>1. stage' = "walk"
    BY <1>6 DEF WalkFile, FileTurn, WalkDirectory, DirectoryTurn
  <2> QED BY <2>1 DEF SavedInv
<1>7. CASE WalkReturn
  <2>1. CASE Len(walk) > 1
    BY <1>7, <2>1 DEF WalkReturn, ReturnTurn, SavedInv
  <2>2. CASE ~(Len(walk) > 1)
    BY <1>7, <2>2 DEF WalkReturn, SavedInv
  <2> QED BY <2>1, <2>2
<1>8. CASE Serve
  BY <1>8 DEF Serve, SavedInv
<1>9. CASE Call
  BY <1>9 DEF Call, SavedInv
<1>10. CASE Exit \/ Crash
  BY <1>10 DEF Exit, Crash, Stopped, SavedInv
<1>11. ASSUME NEW p \in AbsPaths, Remove(p) \/ Store(p) PROVE SavedInv'
  BY <1>11 DEF Remove, Vanish, Store, Event, SavedInv
<1>12. ASSUME NEW e \in Lockable, ChangeMode(e) PROVE SavedInv'
  BY <1>12 DEF ChangeMode, Event, vars, SavedInv
<1>13. CASE UNCHANGED programVars
  BY <1>13 DEF programVars, main, vars, SavedInv
<1> QED BY <1>1, <1>2, <1>3, <1>4, <1>5, <1>6, <1>7, <1>8, <1>9, <1>10, <1>11, <1>12, <1>13
        DEF ProgramNext, Main

(* A start that counts began after the last change of the disk.            *)
SteadyInv == quiet # 0 => steady

(* No step of the program breaks SteadyInv.                                *)
LEMMA SteadyKeeps ==
  ASSUME StartInv, SteadyInv, [ProgramNext]_programVars
  PROVE  SteadyInv'
<1> SUFFICES ASSUME quiet' # 0 PROVE steady'
  BY DEF SteadyInv
<1>1. CASE Serve
  <2>1. CASE steady
    BY <1>1, <2>1 DEF Serve
  <2>2. CASE ~steady
    <3>1. quiet' = quiet
      BY <1>1, <2>2 DEF Serve
    <3> QED BY <2>2, <3>1 DEF SteadyInv
  <2> QED BY <2>1, <2>2
<1>2. CASE Still /\ Begin
  BY <1>2 DEF Begin
<1>3. CASE Still /\ \/ Create \/ LoadPlugins \/ CheckFile \/ CheckDone \/ Import
                    \/ WalkFile \/ WalkDirectory \/ WalkReturn \/ Stopped \/ Rests
  <2>1. steady' = steady
    BY <1>3 DEF Create, LoadPlugins, CheckFile, CheckDone, Import, WalkFile, WalkDirectory,
                WalkReturn, Stopped, Rests, found
  <2>2. steady
    BY <1>3 DEF SteadyInv, Still
  <2> QED BY <2>1, <2>2
<1> QED BY <1>1, <1>2, <1>3, QuietSteps

-----------------------------------------------------------------------------
(* What a start that nothing disturbs leaves for the next to find.         *)

(* Every file that is listed can be opened.                                *)
Readable == Present \subseteq Openable

(* Every file can be opened, and what has a clear way has been dealt with. *)
Arrived(d) ==
  /\ \A f \in FileIds : d.files[f] # NoRow => d.files[f] \in Openable
  /\ Made(d, DirName[Music], USER_TAG)
  /\ \A x \in Entries : Clear(x) => Handled(d, x)

ArrivedInv == quiet # 0 /\ Readable => Arrived(db) /\ Arrived(saved)

(* What has arrived stays while tags and relations are added.              *)
LEMMA ArrivedStays ==
  ASSUME NEW d, NEW e, Grows(d, e), Arrived(d)
  PROVE  Arrived(e)
<1>1. Adds(d, e, {}) /\ e.files = d.files /\ DirName[Music] \in TagNames
  BY TreeAssumption DEF Grows
<1>2. Made(e, DirName[Music], USER_TAG)
  BY <1>1, MadeStays DEF Arrived
<1>3. \A x \in Entries : Handled(d, x) => Handled(e, x)
  BY <1>1, HandledStays
<1> QED BY <1>1, <1>2, <1>3 DEF Arrived

(* What has arrived stays while the disk and the directories do.           *)
LEMMA ArrivedAfter ==
  ASSUME Still
  PROVE  (Arrived(db') => Arrived(db)') /\ (Arrived(saved') => Arrived(saved)')
<1>1. Openable' = Openable /\ \A x : Clear(x)' <=> Clear(x)
  BY ClearStays, PresentStays DEF Still
<1>2. ASSUME Arrived(db') PROVE Arrived(db)'
  BY <1>1, <1>2 DEF Arrived
<1>3. ASSUME Arrived(saved') PROVE Arrived(saved)'
  BY <1>1, <1>3 DEF Arrived
<1> QED BY <1>2, <1>3

LEMMA ReadableStays ==
  ASSUME Still
  PROVE  Readable' <=> Readable
BY PresentStays DEF Still, Readable

(* The check, the files and the tags of the directories are as they were.  *)
LEMMA WalkIsIdle ==
  ASSUME StartInv, FramesInv, SavedInv, steady, Arrived(db),
         \/ CheckFile \/ CheckDone \/ Import \/ WalkFile \/ WalkDirectory
         \/ (WalkReturn /\ ~(Len(walk) > 1))
  PROVE  db' = db
<1>1. Sound(db) /\ MainOK /\ DirName[Music] \in TagNames
  BY TreeAssumption DEF StartInv, Inv, TablesSound
<1>2. CASE CheckFile
  <2>1. PICK f \in FileIds :
          /\ CheckTurn(f)
          /\ db' = IF CanOpen(db.files[f]) THEN db ELSE remove_gone_file(db, f)
    BY <1>2 DEF CheckFile
  <2>2. db.files[f] # NoRow
    BY <2>1 DEF CheckTurn, FilesFrom
  <2> QED BY <2>1, <2>2 DEF Arrived, Openable
<1>3. CASE CheckDone
  BY <1>3 DEF CheckDone
<1>4. CASE Import
  <2>1. CASE Music \in locked
    BY <1>4, <2>1 DEF Import, ImportTurn, SavedInv
  <2>2. CASE Music \notin locked
    <3>1. add_tag(db, DirName[Music], USER_TAG).code # KW_SUCCESS
      BY <1>1, AddTagIdle DEF Arrived
    <3>2. import_top(db) = db
      BY <3>1 DEF import_top
    <3> QED BY <1>4, <2>2, <3>2 DEF Import
  <2> QED BY <2>1, <2>2
<1>5. ASSUME stage = "walk", NEW e \in Top.rest PROVE Handled(db, e)
  BY <1>1, <1>5, TakenIsSeen DEF Arrived
<1>6. CASE WalkFile
  <2>1. PICK e \in AbsPaths :
          /\ stage = "walk" /\ e \in Top.rest
          /\ db' = IF CanStat(e) THEN import_file(db, e, Top.dir) ELSE db
    BY <1>6 DEF WalkFile, FileTurn
  <2>2. Known(db, BaseName[e]) \/ ~RoomForFile(db)
    BY <1>5, <2>1 DEF Handled
  <2>3. add_file(db, e).code # KW_SUCCESS /\ add_file_row(db, e).code # KW_SUCCESS
    BY <1>1, <2>2, AddFileIdle, AddFileRowIdle
  <2>4. import_file(db, e, Top.dir) = db
    BY <2>3 DEF import_file
  <2> QED BY <2>1, <2>4
<1>7. CASE WalkDirectory
  <2>1. PICK e \in Dirs : /\ stage = "walk" /\ e \in Top.rest
                          /\ db' \in {db, add_tag(db, DirName[e], USER_TAG).db}
    BY <1>7 DEF WalkDirectory, DirectoryTurn
  <2>2. e \notin AbsPaths
    BY TreeAssumption
  <2>3. Made(db, DirName[e], USER_TAG)
    BY <1>5, <2>1, <2>2 DEF Handled
  <2> QED BY <1>1, <2>1, <2>3, DirNamesAreNames, AddTagIdle
<1>8. CASE WalkReturn /\ ~(Len(walk) > 1)
  BY <1>8 DEF WalkReturn
<1> QED BY <1>2, <1>3, <1>4, <1>6, <1>7, <1>8

(* The directory that is left is put below the one above it.               *)
LEMMA ReturnRelates ==
  ASSUME StartInv, FramesInv, steady, WalkReturn, Len(walk) > 1
  PROVE  /\ Top.dir \in Dirs \ {Music} /\ Clear(Top.dir) /\ Above[Top.dir] \in Dirs
         /\ Top = walk[Len(walk)] /\ stage = "walk" /\ stage' = "walk" /\ UNCHANGED saved
         /\ db' = add_association(db, DirName[Top.dir], DirName[Above[Top.dir]],
                                  ASSOC_SUBGROUP).db
<1>1. MainOK /\ stage = "walk"
  BY DEF StartInv, WalkReturn, ReturnTurn
<1>2. Top = walk[Len(walk)] /\ Len(walk) \in 1..Len(walk) /\ Top.dir \in Dirs /\ Len(walk) # 1
  BY <1>1, TopIsFrame DEF Top
<1>3. FramePlaced(Len(walk)) /\ FrameClear(Len(walk))
  BY <1>2 DEF FramesInv, FrameFits
<1>4. Top.dir # Music /\ Above[Top.dir] = walk[Len(walk) - 1].dir
  BY <1>2, <1>3 DEF FramePlaced
<1>5. Clear(Top.dir)
  BY <1>2, <1>3, <1>4 DEF FrameClear
<1>6. Above[Top.dir] \in Dirs
  BY <1>2, <1>4, TreeAssumption
<1> QED BY <1>1, <1>2, <1>4, <1>5, <1>6 DEF WalkReturn, ReturnTurn

(* No step of the program breaks ArrivedInv.                               *)
LEMMA ArrivedKeeps ==
  ASSUME StartInv, FramesInv, GoneInv, CoverInv, SavedInv, SteadyInv, ArrivedInv,
         [ProgramNext]_programVars
  PROVE  ArrivedInv'
<1> SUFFICES ASSUME quiet' # 0, Readable' PROVE Arrived(db)' /\ Arrived(saved)'
  BY DEF ArrivedInv
<1>1. Sound(db) /\ MainOK
  BY DEF StartInv, Inv, TablesSound
<1>2. CASE Serve
  <2>1. stage = "rules" /\ UNCHANGED <<db, disk, saved, locked>>
    BY <1>2 DEF Serve
  <2>2. steady
    <3>1. SUFFICES ASSUME ~steady PROVE FALSE
      OBVIOUS
    <3>2. quiet' = quiet
      BY <1>2, <3>1 DEF Serve
    <3> QED BY <3>1, <3>2 DEF SteadyInv
  <2>3. Arrived(db)
    <3>1. \A f \in FileIds : db.files[f] # NoRow => db.files[f] \in Openable
      <4>1. Present \subseteq Openable
        BY <2>1, PresentStays DEF Readable
      <4> QED BY <2>1, <2>2, <4>1 DEF GoneInv, ThereIn
    <3>2. \A x : ~Pending(x)
      <4>1. walk = <<>>
        BY <1>1, <2>1 DEF MainOK
      <4>2. Len(walk) = 0 /\ 1..0 = {}
        BY <4>1, EmptySeq
      <4> QED BY <4>2 DEF Pending
    <3> QED BY <2>1, <2>2, <3>1, <3>2 DEF CoverInv, Arrived
  <2>4. saved = db
    BY <2>1 DEF SavedInv
  <2>5. Openable' = Openable /\ \A x : Clear(x)' <=> Clear(x)
    BY <2>1, ClearStays, PresentStays
  <2>6. Arrived(db)'
    BY <2>1, <2>3, <2>5 DEF Arrived
  <2>7. Arrived(saved)'
    BY <2>1, <2>3, <2>4, <2>5 DEF Arrived
  <2> QED BY <2>6, <2>7
<1>3. CASE Still /\ \/ Begin \/ Create \/ LoadPlugins \/ CheckFile \/ CheckDone \/ Import
                    \/ WalkFile \/ WalkDirectory \/ WalkReturn \/ Stopped \/ Rests
  <2>1. steady /\ Arrived(db) /\ Arrived(saved)
    BY <1>3, ReadableStays DEF SteadyInv, ArrivedInv, Still
  <2>2. Arrived(db')
    <3>1. CASE Begin \/ Rests
      <4>1. db' = db
        BY <3>1 DEF Begin, vars, Rests
      <4> QED BY <2>1, <4>1
    <3>2. CASE Create
      BY <1>1, <2>1, <3>2, CreateGrows, ArrivedStays DEF Create
    <3>3. CASE LoadPlugins
      BY <1>1, <2>1, <3>3, LoadGrows, ArrivedStays DEF LoadPlugins
    <3>4. CASE \/ CheckFile \/ CheckDone \/ Import \/ WalkFile \/ WalkDirectory
               \/ (WalkReturn /\ ~(Len(walk) > 1))
      BY <2>1, <3>4, WalkIsIdle
    <3>5. CASE WalkReturn /\ Len(walk) > 1
      BY <1>1, <2>1, <3>5, ReturnRelates, DirNamesAreNames, RelateGrows, ArrivedStays
    <3>6. CASE Stopped
      BY <2>1, <3>6 DEF Stopped
    <3> QED BY <1>3, <3>1, <3>2, <3>3, <3>4, <3>5, <3>6
  <2>3. saved' \in {saved, db, db'}
    BY <1>3 DEF Begin, Create, LoadPlugins, CheckFile, CheckDone, Import, WalkFile,
                WalkDirectory, WalkReturn, Stopped, Rests
  <2>4. Arrived(saved')
    BY <2>1, <2>2, <2>3
  <2> QED BY <1>3, <2>2, <2>4, ArrivedAfter
<1> QED BY <1>2, <1>3, QuietSteps

-----------------------------------------------------------------------------
(* Three starts in a row.                                                  *)

OnWalk(x) == \E i \in 1..Len(walk) : walk[i].dir = x

(* A directory is below the one above it, if both have tags.               *)
Beneath(d, x) == LET m == DirName[x]
                     n == DirName[Above[x]]
                 IN Related(d, m, n) \/ ~Tagged(d, m) \/ ~Tagged(d, n)

AllPairs == CreatePairs \cup PluginPairs

(* The start after one that nothing disturbed.                             *)
OnceInv ==
  quiet = 1 /\ Readable =>
    /\ stage = "plugins" => InPlace(db, CreatePairs)
    /\ stage \in {"check", "import", "walk", "rules"} => InPlace(db, AllPairs)
    /\ stage \in {"walk", "rules"} =>
         \A x \in Dirs \ {Music} : Clear(x) => Pending(x) \/ OnWalk(x) \/ Beneath(db, x)

(* The start after that.                                                   *)
TwiceInv ==
  quiet = 2 /\ Readable =>
    /\ InPlace(db, AllPairs)
    /\ \A x \in Dirs \ {Music} : Clear(x) => Beneath(db, x)
    /\ saved = db
    /\ stage \notin {"off", "live"} => before = db

(* The names of a directory and the one above it.                          *)
LEMMA DirectoryTags ==
  ASSUME NEW x \in Dirs \ {Music}
  PROVE  x \in Entries /\ DirName[x] \in TagNames /\ DirName[Above[x]] \in TagNames
BY AboveIsDir, DirNamesAreNames DEF Entries

(* A relation of a directory to the one above it stays.                    *)
LEMMA BeneathStays ==
  ASSUME NEW d, NEW e, Grows(d, e), e.tags = d.tags, NEW x \in Dirs \ {Music}, Beneath(d, x)
  PROVE  Beneath(e, x)
<1>1. Adds(d, e, {}) /\ DirName[x] \in TagNames /\ DirName[Above[x]] \in TagNames
  BY DirectoryTags DEF Grows
<1>2. Related(d, DirName[x], DirName[Above[x]]) => Related(e, DirName[x], DirName[Above[x]])
  BY <1>1, RelatedStays
<1>3. \A n : Tagged(e, n) <=> Tagged(d, n)
  BY DEF Tagged
<1> QED BY <1>2, <1>3 DEF Beneath

(* Returning from a directory makes the relation, when the tags are there. *)
LEMMA PutBeneath ==
  ASSUME NEW d, Sound(d), NEW x \in Dirs \ {Music}
  PROVE  Beneath(add_association(d, DirName[x], DirName[Above[x]], ASSOC_SUBGROUP).db, x)
<1>1. DirName[x] \in TagNames /\ DirName[Above[x]] \in TagNames
  BY DirectoryTags
<1>2. PICK e : e = add_association(d, DirName[x], DirName[Above[x]], ASSOC_SUBGROUP).db
  OBVIOUS
<1>3. e.tags = d.tags
  BY <1>2, RelateKeepsTags
<1>4. \A n : Tagged(e, n) <=> Tagged(d, n)
  BY <1>3 DEF Tagged
<1>5. Tagged(d, DirName[x]) /\ Tagged(d, DirName[Above[x]])
        => Related(e, DirName[x], DirName[Above[x]])
  BY <1>1, <1>2, Relates
<1> QED BY <1>2, <1>4, <1>5 DEF Beneath

(* A directory main comes to, or is in, it comes to, or is in, or leaves.  *)
LEMMA WayKept ==
  ASSUME StartInv, FramesInv, steady,
         NEW x \in Dirs \ {Music}, Clear(x), Pending(x) \/ OnWalk(x),
         stage = "walk", WalkFile \/ WalkDirectory \/ WalkReturn
  PROVE  Pending(x)' \/ OnWalk(x)' \/ (WalkReturn /\ Top.dir = x)
<1>1. MainOK /\ x \in Entries
  BY DEF StartInv, Entries
<1>2. Len(walk) \in Nat /\ Len(walk) >= 1 /\ Top = walk[Len(walk)] /\ walk \in Seq(Frames)
  BY <1>1, TopIsFrame DEF Top, MainOK
<1>3. CASE WalkFile
  <2>1. PICK e \in AbsPaths : walk' = WithoutEntry(e)
    BY <1>3 DEF WalkFile, FileTurn
  <2>2. /\ Len(walk') = Len(walk)
        /\ \A i \in 1..Len(walk) :
             walk'[i].dir = walk[i].dir /\ walk[i].rest \ {e} \subseteq walk'[i].rest
    BY <1>1, <2>1, WithoutEntryRows
  <2>3. ~Leads(e, x)
    <3>1. Up(x) \subseteq Dirs /\ Dirs \cap AbsPaths = {}
      BY <1>1, UpHolds, TreeAssumption
    <3> QED BY <3>1 DEF Leads
  <2>4. Pending(x) => Pending(x)'
    <3> SUFFICES ASSUME Pending(x) PROVE Pending(x)'
      OBVIOUS
    <3>1. PICK i \in 1..Len(walk) : \E y \in walk[i].rest : Leads(y, x)
      BY DEF Pending
    <3>2. PICK y \in walk[i].rest : Leads(y, x)
      BY <3>1
    <3>3. y # e
      BY <2>3, <3>2
    <3>4. y \in walk'[i].rest /\ i \in 1..Len(walk')
      BY <2>2, <3>2, <3>3
    <3> QED BY <3>2, <3>4 DEF Pending
  <2>5. OnWalk(x) => OnWalk(x)'
    BY <2>2 DEF OnWalk
  <2> QED BY <2>4, <2>5
<1>4. CASE WalkDirectory
  <2>1. PICK e \in Dirs : e \in Top.rest /\ walk' = Append(WithoutEntry(e), Frame(e))
    BY <1>1, <1>4, DirectorySteps, TakenIsSeen
  <2>2. PICK n : n = Len(walk)
    OBVIOUS
  <2> DEFINE w == WithoutEntry(e)
  <2>3. /\ Len(w) = n /\ w \in Seq(Frames)
        /\ \A j \in 1..n : w[j].dir = walk[j].dir /\ walk[j].rest \ {e} \subseteq w[j].rest
    BY <1>1, <2>2, WithoutEntryRows
  <2>4. Frame(e) \in Frames /\ Frame(e).dir = e
    BY FrameIsFrame DEF Frame
  <2> HIDE DEF w
  <2>5. Len(walk') = n + 1 /\ walk'[n + 1] = Frame(e) /\ \A j \in 1..n : walk'[j] = w[j]
    BY <2>1, <2>3, <2>4, AppendProperties DEF w
  <2>6. n \in Nat /\ n + 1 \in 1..(n + 1) /\ \A j \in 1..n : j \in 1..(n + 1)
    BY <1>2, <2>2
  <2>7. OnWalk(x) => OnWalk(x)'
    BY <2>2, <2>3, <2>5, <2>6 DEF OnWalk
  <2>8. ASSUME NEW i \in 1..n, NEW y \in walk[i].rest, Leads(y, x)
        PROVE  Pending(x)' \/ OnWalk(x)'
    <3>1. CASE y # e
      BY <2>3, <2>5, <2>6, <2>8, <3>1 DEF Pending
    <3>2. CASE y = e /\ e = x
      BY <2>4, <2>5, <2>6, <3>2 DEF OnWalk
    <3>3. CASE y = e /\ e \in Up(x)
      <4>1. e \notin locked /\ \E z \in Listed(e) : Leads(z, x)
        BY <1>1, <3>3, WayIsListed
      <4>2. Frame(e).rest = Listed(e)
        BY <4>1 DEF Frame
      <4> QED BY <2>5, <2>6, <4>1, <4>2 DEF Pending
    <3> QED BY <2>8, <3>1, <3>2, <3>3 DEF Leads
  <2>9. Pending(x) => Pending(x)' \/ OnWalk(x)'
    BY <2>2, <2>8 DEF Pending
  <2> QED BY <2>7, <2>9
<1>5. CASE WalkReturn
  <2>1. walk' = SubSeq(walk, 1, Len(walk) - 1) /\ Top.rest = {}
    BY <1>5 DEF WalkReturn, ReturnTurn
  <2>6. PICK n : n = Len(walk) - 1
    OBVIOUS
  <2>2. Len(walk') = n /\ \A i \in 1..n : walk'[i] = walk[i]
    BY <1>2, <2>1, <2>6, ShorterWalk
  <2>3. \A i \in 1..Len(walk) : i = Len(walk) \/ i \in 1..n
    BY <1>2, <2>6
  <2>4. Pending(x) => Pending(x)'
    <3> SUFFICES ASSUME Pending(x) PROVE Pending(x)'
      OBVIOUS
    <3>1. PICK i \in 1..Len(walk) : \E y \in walk[i].rest : Leads(y, x)
      BY DEF Pending
    <3>2. i \in 1..n
      BY <1>2, <2>1, <2>3, <3>1
    <3> QED BY <2>2, <3>1, <3>2 DEF Pending
  <2>5. OnWalk(x) => OnWalk(x)' \/ Top.dir = x
    <3> SUFFICES ASSUME OnWalk(x), Top.dir # x PROVE OnWalk(x)'
      OBVIOUS
    <3>1. PICK i \in 1..Len(walk) : walk[i].dir = x
      BY DEF OnWalk
    <3>2. i \in 1..n
      BY <1>2, <2>3, <3>1
    <3> QED BY <2>2, <3>1, <3>2 DEF OnWalk
  <2> QED BY <1>5, <2>4, <2>5
<1> QED BY <1>3, <1>4, <1>5

(* What the walk of the start after an undisturbed one does.               *)
LEMMA WalkSettles ==
  ASSUME StartInv, FramesInv, SavedInv, steady, Arrived(db), Still, stage = "walk",
         WalkFile \/ WalkDirectory \/ WalkReturn,
         NEW x \in Dirs \ {Music}, Clear(x), Pending(x) \/ OnWalk(x) \/ Beneath(db, x)
  PROVE  Pending(x)' \/ OnWalk(x)' \/ Beneath(db', x)
<1>1. Sound(db) /\ MainOK
  BY DEF StartInv, Inv, TablesSound
<1>2. ASSUME Beneath(db, x) PROVE Beneath(db', x)
  <2>1. CASE WalkReturn /\ Len(walk) > 1
    <3>1. PICK m \in TagNames, n \in TagNames :
            db' = add_association(db, m, n, ASSOC_SUBGROUP).db
      BY <2>1, ReturnRelates, DirNamesAreNames
    <3>2. Grows(db, db') /\ db'.tags = db.tags
      BY <1>1, <3>1, RelateGrows, RelateKeepsTags
    <3> QED BY <1>2, <3>2, BeneathStays
  <2>2. CASE ~(WalkReturn /\ Len(walk) > 1)
    <3>1. db' = db
      BY <2>2, WalkIsIdle
    <3> QED BY <1>2, <3>1
  <2> QED BY <2>1, <2>2
<1>3. ASSUME WalkReturn, Top.dir = x PROVE Beneath(db', x)
  <2>1. CASE Len(walk) > 1
    <3>1. db' = add_association(db, DirName[x], DirName[Above[x]], ASSOC_SUBGROUP).db
      BY <1>3, <2>1, ReturnRelates
    <3> QED BY <1>1, <3>1, PutBeneath
  <2>2. CASE ~(Len(walk) > 1)
    <3>1. PICK n : n = Len(walk)
      OBVIOUS
    <3>3. n \in Nat /\ n >= 1 /\ Top = walk[n]
      BY <1>1, <3>1, TopIsFrame DEF Top, MainOK
    <3>4. n = 1
      BY <2>2, <3>1, <3>3
    <3>2. Top.dir = Music
      BY <3>1, <3>3, <3>4 DEF FramesInv, FrameFits, FramePlaced
    <3> QED BY <1>3, <3>2
  <2> QED BY <2>1, <2>2
<1> QED BY <1>2, <1>3, WayKept

(* No step of the program breaks OnceInv.                                  *)
LEMMA OnceKeeps ==
  ASSUME StartInv, FramesInv, SavedInv, SteadyInv, ArrivedInv, OnceInv, [ProgramNext]_programVars
  PROVE  OnceInv'
<1> SUFFICES ASSUME quiet' = 1, Readable'
             PROVE  /\ stage' = "plugins" => InPlace(db', CreatePairs)
                    /\ stage' \in {"check", "import", "walk", "rules"} => InPlace(db', AllPairs)
                    /\ stage' \in {"walk", "rules"} =>
                         \A x \in Dirs \ {Music} :
                           Clear(x)' => Pending(x)' \/ OnWalk(x)' \/ Beneath(db', x)
  BY DEF OnceInv
<1>1. Sound(db) /\ MainOK
  BY DEF StartInv, Inv, TablesSound
<1>2. CASE Serve
  <2>1. stage' = "live"
    BY <1>2 DEF Serve, To
  <2> QED BY <2>1
<1>3. CASE Still /\ \/ Begin \/ Create \/ LoadPlugins \/ CheckFile \/ CheckDone \/ Import
                    \/ WalkFile \/ WalkDirectory \/ WalkReturn \/ Stopped \/ Rests
  <2>1. /\ stage = "plugins" => InPlace(db, CreatePairs)
        /\ stage \in {"check", "import", "walk", "rules"} => InPlace(db, AllPairs)
        /\ stage \in {"walk", "rules"} =>
             \A x \in Dirs \ {Music} : Clear(x) => Pending(x) \/ OnWalk(x) \/ Beneath(db, x)
    BY <1>3, ReadableStays DEF Still, OnceInv
  <2>2. steady /\ Arrived(db)
    BY <1>3, ReadableStays DEF Still, SteadyInv, ArrivedInv
  <2>3. \A x : Clear(x)' <=> Clear(x)
    BY <1>3, ClearStays DEF Still
  <2>4. CASE Begin \/ Stopped
    <3>1. stage' \in {"create", "off"}
      BY <2>4 DEF Begin, To, Stopped
    <3> QED BY <3>1
  <2>5. CASE Create
    <3>1. stage' = "plugins" /\ db' = create_db(db)
      BY <2>5 DEF Create, To
    <3> QED BY <1>1, <3>1, CreatePlaces
  <2>6. CASE LoadPlugins
    <3>1. stage = "plugins" /\ stage' = "check" /\ db' = load_plugins(db)
      BY <2>6 DEF LoadPlugins, To
    <3>2. InPlace(db', AllPairs)
      BY <1>1, <2>1, <3>1, LoadPlaces DEF Loads, AllPairs
    <3> QED BY <3>1, <3>2
  <2>7. CASE CheckFile \/ CheckDone
    <3>1. stage = "check" /\ stage' \in {"check", "import"}
      BY <2>7 DEF CheckFile, CheckTurn, CheckDone, CheckedTurn
    <3>2. db' = db
      BY <2>2, <2>7, WalkIsIdle
    <3> QED BY <2>1, <3>1, <3>2
  <2>8. CASE Import
    <3>1. CASE Music \in locked
      <4>1. stage' = "off"
        BY <2>8, <3>1 DEF Import, ImportTurn, To
      <4> QED BY <4>1
    <3>2. CASE Music \notin locked
      <4>1. stage = "import" /\ walk' = <<Frame(Music)>> /\ stage' = "walk"
        BY <2>8, <3>2 DEF Import, ImportTurn
      <4>2. 1 \in 1..Len(walk') /\ walk'[1].rest = Listed(Music)
        BY <3>2, <4>1 DEF Frame
      <4>3. ASSUME NEW x \in Dirs \ {Music}, Clear(x)' PROVE Pending(x)'
        <5>1. Clear(x) /\ x \in Entries
          BY <2>3, <4>3 DEF Entries
        <5>2. Music \in Up(x)
          BY <5>1, MusicIsAbove
        <5> QED BY <4>2, <5>1, <5>2, WayIsListed DEF Pending
      <4>4. db' = db
        BY <2>2, <2>8, WalkIsIdle
      <4> QED BY <2>1, <4>1, <4>3, <4>4
    <3> QED BY <3>1, <3>2
  <2>9. CASE WalkFile \/ WalkDirectory \/ WalkReturn
    <3>1. stage = "walk" /\ stage' \in {"walk", "rules"}
      BY <2>9 DEF WalkFile, FileTurn, WalkDirectory, DirectoryTurn, WalkReturn, ReturnTurn
    <3>2. ASSUME NEW x \in Dirs \ {Music}, Clear(x)
          PROVE  Pending(x)' \/ OnWalk(x)' \/ Beneath(db', x)
      <4>1. Pending(x) \/ OnWalk(x) \/ Beneath(db, x)
        BY <2>1, <3>1, <3>2
      <4> QED BY <1>3, <2>2, <2>9, <3>1, <3>2, <4>1, WalkSettles
    <3>3. InPlace(db', AllPairs)
      <4>1. InPlace(db, AllPairs)
        BY <2>1, <3>1
      <4>2. CASE WalkReturn /\ Len(walk) > 1
        <5>1. PICK m \in TagNames, n \in TagNames :
                db' = add_association(db, m, n, ASSOC_SUBGROUP).db
          BY <2>2, <4>2, ReturnRelates, DirNamesAreNames
        <5>2. Quietly(db, db')
          BY <1>1, <5>1, RelateQuietly
        <5> QED BY <4>1, <5>2, InPlaceStays
      <4>3. CASE ~(WalkReturn /\ Len(walk) > 1)
        <5>1. db' = db
          BY <2>2, <2>9, <4>3, WalkIsIdle
        <5> QED BY <4>1, <5>1
      <4> QED BY <4>2, <4>3
    <3> QED BY <2>3, <3>1, <3>2, <3>3
  <2>10. CASE Rests
    <3>1. UNCHANGED <<stage, db, walk>>
      BY <2>10 DEF Rests
    <3>2. \A x : (Pending(x)' <=> Pending(x)) /\ (OnWalk(x)' <=> OnWalk(x))
      BY <3>1 DEF Pending, OnWalk
    <3> QED BY <2>1, <2>3, <3>1, <3>2
  <2> QED BY <1>3, <2>4, <2>5, <2>6, <2>7, <2>8, <2>9, <2>10
<1> QED BY <1>2, <1>3, QuietSteps

(* Main does nothing to tables in which all is in place.                   *)
LEMMA SettledIsIdle ==
  ASSUME StartInv, FramesInv, SavedInv, steady, Arrived(db), InPlace(db, AllPairs),
         \A x \in Dirs \ {Music} : Clear(x) => Beneath(db, x),
         \/ Create \/ LoadPlugins \/ CheckFile \/ CheckDone \/ Import
         \/ WalkFile \/ WalkDirectory \/ WalkReturn
  PROVE  db' = db
<1>1. Sound(db)
  BY DEF StartInv, Inv, TablesSound
<1>2. CASE Create
  <2>1. InPlace(db, CreatePairs)
    BY DEF InPlace, AllPairs
  <2> QED BY <1>1, <1>2, <2>1, CreatePlaces DEF Create
<1>3. CASE LoadPlugins
  <2>1. PluginPairs \subseteq AllPairs
    BY DEF AllPairs
  <2>2. Loads(load_plugins(db), db, AllPairs, PluginPairs)
    BY <1>1, LoadPlaces
  <2>3. load_plugins(db) = db
    BY <2>1, <2>2 DEF Loads
  <2> QED BY <1>3, <2>3 DEF LoadPlugins
<1>4. CASE WalkReturn /\ Len(walk) > 1
  <2>1. PICK x \in Dirs \ {Music} :
          /\ Clear(x)
          /\ db' = add_association(db, DirName[x], DirName[Above[x]], ASSOC_SUBGROUP).db
    BY <1>4, ReturnRelates
  <2>2. Beneath(db, x)
    BY <2>1
  <2> QED BY <1>1, <2>1, <2>2, DirectoryTags, RelateIdle DEF Beneath
<1>5. CASE ~Create /\ ~LoadPlugins /\ ~(WalkReturn /\ Len(walk) > 1)
  BY <1>5, WalkIsIdle
<1> QED BY <1>2, <1>3, <1>4, <1>5

(* No step of the program breaks TwiceInv.                                 *)
LEMMA TwiceKeeps ==
  ASSUME StartInv, FramesInv, SavedInv, SteadyInv, ArrivedInv, OnceInv, TwiceInv,
         [ProgramNext]_programVars
  PROVE  TwiceInv'
<1> SUFFICES ASSUME quiet' = 2, Readable'
             PROVE  /\ InPlace(db', AllPairs)
                    /\ \A x \in Dirs \ {Music} : Clear(x)' => Beneath(db', x)
                    /\ saved' = db'
                    /\ stage' \notin {"off", "live"} => before' = db'
  BY DEF TwiceInv
<1>1. CASE Serve
  <2>1. /\ stage = "rules" /\ stage' = "live" /\ UNCHANGED <<db, disk, saved, locked>>
        /\ quiet \in {1, 2}
    BY <1>1 DEF Serve, To, StartInv, MainOK
  <2>2. saved = db
    BY <2>1 DEF SavedInv
  <2>3. \A x : ~Pending(x) /\ ~OnWalk(x)
    <3>1. walk = <<>>
      BY <2>1 DEF StartInv, MainOK
    <3>2. Len(walk) = 0 /\ 1..0 = {}
      BY <3>1, EmptySeq
    <3> QED BY <3>2 DEF Pending, OnWalk
  <2>6. Readable
    BY <2>1, PresentStays DEF Readable
  <2>4. InPlace(db, AllPairs) /\ \A x \in Dirs \ {Music} : Clear(x) => Beneath(db, x)
    BY <2>1, <2>3, <2>6 DEF OnceInv, TwiceInv
  <2>5. \A x : Clear(x)' <=> Clear(x)
    BY <2>1, ClearStays
  <2> QED BY <2>1, <2>2, <2>4, <2>5
<1>2. CASE Still /\ \/ Begin \/ Create \/ LoadPlugins \/ CheckFile \/ CheckDone \/ Import
                    \/ WalkFile \/ WalkDirectory \/ WalkReturn \/ Stopped \/ Rests
  <2>1. /\ InPlace(db, AllPairs) /\ \A x \in Dirs \ {Music} : Clear(x) => Beneath(db, x)
        /\ saved = db
        /\ stage \notin {"off", "live"} => before = db
    BY <1>2, ReadableStays DEF Still, TwiceInv
  <2>2. steady /\ Arrived(db)
    BY <1>2, ReadableStays DEF Still, SteadyInv, ArrivedInv
  <2>3. \A x : Clear(x)' <=> Clear(x)
    BY <1>2, ClearStays DEF Still
  <2>4. db' = db
    <3>1. ASSUME Begin \/ Stopped \/ Rests PROVE db' = db
      BY <2>1, <3>1 DEF Begin, vars, Stopped, Rests
    <3> QED BY <1>2, <2>1, <2>2, <3>1, SettledIsIdle
  <2>5. saved' \in {saved, db, db'}
    BY <1>2 DEF Begin, Create, LoadPlugins, CheckFile, CheckDone, Import, WalkFile,
                WalkDirectory, WalkReturn, Stopped, Rests
  <2>6. stage' \notin {"off", "live"} => before' = db
    <3>1. CASE Begin
      BY <3>1 DEF Begin
    <3>2. CASE Stopped
      BY <3>2 DEF Stopped
    <3>3. CASE Rests
      BY <2>1, <3>3 DEF Rests
    <3>4. CASE \/ Create \/ LoadPlugins \/ CheckFile \/ CheckDone \/ Import
               \/ WalkFile \/ WalkDirectory \/ WalkReturn
      <4>1. stage \notin {"off", "live"} /\ before' = before
        BY <3>4 DEF Create, LoadPlugins, CheckFile, CheckTurn, CheckDone, CheckedTurn, Import,
                    ImportTurn, WalkFile, FileTurn, WalkDirectory, DirectoryTurn, WalkReturn,
                    ReturnTurn, found
      <4> QED BY <2>1, <4>1
    <3> QED BY <1>2, <3>1, <3>2, <3>3, <3>4
  <2> QED BY <2>1, <2>3, <2>4, <2>5, <2>6
<1> QED BY <1>1, <1>2, QuietSteps

(* When two starts have ended with nothing between them, and every file    *)
(* that is listed can be opened, a third leaves the tables as they are:    *)
(* every tag it would make is there, or there is no id for it, and it      *)
(* knows again whatever it made itself.                                    *)
THEOREM RestartsSettle == Program => []RestartChangesNothing
<1> DEFINE Quiet == SavedInv /\ SteadyInv /\ ArrivedInv /\ OnceInv /\ TwiceInv
           Reads == FramesInv /\ GoneInv /\ CoverInv
<1>1. ProgramInit => Reads /\ Quiet
  <2> SUFFICES ASSUME ProgramInit PROVE Reads /\ Quiet
    OBVIOUS
  <2>1. Len(walk) = 0 /\ 1..0 = {}
    BY EmptySeq DEF ProgramInit
  <2>2. FramesInv /\ GoneInv /\ CoverInv
    BY <2>1 DEF FramesInv, GoneInv, CoverInv, ProgramInit
  <2>3. SavedInv /\ SteadyInv /\ ArrivedInv /\ OnceInv /\ TwiceInv
    BY DEF ProgramInit, Init, SavedInv, SteadyInv, ArrivedInv, OnceInv, TwiceInv
  <2> QED BY <2>2, <2>3
<1>2. StartInv /\ StartInv' /\ Reads /\ Quiet /\ [ProgramNext]_programVars => Reads' /\ Quiet'
  BY FramesKeep, GoneKeeps, CoverKeeps, SavedKeeps, SteadyKeeps, ArrivedKeeps, OnceKeeps, TwiceKeeps
<1>3. Quiet => RestartChangesNothing
  BY DEF TwiceInv, Readable, Present, Openable, RestartChangesNothing
<1> HIDE DEF Quiet, Reads
<1> QED BY <1>1, <1>2, <1>3, ProgramAlways, PTL DEF Program

=============================================================================
