-------------------------- MODULE KwestPluginsProofs --------------------------
(***************************************************************************)
(* What the plugins do to the database is a sequence of calls that keep it *)
(* sound, whatever the metadata of a file says.                            *)
(***************************************************************************)
EXTENDS KwestPlugins, KwestTablesProofs

(* analyze_tag answers a class that add_tag knows.                         *)
LEMMA AnalyzedType ==
  ASSUME NEW value, NEW kind
  PROVE  analyze_tag(value, kind).type \in TagTypes
BY DEF analyze_tag, TagTypes

(* Tagging a file with one piece of its metadata only adds to the tables.  *)
LEMMA FileMetadataAdds ==
  ASSUME NEW d, Sound(d), NEW P, NEW mime \in TagNames, NEW value, NEW n \in FileNames,
         analyze_tag(value, mime).name \in TagNames
  PROVE  Adds(d, associate_file_metadata(d, mime, value, n), P)
<1> DEFINE t == analyze_tag(value, mime)
           e == add_tag(d, t.name, t.type).db
           f == add_association(e, t.name, mime, ASSOC_SUBGROUP).db
<1>1. t.name \in TagNames /\ t.type \in TagTypes
  BY AnalyzedType
<1>2. associate_file_metadata(d, mime, value, n) = tag_file(f, t.name, n).db
  BY DEF associate_file_metadata
<1> HIDE DEF t
<1>3. Adds(d, e, P)
  BY <1>1, AddTagAdds
<1> HIDE DEF e
<1>4. Adds(e, f, P)
  BY <1>1, <1>3, AddAssociationAdds, SubgroupAssumption, AddsSound
<1> HIDE DEF f
<1>5. Adds(f, tag_file(f, t.name, n).db, P)
  BY <1>1, <1>4, TagFileAdds, AddsSound
<1> QED BY <1>2, <1>3, <1>4, <1>5, AddsOn

LEMMA FileMetadataSound ==
  ASSUME NEW d, Sound(d), NEW mime \in TagNames, NEW value, NEW n \in FileNames,
         analyze_tag(value, mime).name \in TagNames
  PROVE  Sound(associate_file_metadata(d, mime, value, n))
<1>1. Adds(d, associate_file_metadata(d, mime, value, n), {})
  BY FileMetadataAdds
<1> QED BY <1>1 DEF Adds

(* So does relating two pieces of metadata.                                *)
LEMMA TagMetadataAdds ==
  ASSUME NEW d, Sound(d), NEW P, NEW mime \in TagNames, NEW value, NEW parentmime, NEW parent,
         analyze_tag(value, mime).name \in TagNames,
         analyze_tag(parent, parentmime).name \in TagNames
  PROVE  Adds(d, associate_tag_metadata(d, mime, value, parentmime, parent), P)
<1> DEFINE t == analyze_tag(value, mime)
           u == analyze_tag(parent, parentmime)
           e == add_tag(d, t.name, t.type).db
           f == add_association(e, t.name, mime, ASSOC_SUBGROUP).db
<1>1. t.name \in TagNames /\ t.type \in TagTypes /\ u.name \in TagNames
  BY AnalyzedType
<1>2. associate_tag_metadata(d, mime, value, parentmime, parent)
        = add_association(f, u.name, t.name, ASSOC_SUBGROUP).db
  BY DEF associate_tag_metadata
<1> HIDE DEF t, u
<1>3. Adds(d, e, P)
  BY <1>1, AddTagAdds
<1> HIDE DEF e
<1>4. Adds(e, f, P)
  BY <1>1, <1>3, AddAssociationAdds, SubgroupAssumption, AddsSound
<1> HIDE DEF f
<1>5. Adds(f, add_association(f, u.name, t.name, ASSOC_SUBGROUP).db, P)
  BY <1>1, <1>4, AddAssociationAdds, SubgroupAssumption, AddsSound
<1> QED BY <1>2, <1>3, <1>4, <1>5, AddsOn

LEMMA TagMetadataSound ==
  ASSUME NEW d, Sound(d), NEW mime \in TagNames, NEW value, NEW parentmime, NEW parent,
         analyze_tag(value, mime).name \in TagNames,
         analyze_tag(parent, parentmime).name \in TagNames
  PROVE  Sound(associate_tag_metadata(d, mime, value, parentmime, parent))
<1>1. Adds(d, associate_tag_metadata(d, mime, value, parentmime, parent), {})
  BY TagMetadataAdds
<1> QED BY <1>1 DEF Adds

(* And all the metadata of a file, one plugin at a time.                   *)
LEMMA MetadataFileAdds ==
  ASSUME NEW d, Sound(d), NEW P, NEW p \in AbsPaths
  PROVE  Adds(d, add_metadata_file(d, Metadata[p], BaseName[p]), P)
<1> DEFINE m == Metadata[p]
           n == BaseName[p]
<1>1. n \in FileNames
  BY DEF FileNames
<1>2. KindsRead(m) \subseteq TagNames /\ ValuesRead(m) \subseteq TagNames
  BY MetadataAssumption DEF DescribedBy
<1> HIDE DEF m, n
<1>3. CASE m.type = TAG_AUDIO
  <2> DEFINE a == associate_file_metadata(d, TAG_ALBUM, m.album, n)
             b == associate_tag_metadata(a, TAG_ARTIST, m.artist, TAG_ALBUM, m.album)
  <2>1. /\ {TAG_ALBUM, TAG_ARTIST, TAG_GENRE} \subseteq TagNames
        /\ analyze_tag(m.album, TAG_ALBUM).name \in TagNames
        /\ analyze_tag(m.artist, TAG_ARTIST).name \in TagNames
        /\ analyze_tag(m.genre, TAG_GENRE).name \in TagNames
    BY <1>2, <1>3 DEF KindsRead, ValuesRead, TAG_AUDIO, TAG_PDF, TAG_IMAGE, TAG_VIDEO
  <2>2. Adds(d, a, P)
    BY <1>1, <2>1, FileMetadataAdds
  <2> HIDE DEF a
  <2>3. Adds(a, b, P)
    BY <2>1, <2>2, TagMetadataAdds, AddsSound
  <2> HIDE DEF b
  <2>4. Adds(b, associate_tag_metadata(b, TAG_GENRE, m.genre, TAG_ARTIST, m.artist), P)
    BY <2>1, <2>3, TagMetadataAdds, AddsSound
  <2>5. cleanup_audio(d, m, n)
          = associate_tag_metadata(b, TAG_GENRE, m.genre, TAG_ARTIST, m.artist)
    BY DEF cleanup_audio, a, b
  <2>6. add_metadata_file(d, m, n) = cleanup_audio(d, m, n)
    BY <1>3 DEF add_metadata_file, TAG_AUDIO, TAG_PDF, TAG_IMAGE, TAG_VIDEO
  <2> QED BY <2>2, <2>3, <2>4, <2>5, <2>6, AddsOn DEF m, n
<1>4. CASE m.type = TAG_PDF
  <2> DEFINE a == associate_file_metadata(d, TAG_PDF_TITLE, m.title, n)
             b == associate_file_metadata(a, TAG_PDF_SUBJECT, m.subject, n)
             c == associate_file_metadata(b, TAG_PDF_AUTHOR, m.author, n)
  <2>1. /\ {TAG_PDF_TITLE, TAG_PDF_SUBJECT, TAG_PDF_AUTHOR, TAG_PDF_PUBLISHER} \subseteq TagNames
        /\ analyze_tag(m.title, TAG_PDF_TITLE).name \in TagNames
        /\ analyze_tag(m.subject, TAG_PDF_SUBJECT).name \in TagNames
        /\ analyze_tag(m.author, TAG_PDF_AUTHOR).name \in TagNames
        /\ analyze_tag(m.publisher, TAG_PDF_PUBLISHER).name \in TagNames
    BY <1>2, <1>4 DEF KindsRead, ValuesRead, TAG_AUDIO, TAG_PDF, TAG_IMAGE, TAG_VIDEO
  <2>2. Adds(d, a, P)
    BY <1>1, <2>1, FileMetadataAdds
  <2> HIDE DEF a
  <2>3. Adds(a, b, P)
    BY <1>1, <2>1, <2>2, FileMetadataAdds, AddsSound
  <2> HIDE DEF b
  <2>4. Adds(b, c, P)
    BY <1>1, <2>1, <2>3, FileMetadataAdds, AddsSound
  <2> HIDE DEF c
  <2>5. Adds(c, associate_file_metadata(c, TAG_PDF_PUBLISHER, m.publisher, n), P)
    BY <1>1, <2>1, <2>4, FileMetadataAdds, AddsSound
  <2>6. cleanup_pdf(d, m, n) = associate_file_metadata(c, TAG_PDF_PUBLISHER, m.publisher, n)
    BY DEF cleanup_pdf, a, b, c
  <2>7. add_metadata_file(d, m, n) = cleanup_pdf(d, m, n)
    BY <1>4 DEF add_metadata_file, TAG_AUDIO, TAG_PDF, TAG_IMAGE, TAG_VIDEO
  <2> QED BY <2>2, <2>3, <2>4, <2>5, <2>6, <2>7, AddsOn DEF m, n
<1>5. CASE m.type = TAG_IMAGE
  <2> DEFINE a == associate_file_metadata(d, TAG_IMAGE_DATE, m.date, n)
  <2>1. /\ {TAG_IMAGE_DATE, TAG_IMAGE_CREATOR} \subseteq TagNames
        /\ analyze_tag(m.date, TAG_IMAGE_DATE).name \in TagNames
        /\ analyze_tag(m.creator, TAG_IMAGE_CREATOR).name \in TagNames
    BY <1>2, <1>5 DEF KindsRead, ValuesRead, TAG_AUDIO, TAG_PDF, TAG_IMAGE, TAG_VIDEO
  <2>2. Adds(d, a, P)
    BY <1>1, <2>1, FileMetadataAdds
  <2> HIDE DEF a
  <2>3. Adds(a, associate_tag_metadata(a, TAG_IMAGE_CREATOR, m.creator, TAG_IMAGE_DATE, m.date), P)
    BY <2>1, <2>2, TagMetadataAdds, AddsSound
  <2>4. cleanup_image(d, m, n)
          = associate_tag_metadata(a, TAG_IMAGE_CREATOR, m.creator, TAG_IMAGE_DATE, m.date)
    BY DEF cleanup_image, a
  <2>5. add_metadata_file(d, m, n) = cleanup_image(d, m, n)
    BY <1>5 DEF add_metadata_file, TAG_AUDIO, TAG_PDF, TAG_IMAGE, TAG_VIDEO
  <2> QED BY <2>2, <2>3, <2>4, <2>5, AddsOn DEF m, n
<1>6. CASE m.type = TAG_VIDEO
  <2>1. TAG_VIDEO_LENGTH \in TagNames /\ analyze_tag(m.length, TAG_VIDEO_LENGTH).name \in TagNames
    BY <1>2, <1>6 DEF KindsRead, ValuesRead, TAG_AUDIO, TAG_PDF, TAG_IMAGE, TAG_VIDEO
  <2>2. Adds(d, associate_file_metadata(d, TAG_VIDEO_LENGTH, m.length, n), P)
    BY <1>1, <2>1, FileMetadataAdds
  <2> QED
    BY <1>6, <2>2
    DEF add_metadata_file, cleanup_video, TAG_AUDIO, TAG_PDF, TAG_IMAGE, TAG_VIDEO, m, n
<1>7. CASE m.type \notin {TAG_AUDIO, TAG_PDF, TAG_IMAGE, TAG_VIDEO}
  BY <1>7, AddsNothing DEF add_metadata_file, TAG_AUDIO, TAG_PDF, TAG_IMAGE, TAG_VIDEO, m, n
<1> QED BY <1>3, <1>4, <1>5, <1>6, <1>7

(* So add_file only adds, and no file but its own.                         *)
LEMMA AddFileAdds ==
  ASSUME NEW d, Sound(d), NEW P, NEW p \in P, p \in AbsPaths
  PROVE  Adds(d, add_file(d, p).db, P)
<1> DEFINE row == add_file_row(d, p)
           e   == add_metadata_file(row.db, Metadata[p], BaseName[p])
<1>1. Adds(d, row.db, P)
  BY AddFileRowAdds
<1>2. add_file(d, p) = IF row.code # KW_SUCCESS THEN row ELSE Return(e, KW_SUCCESS)
  BY DEF add_file
<1> HIDE DEF row
<1>3. Adds(row.db, e, P)
  BY <1>1, MetadataFileAdds, AddsSound
<1>4. Adds(d, e, P)
  BY <1>1, <1>3, AddsOn
<1> HIDE DEF e
<1> QED BY <1>1, <1>2, <1>4 DEF Return

LEMMA AddFileSound ==
  ASSUME NEW d, Sound(d), NEW p \in AbsPaths
  PROVE  Sound(add_file(d, p).db) /\ add_file(d, p).code \in Codes
<1>1. Adds(d, add_file(d, p).db, {p})
  BY AddFileAdds
<1>2. add_file_row(d, p).code \in Codes
  BY AddFileRowSound
<1>3. add_file(d, p).code \in Codes
  BY <1>2 DEF add_file, Return, Codes
<1> QED BY <1>1, <1>3 DEF Adds

=============================================================================
