----------------------------- MODULE KwestPlugins -----------------------------
(***************************************************************************)
(* What the extraction plugins put in the database: the tags a plugin      *)
(* enters when it is loaded, and those it creates for the metadata of a    *)
(* file while add_file runs.  The extraction itself (taglib, pdfinfo,      *)
(* extract) is external: the constant Metadata says what it finds.         *)
(***************************************************************************)
EXTENDS KwestTables, Sequences

CONSTANTS
  Metadata,  \* [AbsPaths -> what the first plugin that knows the file reads]
  NoValue    \* a missing or empty value, or one that contains "Unknown"

TAG_ROOT   == "Root"
TAG_FILES  == "Files"
TAG_AUDIO  == "Audio"
TAG_ALBUM  == "Album"
TAG_ARTIST == "Artist"
TAG_GENRE  == "Genre"
TAG_PDF    == "PDF"
TAG_PDF_TITLE     == "Title"
TAG_PDF_SUBJECT   == "Subject"
TAG_PDF_AUTHOR    == "Author"
TAG_PDF_PUBLISHER == "Publisher"
TAG_IMAGE         == "Image"
TAG_IMAGE_CREATOR == "ImageCreator"
TAG_IMAGE_DATE    == "ImageDate"
TAG_VIDEO         == "Video"
TAG_VIDEO_LENGTH  == "VideoLength"

(* A file no plugin knows.                                                 *)
NoMetadata == [type |-> "none"]

-----------------------------------------------------------------------------
(* dbplugin.c: the tags of a plugin.                                       *)

add_mime_type(db, mime) ==
  LET d == add_tag(db, mime, SYSTEM_TAG).db
  IN add_association(d, mime, TAG_ROOT, ASSOC_SUBGROUP).db

(* The row of MetaInfo is left out: only add_meta_info itself reads it.    *)
add_metadata_type(db, mime, metadata) ==
  LET d == add_tag(db, metadata, SYSTEM_TAG).db
  IN add_association(d, metadata, mime, ASSOC_SUBGROUP).db

(* The on_load callbacks of the three plugins, in the order main adds them.*)
load_taglib(db) ==
  LET d == add_mime_type(db, TAG_AUDIO)
      e == add_metadata_type(d, TAG_AUDIO, TAG_ARTIST)
      f == add_metadata_type(e, TAG_AUDIO, TAG_ALBUM)
  IN add_metadata_type(f, TAG_AUDIO, TAG_GENRE)

load_pdfinfo(db) ==
  LET d == add_mime_type(db, TAG_PDF)
      e == add_metadata_type(d, TAG_PDF, TAG_PDF_TITLE)
      f == add_metadata_type(e, TAG_PDF, TAG_PDF_SUBJECT)
      g == add_metadata_type(f, TAG_PDF, TAG_PDF_AUTHOR)
  IN add_metadata_type(g, TAG_PDF, TAG_PDF_PUBLISHER)

load_libextractor(db) ==
  LET d == add_mime_type(db, TAG_IMAGE)
      e == add_metadata_type(d, TAG_IMAGE, TAG_IMAGE_CREATOR)
      f == add_metadata_type(e, TAG_IMAGE, TAG_IMAGE_DATE)
      g == add_mime_type(f, TAG_VIDEO)
  IN add_metadata_type(g, TAG_VIDEO, TAG_VIDEO_LENGTH)

-----------------------------------------------------------------------------
(* dbplugin.c: the tags of a file.                                         *)

(* A value that is missing, or only repeats its kind, becomes a tag of the *)
(* system, "Unknown <kind>"; any other value is itself the tag.            *)
analyze_tag(value, kind) ==
  IF value \in {NoValue, kind}
  THEN [name |-> "Unknown " \o kind, type |-> SYSTEM_TAG]
  ELSE [name |-> value, type |-> USER_TAG]

associate_file_metadata(db, mime, value, fname) ==
  LET t == analyze_tag(value, mime)
      d == add_tag(db, t.name, t.type).db
      e == add_association(d, t.name, mime, ASSOC_SUBGROUP).db
  IN tag_file(e, t.name, fname).db

associate_tag_metadata(db, mime, value, parentmime, parent) ==
  LET t == analyze_tag(value, mime)
      d == add_tag(db, t.name, t.type).db
      e == add_association(d, t.name, mime, ASSOC_SUBGROUP).db
  IN add_association(e, analyze_tag(parent, parentmime).name, t.name, ASSOC_SUBGROUP).db

(* The do_cleanup callbacks: albums hold the file, artists hold albums and *)
(* genres hold artists; and so on for the other kinds of file.             *)
cleanup_audio(db, m, fname) ==
  LET d == associate_file_metadata(db, TAG_ALBUM, m.album, fname)
      e == associate_tag_metadata(d, TAG_ARTIST, m.artist, TAG_ALBUM, m.album)
  IN associate_tag_metadata(e, TAG_GENRE, m.genre, TAG_ARTIST, m.artist)

cleanup_pdf(db, m, fname) ==
  LET d == associate_file_metadata(db, TAG_PDF_TITLE, m.title, fname)
      e == associate_file_metadata(d, TAG_PDF_SUBJECT, m.subject, fname)
      f == associate_file_metadata(e, TAG_PDF_AUTHOR, m.author, fname)
  IN associate_file_metadata(f, TAG_PDF_PUBLISHER, m.publisher, fname)

cleanup_image(db, m, fname) ==
  LET d == associate_file_metadata(db, TAG_IMAGE_DATE, m.date, fname)
  IN associate_tag_metadata(d, TAG_IMAGE_CREATOR, m.creator, TAG_IMAGE_DATE, m.date)

cleanup_video(db, m, fname) ==
  associate_file_metadata(db, TAG_VIDEO_LENGTH, m.length, fname)

(* add_metadata_file in dbbasic.c.                                         *)
add_metadata_file(db, m, fname) ==
  CASE m.type = TAG_AUDIO -> cleanup_audio(db, m, fname)
    [] m.type = TAG_PDF   -> cleanup_pdf(db, m, fname)
    [] m.type = TAG_IMAGE -> cleanup_image(db, m, fname)
    [] m.type = TAG_VIDEO -> cleanup_video(db, m, fname)
    [] OTHER              -> db

(* add_file in dbbasic.c: what the plugin does cannot make it fail.        *)
add_file(db, p) ==
  LET row == add_file_row(db, p) IN
  IF row.code # KW_SUCCESS THEN row
  ELSE Return(add_metadata_file(row.db, Metadata[p], BaseName[p]), KW_SUCCESS)

-----------------------------------------------------------------------------
(* The names the metadata of a file is about.                              *)

KindsRead(m) ==
  CASE m.type = TAG_AUDIO -> {TAG_ALBUM, TAG_ARTIST, TAG_GENRE}
    [] m.type = TAG_PDF   -> {TAG_PDF_TITLE, TAG_PDF_SUBJECT, TAG_PDF_AUTHOR,
                              TAG_PDF_PUBLISHER}
    [] m.type = TAG_IMAGE -> {TAG_IMAGE_DATE, TAG_IMAGE_CREATOR}
    [] m.type = TAG_VIDEO -> {TAG_VIDEO_LENGTH}
    [] OTHER              -> {}

ValuesRead(m) ==
  CASE m.type = TAG_AUDIO ->
         {analyze_tag(m.album, TAG_ALBUM).name, analyze_tag(m.artist, TAG_ARTIST).name,
          analyze_tag(m.genre, TAG_GENRE).name}
    [] m.type = TAG_PDF ->
         {analyze_tag(m.title, TAG_PDF_TITLE).name, analyze_tag(m.subject, TAG_PDF_SUBJECT).name,
          analyze_tag(m.author, TAG_PDF_AUTHOR).name,
          analyze_tag(m.publisher, TAG_PDF_PUBLISHER).name}
    [] m.type = TAG_IMAGE ->
         {analyze_tag(m.date, TAG_IMAGE_DATE).name, analyze_tag(m.creator, TAG_IMAGE_CREATOR).name}
    [] m.type = TAG_VIDEO -> {analyze_tag(m.length, TAG_VIDEO_LENGTH).name}
    [] OTHER -> {}

DescribedBy(p) == KindsRead(Metadata[p]) \cup ValuesRead(Metadata[p])

ASSUME MetadataAssumption == \A p \in AbsPaths : DescribedBy(p) \subseteq TagNames
ASSUME SubgroupAssumption == ASSOC_SUBGROUP \in AssocIds

=============================================================================
