--------------------------- MODULE KwestStoreProofs ---------------------------
(***************************************************************************)
(* Theorems about the tag store, for every size of its tables.  The        *)
(* inductive invariant is Sound: none of its parts is inductive alone,     *)
(* since a lookup by name finds the right row only while names are unique, *)
(* and a removal clears the right rows only if the lookup does.            *)
(***************************************************************************)
EXTENDS KwestStore, KwestPluginsProofs

Inv == Sound(db) /\ code \in Codes

(* The empty tables of a first run are sound.                              *)
LEMMA InitSound == Init => Inv
<1>1. EmptyDb \in Databases
  BY DEF EmptyDb, Databases, TagTable, FileTable, FileAssociationTable, TagAssociationTable
<1>2. UniqueNamesOf(EmptyDb)
  BY DEF EmptyDb, UniqueNamesOf
<1>3. NoDanglingRowsOf(EmptyDb)
  BY DEF EmptyDb, NoDanglingRowsOf
<1>4. NoDuplicateRowsOf(EmptyDb)
  BY DEF EmptyDb, NoDuplicateRowsOf
<1> QED BY <1>1, <1>2, <1>3, <1>4 DEF Init, Inv, Sound, Codes

(* Every call keeps the tables sound.                                      *)
LEMMA NextSound == Inv /\ [Next]_vars => Inv'
<1> SUFFICES ASSUME Inv, [Next]_vars PROVE Inv'
  OBVIOUS
<1>1. ASSUME NEW n \in TagNames, NEW type \in TagTypes, AddTag(n, type) PROVE Inv'
  BY <1>1, AddTagSound DEF Inv, AddTag, Call
<1>2. ASSUME NEW n \in TagNames, RemoveTag(n) PROVE Inv'
  BY <1>2, RemoveTagSound DEF Inv, RemoveTag, Call
<1>3. ASSUME NEW p \in AbsPaths, AddFile(p) PROVE Inv'
  BY <1>3, AddFileSound DEF Inv, AddFile, Call
<1>4. ASSUME NEW n \in FileNames, RemoveFile(n) PROVE Inv'
  BY <1>4, RemoveFileSound DEF Inv, RemoveFile, Call
<1>5. ASSUME NEW t \in TagNames, NEW n \in FileNames, TagFile(t, n) PROVE Inv'
  BY <1>5, TagFileSound DEF Inv, TagFile, Call
<1>6. ASSUME NEW t \in TagNames, NEW n \in FileNames, UntagFile(t, n) PROVE Inv'
  BY <1>6, UntagFileSound DEF Inv, UntagFile, Call
<1>7. ASSUME NEW m \in TagNames, NEW n \in TagNames, NEW id \in AssocIds,
             AddAssociation(m, n, id)
      PROVE  Inv'
  BY <1>7, AddAssociationSound DEF Inv, AddAssociation, Call
<1>8. ASSUME NEW m \in TagNames, NEW n \in TagNames, NEW id \in AssocIds,
             RemoveAssociation(m, n, id)
      PROVE  Inv'
  BY <1>8, RemoveAssociationSound DEF Inv, RemoveAssociation, Call
<1>9. CASE UNCHANGED vars
  BY <1>9 DEF Inv, vars
<1> QED
  BY <1>1, <1>2, <1>3, <1>4, <1>5, <1>6, <1>7, <1>8, <1>9 DEF Next

(* The invariant holds in every state of every run.                        *)
LEMMA AlwaysSound == Spec => []Inv
<1> QED BY InitSound, NextSound, PTL DEF Spec

(* The tables keep their shape and every call answers a return code.       *)
THEOREM TypeCorrect == Spec => []TypeOK
<1>1. Inv => TypeOK
  BY DEF Inv, Sound, TypeOK
<1> QED BY <1>1, AlwaysSound, PTL

(* No sequence of calls makes two tags or two files of one name.           *)
THEOREM NamesStayUnique == Spec => []UniqueNames
<1>1. Inv => UniqueNames
  BY DEF Inv, Sound, UniqueNames
<1> QED BY <1>1, AlwaysSound, PTL

(* No sequence of calls leaves a row that mentions a removed tag or file,  *)
(* so an id used again starts without files and relations.                 *)
THEOREM RowsNeverDangle == Spec => []NoDanglingRows
<1>1. Inv => NoDanglingRows
  BY DEF Inv, Sound, NoDanglingRows
<1> QED BY <1>1, AlwaysSound, PTL

(* No sequence of calls puts a file under a tag twice or relates two tags  *)
(* twice.                                                                  *)
THEOREM RowsNeverDouble == Spec => []NoDuplicateRows
<1>1. Inv => NoDuplicateRows
  BY DEF Inv, Sound, NoDuplicateRows
<1> QED BY <1>1, AlwaysSound, PTL

(* However many tags come and go, an insert fails only when the id after   *)
(* the largest of its class is outside the class: the three classes share  *)
(* one primary key and never meet an id of another.                        *)
THEOREM InsertFailsAtRangeEnd == Spec => FailsOnlyAtRangeEnd
<1>1. ASSUME Inv
      PROVE  \A n \in TagNames, type \in TagTypes :
               AddTag(n, type) /\ code' = KW_FAIL
                 => set_tag_id(db, n, type) \notin IdsOf(type)
  <2>1. SUFFICES ASSUME NEW n \in TagNames, NEW type \in TagTypes,
                        AddTag(n, type), code' = KW_FAIL
                 PROVE  set_tag_id(db, n, type) \notin IdsOf(type)
    OBVIOUS
  <2>2. add_tag(db, n, type).code = KW_FAIL
    BY <2>1 DEF AddTag, Call
  <2> QED
    BY <1>1, <2>2, AddTagEffect DEF Inv, Return, KW_SUCCESS, KW_FAIL, KW_ERROR
<1>2. Inv /\ [Next]_vars
        => [\A n \in TagNames, type \in TagTypes :
              AddTag(n, type) /\ code' = KW_FAIL
                => set_tag_id(db, n, type) \notin IdsOf(type)]_vars
  BY <1>1
<1> QED BY <1>2, AlwaysSound, PTL DEF Spec, FailsOnlyAtRangeEnd

-----------------------------------------------------------------------------
(* The tables implement the store of names.  The mapping forgets the ids;  *)
(* what has to be shown is that a call which looks rows up by name changes *)
(* exactly what the store of names says, and for that a name must stand    *)
(* for one row (Sound).                                                    *)

-----------------------------------------------------------------------------
(* What a file's metadata adds.                                            *)

(* d became e by adding tags of N, relations between them, and tags of N   *)
(* to the file n.                                                          *)
Grows(d, e, N, n) ==
  /\ PathsOf(e) = PathsOf(d)
  /\ TagsOf(d) \subseteq TagsOf(e) /\ TagsOf(e) \subseteq TagsOf(d) \cup N
  /\ TaggedOf(d) \subseteq TaggedOf(e)
  /\ TaggedOf(e) \subseteq TaggedOf(d) \cup N \X {n}
  /\ BelowOf(d) \subseteq BelowOf(e)
  /\ BelowOf(e) \subseteq BelowOf(d) \cup N \X N \X AssocIds

(* Growing twice is growing.                                               *)
LEMMA GrowsTwice ==
  ASSUME NEW d, NEW e, NEW f, NEW N, NEW n, Grows(d, e, N, n), Grows(e, f, N, n)
  PROVE  Grows(d, f, N, n)
BY DEF Grows

(* add_tag adds at most its tag.                                           *)
LEMMA AddTagGrows ==
  ASSUME NEW d, Sound(d), NEW m \in TagNames, NEW type \in TagTypes, NEW N, m \in N, NEW n
  PROVE  Grows(d, add_tag(d, m, type).db, N, n)
<1>1. CASE add_tag(d, m, type).db = d
  BY <1>1 DEF Grows
<1>2. ASSUME NEW t \in TagIds, d.tags[t] = NoRow,
             add_tag(d, m, type).db = [d EXCEPT !.tags[t] = m]
      PROVE  Grows(d, add_tag(d, m, type).db, N, n)
  BY <1>2, NewTagRowView DEF Grows
<1> QED BY <1>1, <1>2, AddTagEffect DEF Return

(* tag_file adds at most its pair.                                         *)
LEMMA TagFileGrows ==
  ASSUME NEW d, Sound(d), NEW t \in TagNames, NEW n \in FileNames, NEW N, t \in N
  PROVE  Grows(d, tag_file(d, t, n).db, N, n)
<1> DEFINE u == get_tag_id(d, t)
           f == get_file_id(d, n)
<1>1. CASE f = KW_FAIL \/ u = KW_FAIL \/ d.fileAssoc[u][f] > 0
  BY <1>1 DEF tag_file, Return, Grows
<1>2. CASE ~(f = KW_FAIL \/ u = KW_FAIL \/ d.fileAssoc[u][f] > 0)
  <2>1. tag_file(d, t, n).db = [d EXCEPT !.fileAssoc[u][f] = @ + 1]
    BY <1>2 DEF tag_file, Return
  <2>2. TaggedOf(tag_file(d, t, n).db) = TaggedOf(d) \cup {<<t, n>>}
    BY <1>2, <2>1, NewFileAssocView
  <2>3. /\ TagsOf(tag_file(d, t, n).db) = TagsOf(d)
        /\ PathsOf(tag_file(d, t, n).db) = PathsOf(d)
        /\ BelowOf(tag_file(d, t, n).db) = BelowOf(d)
    BY <1>2, <2>1, NewFileAssocView
  <2> QED BY <2>2, <2>3 DEF Grows
<1> QED BY <1>1, <1>2

(* add_association adds at most its relation.                              *)
LEMMA AddAssociationGrows ==
  ASSUME NEW d, Sound(d), NEW m \in TagNames, NEW k \in TagNames, NEW id \in AssocIds,
         NEW N, m \in N, k \in N, NEW n
  PROVE  Grows(d, add_association(d, m, k, id).db, N, n)
<1> DEFINE t == get_tag_id(d, m)
           u == get_tag_id(d, k)
           e == add_association(d, m, k, id).db
<1>1. CASE t = KW_FAIL \/ u = KW_FAIL \/ get_association(d, m, k) # KW_FAIL
  BY <1>1 DEF add_association, Return, Grows
<1>2. CASE ~(t = KW_FAIL \/ u = KW_FAIL \/ get_association(d, m, k) # KW_FAIL)
  <2>1. e = [d EXCEPT !.tagAssoc[t][u][id] = @ + 1]
    BY <1>2 DEF add_association, Return, is_association_type, KW_FAIL
  <2>2. /\ TagsOf(e) = TagsOf(d) /\ PathsOf(e) = PathsOf(d) /\ TaggedOf(e) = TaggedOf(d)
        /\ BelowOf(e) = BelowOf(d) \cup {<<m, k, id>>}
    BY <1>2, <2>1, NewTagAssocView
  <2> HIDE DEF e
  <2>3. Grows(d, e, N, n)
    BY <2>2 DEF Grows
  <2> QED BY <2>3 DEF e
<1> QED BY <1>1, <1>2

-----------------------------------------------------------------------------
(* Each call does to the names what the store of names says.               *)

(* add_tag.                                                                *)
LEMMA AddTagRefines ==
  ASSUME Inv, NEW n \in TagNames, NEW type \in TagTypes, AddTag(n, type)
  PROVE  TagStore!AddTag(n)
<1> USE DEF Call, AddTag, Return
<1>1. n \in TagsOf(db) <=> get_tag_id(db, n) # KW_FAIL
  BY TagView DEF Inv
<1>2. CASE add_tag(db, n, type) = Return(db, KW_ERROR) /\ get_tag_id(db, n) # KW_FAIL
  BY <1>1, <1>2 DEF TagStore!AddTag, TagStore!TagAdded, TagStore!Refuse, TagStore!Error, KW_ERROR
<1>3. CASE add_tag(db, n, type) = Return(db, KW_FAIL) /\ get_tag_id(db, n) = KW_FAIL
  BY <1>1, <1>3 DEF TagStore!AddTag, TagStore!TagAdded, TagStore!Refuse, TagStore!Failure, KW_FAIL
<1>4. ASSUME NEW t \in TagIds, db.tags[t] = NoRow, get_tag_id(db, n) = KW_FAIL,
             add_tag(db, n, type) = Return([db EXCEPT !.tags[t] = n], KW_SUCCESS)
      PROVE  TagStore!AddTag(n)
  <2>1. db' = [db EXCEPT !.tags[t] = n] /\ code' = KW_SUCCESS
    BY <1>4
  <2>2. /\ TagsOf(db') = TagsOf(db) \cup {n} /\ PathsOf(db') = PathsOf(db)
        /\ TaggedOf(db') = TaggedOf(db) /\ BelowOf(db') = BelowOf(db)
    BY <1>4, <2>1, NewTagRowView DEF Inv
  <2> QED
    BY <1>1, <1>4, <2>1, <2>2 DEF TagStore!AddTag, TagStore!TagAdded, TagStore!Success, KW_SUCCESS
<1> QED
  BY <1>2, <1>3, <1>4, AddTagEffect DEF Inv

(* remove_tag.                                                             *)
LEMMA RemoveTagRefines ==
  ASSUME Inv, NEW n \in TagNames, RemoveTag(n)
  PROVE  TagStore!RemoveTag(n)
<1> DEFINE t == get_tag_id(db, n)
<1>1. n \in TagsOf(db) <=> t # KW_FAIL
  BY TagView DEF Inv
<1>2. CASE t = KW_FAIL
  BY <1>1, <1>2 DEF RemoveTag, Call, remove_tag, Return,
                    TagStore!RemoveTag, TagStore!Refuse, TagStore!Error, KW_ERROR
<1>3. CASE t # KW_FAIL
  <2>1. t \in TagIds /\ \A u \in TagIds : db.tags[u] = n <=> u = t
    BY <1>3, TagView, TagIdFound DEF Inv, Sound
  <2>2. db' = WithoutTag(db, t) /\ code' = KW_SUCCESS
    BY <1>3 DEF RemoveTag, Call, remove_tag, Return
  <2> HIDE DEF t
  <2>3. /\ db'.files = db.files
        /\ \A u \in TagIds : db'.tags[u] = IF u = t THEN NoRow ELSE db.tags[u]
        /\ \A u \in TagIds, f \in FileIds :
              db'.fileAssoc[u][f] = IF u = t THEN 0 ELSE db.fileAssoc[u][f]
        /\ \A u, v \in TagIds, a \in AssocIds :
              db'.tagAssoc[u][v][a] = IF u = t \/ v = t THEN 0 ELSE db.tagAssoc[u][v][a]
    BY <2>2 DEF WithoutTag, Inv, Sound, Databases, TagTable
  <2>4. TagsOf(db') = TagsOf(db) \ {n}
    BY <2>1, <2>3, NoRowAssumption DEF TagsOf
  <2>5. PathsOf(db') = PathsOf(db)
    BY <2>3 DEF PathsOf
  <2>6. TaggedOf(db') = {r \in TaggedOf(db) : r[1] # n}
    BY <2>1, <2>3 DEF TaggedOf
  <2>7. BelowOf(db') = {r \in BelowOf(db) : r[1] # n /\ r[2] # n}
    <3>1. \A r \in TagNames \X TagNames \X AssocIds : r[3] \in AssocIds
      OBVIOUS
    <3> QED BY <2>1, <2>3, <3>1 DEF BelowOf
  <2> QED
    BY <1>1, <1>3, <2>2, <2>4, <2>5, <2>6, <2>7
    DEF TagStore!RemoveTag, TagStore!TagRemoved, TagStore!Success, KW_SUCCESS
<1> QED BY <1>2, <1>3

(* One piece of metadata of a file adds at most its tag and its relation.  *)
LEMMA FileMetadataGrows ==
  ASSUME NEW d, Sound(d), NEW mime \in TagNames, NEW value, NEW n \in FileNames,
         analyze_tag(value, mime).name \in TagNames,
         NEW N, mime \in N, analyze_tag(value, mime).name \in N
  PROVE  Grows(d, associate_file_metadata(d, mime, value, n), N, n)
<1> DEFINE t == analyze_tag(value, mime)
           e == add_tag(d, t.name, t.type).db
           f == add_association(e, t.name, mime, ASSOC_SUBGROUP).db
<1>1. t.name \in TagNames /\ t.name \in N /\ t.type \in TagTypes
  BY AnalyzedType
<1>2. associate_file_metadata(d, mime, value, n) = tag_file(f, t.name, n).db
  BY DEF associate_file_metadata
<1> HIDE DEF t
<1>3. Sound(e) /\ Grows(d, e, N, n)
  BY <1>1, AddTagSound, AddTagGrows
<1> HIDE DEF e
<1>4. Sound(f) /\ Grows(e, f, N, n)
  BY <1>1, <1>3, AddAssociationSound, AddAssociationGrows, SubgroupAssumption
<1> HIDE DEF f
<1>5. Grows(f, tag_file(f, t.name, n).db, N, n)
  BY <1>1, <1>4, TagFileGrows
<1>6. Grows(d, f, N, n)
  BY <1>3, <1>4, GrowsTwice
<1> QED BY <1>2, <1>5, <1>6, GrowsTwice

(* Relating two pieces of metadata adds at most a tag and two relations.   *)
LEMMA TagMetadataGrows ==
  ASSUME NEW d, Sound(d), NEW mime \in TagNames, NEW value, NEW parentmime, NEW parent,
         analyze_tag(value, mime).name \in TagNames,
         analyze_tag(parent, parentmime).name \in TagNames,
         NEW N, mime \in N, analyze_tag(value, mime).name \in N,
         analyze_tag(parent, parentmime).name \in N, NEW n
  PROVE  Grows(d, associate_tag_metadata(d, mime, value, parentmime, parent), N, n)
<1> DEFINE t == analyze_tag(value, mime)
           u == analyze_tag(parent, parentmime)
           e == add_tag(d, t.name, t.type).db
           f == add_association(e, t.name, mime, ASSOC_SUBGROUP).db
           g == add_association(f, u.name, t.name, ASSOC_SUBGROUP).db
<1>1. /\ t.name \in TagNames /\ t.name \in N /\ t.type \in TagTypes
      /\ u.name \in TagNames /\ u.name \in N
  BY AnalyzedType
<1>2. associate_tag_metadata(d, mime, value, parentmime, parent) = g
  BY DEF associate_tag_metadata
<1> HIDE DEF t, u
<1>3. Sound(e) /\ Grows(d, e, N, n)
  BY <1>1, AddTagSound, AddTagGrows
<1> HIDE DEF e
<1>4. Sound(f) /\ Grows(e, f, N, n)
  BY <1>1, <1>3, AddAssociationSound, AddAssociationGrows, SubgroupAssumption
<1> HIDE DEF f
<1>5. Grows(f, g, N, n)
  BY <1>1, <1>4, AddAssociationGrows, SubgroupAssumption
<1> HIDE DEF g
<1>6. Grows(d, f, N, n)
  BY <1>3, <1>4, GrowsTwice
<1> QED BY <1>2, <1>5, <1>6, GrowsTwice

(* All the metadata of a file adds at most what the file is described by.  *)
LEMMA MetadataFileGrows ==
  ASSUME NEW d, Sound(d), NEW p \in AbsPaths
  PROVE  Grows(d, add_metadata_file(d, Metadata[p], BaseName[p]), DescribedBy(p), BaseName[p])
<1> DEFINE m == Metadata[p]
           n == BaseName[p]
           N == DescribedBy(p)
<1>1. n \in FileNames
  BY DEF FileNames
<1>2. N \subseteq TagNames /\ KindsRead(m) \subseteq N /\ ValuesRead(m) \subseteq N
  BY MetadataAssumption DEF DescribedBy
<1> HIDE DEF m, n, N
<1>3. CASE m.type = TAG_AUDIO
  <2> DEFINE a == associate_file_metadata(d, TAG_ALBUM, m.album, n)
             b == associate_tag_metadata(a, TAG_ARTIST, m.artist, TAG_ALBUM, m.album)
             c == associate_tag_metadata(b, TAG_GENRE, m.genre, TAG_ARTIST, m.artist)
  <2>1. /\ {TAG_ALBUM, TAG_ARTIST, TAG_GENRE} \subseteq N
        /\ analyze_tag(m.album, TAG_ALBUM).name \in N
        /\ analyze_tag(m.artist, TAG_ARTIST).name \in N
        /\ analyze_tag(m.genre, TAG_GENRE).name \in N
    BY <1>2, <1>3 DEF KindsRead, ValuesRead, TAG_AUDIO, TAG_PDF, TAG_IMAGE, TAG_VIDEO
  <2>2. Sound(a) /\ Grows(d, a, N, n)
    BY <1>1, <1>2, <2>1, FileMetadataSound, FileMetadataGrows
  <2> HIDE DEF a
  <2>3. Sound(b) /\ Grows(a, b, N, n)
    BY <1>2, <2>1, <2>2, TagMetadataSound, TagMetadataGrows
  <2> HIDE DEF b
  <2>4. Grows(b, c, N, n)
    BY <1>2, <2>1, <2>3, TagMetadataGrows
  <2>5. cleanup_audio(d, m, n) = c
    BY DEF cleanup_audio, a, b
  <2> HIDE DEF c
  <2>6. add_metadata_file(d, m, n) = cleanup_audio(d, m, n)
    BY <1>3 DEF add_metadata_file, TAG_AUDIO, TAG_PDF, TAG_IMAGE, TAG_VIDEO
  <2>7. Grows(d, b, N, n)
    BY <2>2, <2>3, GrowsTwice
  <2>8. Grows(d, c, N, n)
    BY <2>4, <2>7, GrowsTwice
  <2> QED BY <2>5, <2>6, <2>8 DEF m, n, N
<1>4. CASE m.type = TAG_PDF
  <2> DEFINE a == associate_file_metadata(d, TAG_PDF_TITLE, m.title, n)
             b == associate_file_metadata(a, TAG_PDF_SUBJECT, m.subject, n)
             c == associate_file_metadata(b, TAG_PDF_AUTHOR, m.author, n)
             g == associate_file_metadata(c, TAG_PDF_PUBLISHER, m.publisher, n)
  <2>1. /\ {TAG_PDF_TITLE, TAG_PDF_SUBJECT, TAG_PDF_AUTHOR, TAG_PDF_PUBLISHER} \subseteq N
        /\ analyze_tag(m.title, TAG_PDF_TITLE).name \in N
        /\ analyze_tag(m.subject, TAG_PDF_SUBJECT).name \in N
        /\ analyze_tag(m.author, TAG_PDF_AUTHOR).name \in N
        /\ analyze_tag(m.publisher, TAG_PDF_PUBLISHER).name \in N
    BY <1>2, <1>4 DEF KindsRead, ValuesRead, TAG_AUDIO, TAG_PDF, TAG_IMAGE, TAG_VIDEO
  <2>2. Sound(a) /\ Grows(d, a, N, n)
    BY <1>1, <1>2, <2>1, FileMetadataSound, FileMetadataGrows
  <2> HIDE DEF a
  <2>3. Sound(b) /\ Grows(a, b, N, n)
    BY <1>1, <1>2, <2>1, <2>2, FileMetadataSound, FileMetadataGrows
  <2> HIDE DEF b
  <2>4. Sound(c) /\ Grows(b, c, N, n)
    BY <1>1, <1>2, <2>1, <2>3, FileMetadataSound, FileMetadataGrows
  <2> HIDE DEF c
  <2>5. Grows(c, g, N, n)
    BY <1>1, <1>2, <2>1, <2>4, FileMetadataGrows
  <2>6. cleanup_pdf(d, m, n) = g
    BY DEF cleanup_pdf, a, b, c
  <2> HIDE DEF g
  <2>7. add_metadata_file(d, m, n) = cleanup_pdf(d, m, n)
    BY <1>4 DEF add_metadata_file, TAG_AUDIO, TAG_PDF, TAG_IMAGE, TAG_VIDEO
  <2>8. Grows(d, b, N, n)
    BY <2>2, <2>3, GrowsTwice
  <2>9. Grows(d, c, N, n)
    BY <2>4, <2>8, GrowsTwice
  <2>10. Grows(d, g, N, n)
    BY <2>5, <2>9, GrowsTwice
  <2> QED BY <2>6, <2>7, <2>10 DEF m, n, N
<1>5. CASE m.type = TAG_IMAGE
  <2> DEFINE a == associate_file_metadata(d, TAG_IMAGE_DATE, m.date, n)
             b == associate_tag_metadata(a, TAG_IMAGE_CREATOR, m.creator, TAG_IMAGE_DATE, m.date)
  <2>1. /\ {TAG_IMAGE_DATE, TAG_IMAGE_CREATOR} \subseteq N
        /\ analyze_tag(m.date, TAG_IMAGE_DATE).name \in N
        /\ analyze_tag(m.creator, TAG_IMAGE_CREATOR).name \in N
    BY <1>2, <1>5 DEF KindsRead, ValuesRead, TAG_AUDIO, TAG_PDF, TAG_IMAGE, TAG_VIDEO
  <2>2. Sound(a) /\ Grows(d, a, N, n)
    BY <1>1, <1>2, <2>1, FileMetadataSound, FileMetadataGrows
  <2> HIDE DEF a
  <2>3. Grows(a, b, N, n)
    BY <1>2, <2>1, <2>2, TagMetadataGrows
  <2>4. cleanup_image(d, m, n) = b
    BY DEF cleanup_image, a
  <2> HIDE DEF b
  <2>5. add_metadata_file(d, m, n) = cleanup_image(d, m, n)
    BY <1>5 DEF add_metadata_file, TAG_AUDIO, TAG_PDF, TAG_IMAGE, TAG_VIDEO
  <2>6. Grows(d, b, N, n)
    BY <2>2, <2>3, GrowsTwice
  <2> QED BY <2>4, <2>5, <2>6 DEF m, n, N
<1>6. CASE m.type = TAG_VIDEO
  <2>1. /\ TAG_VIDEO_LENGTH \in N
        /\ analyze_tag(m.length, TAG_VIDEO_LENGTH).name \in N
    BY <1>2, <1>6 DEF KindsRead, ValuesRead, TAG_AUDIO, TAG_PDF, TAG_IMAGE, TAG_VIDEO
  <2>2. Grows(d, associate_file_metadata(d, TAG_VIDEO_LENGTH, m.length, n), N, n)
    BY <1>1, <1>2, <2>1, FileMetadataGrows
  <2> QED
    BY <1>6, <2>2
    DEF add_metadata_file, cleanup_video, TAG_AUDIO, TAG_PDF, TAG_IMAGE, TAG_VIDEO, m, n, N
<1>7. CASE m.type \notin {TAG_AUDIO, TAG_PDF, TAG_IMAGE, TAG_VIDEO}
  BY <1>7 DEF add_metadata_file, Grows, TAG_AUDIO, TAG_PDF, TAG_IMAGE, TAG_VIDEO, m, n, N
<1> QED BY <1>3, <1>4, <1>5, <1>6, <1>7

(* add_file.                                                               *)
LEMMA AddFileRefines ==
  ASSUME Inv, NEW p \in AbsPaths, AddFile(p)
  PROVE  TagStore!AddFile(p)
<1> DEFINE n == BaseName[p]
           row == add_file_row(db, p)
<1>1. n \in TagStore!Names <=> get_file_id(db, n) # KW_FAIL
  <2>1. n \in FileNames
    BY DEF FileNames
  <2>2. n \in TagStore!Names <=> \E q \in PathsOf(db) : BaseName[q] = n
    BY DEF TagStore!Names
  <2> QED BY <2>1, <2>2, FileView DEF Inv
<1>2. db' = add_file(db, p).db /\ code' = add_file(db, p).code
  BY DEF AddFile, Call
<1>3. row.code # KW_SUCCESS => add_file(db, p) = row
  BY DEF add_file
<1>4. CASE row = Return(db, KW_ERROR) /\ get_file_id(db, n) # KW_FAIL
  <2>1. db' = db /\ code' = KW_ERROR
    BY <1>2, <1>3, <1>4 DEF Return, KW_ERROR, KW_SUCCESS
  <2> QED BY <1>1, <1>4, <2>1 DEF TagStore!AddFile, TagStore!Refuse, TagStore!Error, KW_ERROR
<1>5. CASE row = Return(db, KW_FAIL) /\ get_file_id(db, n) = KW_FAIL
  <2>1. db' = db /\ code' = KW_FAIL
    BY <1>2, <1>3, <1>5 DEF Return, KW_FAIL, KW_SUCCESS
  <2> QED BY <1>1, <1>5, <2>1 DEF TagStore!AddFile, TagStore!Refuse, TagStore!Failure, KW_FAIL
<1>6. ASSUME NEW f \in FileIds, db.files[f] = NoRow, get_file_id(db, n) = KW_FAIL,
             row = Return([db EXCEPT !.files[f] = p], KW_SUCCESS)
      PROVE  TagStore!AddFile(p)
  <2> DEFINE e == [db EXCEPT !.files[f] = p]
  <2>1. row.db = e /\ row.code = KW_SUCCESS
    BY <1>6 DEF Return
  <2>2. /\ TagsOf(e) = TagsOf(db) /\ PathsOf(e) = PathsOf(db) \cup {p}
        /\ TaggedOf(e) = TaggedOf(db) /\ BelowOf(e) = BelowOf(db)
    BY <1>6, NewFileRowView DEF Inv
  <2>3. Sound(e)
    BY <2>1, AddFileRowSound DEF Inv
  <2> HIDE DEF e, row
  <2>4. db' = add_metadata_file(e, Metadata[p], n) /\ code' = KW_SUCCESS
    BY <1>2, <2>1 DEF add_file, Return, row
  <2>5. Grows(e, db', DescribedBy(p), n)
    BY <2>3, <2>4, MetadataFileGrows
  <2> QED
    BY <1>1, <1>6, <2>2, <2>4, <2>5
    DEF Grows, TagStore!AddFile, TagStore!FileAdded, TagStore!Success, KW_SUCCESS
<1> QED
  BY <1>4, <1>5, <1>6, AddFileRowEffect DEF Inv

(* remove_file.                                                            *)
LEMMA RemoveFileRefines ==
  ASSUME Inv, NEW n \in FileNames, RemoveFile(n)
  PROVE  TagStore!RemoveFile(n)
<1> DEFINE f == get_file_id(db, n)
<1>1. n \in TagStore!Names <=> f # KW_FAIL
  BY FileView DEF TagStore!Names, Inv
<1>2. CASE f = KW_FAIL
  BY <1>1, <1>2 DEF RemoveFile, Call, remove_file, Return,
                    TagStore!RemoveFile, TagStore!Refuse, TagStore!Error, KW_ERROR
<1>3. CASE f # KW_FAIL
  <2>1. /\ f \in FileIds
        /\ \A g \in FileIds : db.files[g] # NoRow /\ BaseName[db.files[g]] = n <=> g = f
    BY <1>3, FileView, FileIdFound DEF Inv, Sound
  <2>2. db' = WithoutFile(db, f) /\ code' = KW_SUCCESS
    BY <1>3 DEF RemoveFile, Call, remove_file, Return
  <2> HIDE DEF f
  <2>3. /\ db'.tags = db.tags /\ db'.tagAssoc = db.tagAssoc
        /\ \A g \in FileIds : db'.files[g] = IF g = f THEN NoRow ELSE db.files[g]
        /\ \A u \in TagIds, g \in FileIds :
              db'.fileAssoc[u][g] = IF g = f THEN 0 ELSE db.fileAssoc[u][g]
    BY <2>2 DEF WithoutFile, Inv, Sound, Databases, FileTable
  <2>4. TagsOf(db') = TagsOf(db)
    BY <2>3 DEF TagsOf
  <2>5. PathsOf(db') = {p \in PathsOf(db) : BaseName[p] # n}
    BY <2>1, <2>3, NoRowAssumption DEF PathsOf
  <2>6. TaggedOf(db') = {r \in TaggedOf(db) : r[2] # n}
    BY <2>1, <2>3 DEF TaggedOf
  <2>7. BelowOf(db') = BelowOf(db)
    BY <2>3 DEF BelowOf
  <2> QED
    BY <1>1, <1>3, <2>2, <2>4, <2>5, <2>6, <2>7
    DEF TagStore!RemoveFile, TagStore!FileRemoved, TagStore!Success, KW_SUCCESS
<1> QED BY <1>2, <1>3

(* tag_file.                                                               *)
LEMMA TagFileRefines ==
  ASSUME Inv, NEW t \in TagNames, NEW n \in FileNames, TagFile(t, n)
  PROVE  TagStore!TagFile(t, n)
<1> DEFINE u == get_tag_id(db, t)
           f == get_file_id(db, n)
<1>1. /\ t \in TagsOf(db) <=> u # KW_FAIL
      /\ n \in TagStore!Names <=> f # KW_FAIL
      /\ <<t, n>> \in TaggedOf(db) <=>
           u # KW_FAIL /\ f # KW_FAIL /\ db.fileAssoc[u][f] > 0
  BY TagView, FileView, TaggedView DEF TagStore!Names, Inv
<1>2. CASE f = KW_FAIL \/ u = KW_FAIL \/ db.fileAssoc[u][f] > 0
  BY <1>1, <1>2 DEF TagFile, Call, tag_file, Return,
                    TagStore!TagFile, TagStore!Refuse, TagStore!Error, KW_ERROR
<1>3. CASE ~(f = KW_FAIL \/ u = KW_FAIL \/ db.fileAssoc[u][f] > 0)
  <2>1. db' = [db EXCEPT !.fileAssoc[u][f] = @ + 1] /\ code' = KW_SUCCESS
    BY <1>3 DEF TagFile, Call, tag_file, Return
  <2>2. /\ TagsOf(db') = TagsOf(db) /\ PathsOf(db') = PathsOf(db) /\ BelowOf(db') = BelowOf(db)
        /\ TaggedOf(db') = TaggedOf(db) \cup {<<t, n>>}
    BY <1>3, <2>1, NewFileAssocView DEF Inv
  <2> QED
    BY <1>1, <1>3, <2>1, <2>2 DEF TagStore!TagFile, TagStore!FileTagged, TagStore!Success, KW_SUCCESS
<1> QED BY <1>2, <1>3

(* untag_file.                                                             *)
LEMMA UntagFileRefines ==
  ASSUME Inv, NEW t \in TagNames, NEW n \in FileNames, UntagFile(t, n)
  PROVE  TagStore!UntagFile(t, n)
<1> DEFINE u == get_tag_id(db, t)
           f == get_file_id(db, n)
<1>1. /\ t \in TagsOf(db) <=> u # KW_FAIL
      /\ n \in TagStore!Names <=> f # KW_FAIL
  BY TagView, FileView DEF TagStore!Names, Inv
<1>2. CASE f = KW_FAIL \/ u = KW_FAIL
  BY <1>1, <1>2 DEF UntagFile, Call, untag_file, Return,
                    TagStore!UntagFile, TagStore!Refuse, TagStore!Error, KW_ERROR
<1>3. CASE ~(f = KW_FAIL \/ u = KW_FAIL)
  <2>1. /\ u \in TagIds /\ \A v \in TagIds : db.tags[v] = t <=> v = u
        /\ f \in FileIds
        /\ \A g \in FileIds : db.files[g] # NoRow /\ BaseName[db.files[g]] = n <=> g = f
    BY <1>3, TagView, TagIdFound, FileView, FileIdFound DEF Inv, Sound
  <2>2. db' = [db EXCEPT !.fileAssoc[u][f] = 0] /\ code' = KW_SUCCESS
    BY <1>3 DEF UntagFile, Call, untag_file, Return
  <2> HIDE DEF u, f
  <2>3. /\ db'.tags = db.tags /\ db'.files = db.files /\ db'.tagAssoc = db.tagAssoc
        /\ \A v \in TagIds, g \in FileIds :
              db'.fileAssoc[v][g] = IF v = u /\ g = f THEN 0 ELSE db.fileAssoc[v][g]
    BY <2>1, <2>2 DEF Inv, Sound, Databases, FileAssociationTable
  <2>4. TagsOf(db') = TagsOf(db) /\ PathsOf(db') = PathsOf(db) /\ BelowOf(db') = BelowOf(db)
    BY <2>3 DEF TagsOf, PathsOf, BelowOf
  <2>5. TaggedOf(db') = TaggedOf(db) \ {<<t, n>>}
    BY <2>1, <2>3 DEF TaggedOf
  <2> QED
    BY <1>1, <1>3, <2>2, <2>4, <2>5 DEF u, f, TagStore!UntagFile, TagStore!FileUntagged, TagStore!Success, KW_SUCCESS
<1> QED BY <1>2, <1>3

(* add_association.                                                        *)
LEMMA AddAssociationRefines ==
  ASSUME Inv, NEW m \in TagNames, NEW n \in TagNames, NEW id \in AssocIds,
         AddAssociation(m, n, id)
  PROVE  TagStore!AddAssociation(m, n, id)
<1> DEFINE t == get_tag_id(db, m)
           u == get_tag_id(db, n)
           related == get_association(db, m, n) # KW_FAIL
<1>1. /\ m \in TagsOf(db) <=> t # KW_FAIL
      /\ n \in TagsOf(db) <=> u # KW_FAIL
      /\ \A a \in AssocIds : <<m, n, a>> \in BelowOf(db) <=>
           t # KW_FAIL /\ u # KW_FAIL /\ db.tagAssoc[t][u][a] > 0
  BY TagView, BelowView DEF Inv
<1>2. t # KW_FAIL /\ u # KW_FAIL =>
        (related <=> \E a \in AssocIds : <<m, n, a>> \in BelowOf(db))
  BY RelatedView DEF Inv
<1>3. CASE t = KW_FAIL \/ u = KW_FAIL \/ related
  BY <1>1, <1>2, <1>3 DEF AddAssociation, Call, add_association, Return,
       TagStore!AddAssociation, TagStore!Refuse, TagStore!Error, KW_ERROR
<1>4. CASE ~(t = KW_FAIL \/ u = KW_FAIL \/ related)
  <2>1. db' = [db EXCEPT !.tagAssoc[t][u][id] = @ + 1] /\ code' = KW_SUCCESS
    BY <1>4 DEF AddAssociation, Call, add_association, Return, is_association_type, KW_FAIL
  <2>2. /\ TagsOf(db') = TagsOf(db) /\ PathsOf(db') = PathsOf(db)
        /\ TaggedOf(db') = TaggedOf(db)
        /\ BelowOf(db') = BelowOf(db) \cup {<<m, n, id>>}
    BY <1>4, <2>1, NewTagAssocView DEF Inv
  <2> QED
    BY <1>1, <1>2, <1>4, <2>1, <2>2
    DEF TagStore!AddAssociation, TagStore!TagsRelated, TagStore!Success, KW_SUCCESS
<1> QED BY <1>3, <1>4

(* remove_association.                                                     *)
LEMMA RemoveAssociationRefines ==
  ASSUME Inv, NEW m \in TagNames, NEW n \in TagNames, NEW id \in AssocIds,
         RemoveAssociation(m, n, id)
  PROVE  TagStore!RemoveAssociation(m, n, id)
<1> DEFINE t == get_tag_id(db, m)
           u == get_tag_id(db, n)
<1>1. /\ m \in TagsOf(db) <=> t # KW_FAIL
      /\ n \in TagsOf(db) <=> u # KW_FAIL
  BY TagView DEF Inv
<1>2. CASE t = KW_FAIL \/ u = KW_FAIL
  BY <1>1, <1>2 DEF RemoveAssociation, Call, remove_association, Return,
       TagStore!RemoveAssociation, TagStore!Refuse, TagStore!Error, KW_ERROR
<1>3. CASE ~(t = KW_FAIL \/ u = KW_FAIL)
  <2>1. /\ t \in TagIds /\ \A v \in TagIds : db.tags[v] = m <=> v = t
        /\ u \in TagIds /\ \A v \in TagIds : db.tags[v] = n <=> v = u
    BY <1>3, TagView, TagIdFound DEF Inv, Sound
  <2>2. db' = [db EXCEPT !.tagAssoc[t][u][id] = 0] /\ code' = KW_SUCCESS
    BY <1>3 DEF RemoveAssociation, Call, remove_association, Return, is_association_type, KW_FAIL
  <2> HIDE DEF t, u
  <2>3. /\ db'.tags = db.tags /\ db'.files = db.files /\ db'.fileAssoc = db.fileAssoc
        /\ \A v, w \in TagIds, a \in AssocIds :
              db'.tagAssoc[v][w][a] = IF v = t /\ w = u /\ a = id THEN 0
                                      ELSE db.tagAssoc[v][w][a]
    BY <2>1, <2>2 DEF Inv, Sound, Databases, TagAssociationTable
  <2>4. TagsOf(db') = TagsOf(db) /\ PathsOf(db') = PathsOf(db) /\ TaggedOf(db') = TaggedOf(db)
    BY <2>3 DEF TagsOf, PathsOf, TaggedOf
  <2>5. BelowOf(db') = BelowOf(db) \ {<<m, n, id>>}
    <3>1. \A r \in TagNames \X TagNames \X AssocIds : r[3] \in AssocIds
      OBVIOUS
    <3> QED BY <2>1, <2>3, <3>1 DEF BelowOf
  <2> QED
    BY <1>1, <1>3, <2>2, <2>4, <2>5
    DEF t, u, TagStore!RemoveAssociation, TagStore!TagsUnrelated,
        TagStore!Success, KW_SUCCESS
<1> QED BY <1>2, <1>3

-----------------------------------------------------------------------------

(* The empty tables are the empty store of names.                          *)
LEMMA InitRefines == Init => TagStore!Init
<1> SUFFICES ASSUME Init PROVE TagStore!Init
  OBVIOUS
<1>1. TagsOf(EmptyDb) = {} /\ PathsOf(EmptyDb) = {}
  BY NoRowAssumption DEF EmptyDb, TagsOf, PathsOf
<1>2. TaggedOf(EmptyDb) = {}
  BY DEF EmptyDb, TaggedOf
<1>3. BelowOf(EmptyDb) = {}
  <2>1. \A r \in TagNames \X TagNames \X AssocIds : r[3] \in AssocIds
    OBVIOUS
  <2> QED BY <2>1 DEF EmptyDb, BelowOf
<1> QED BY <1>1, <1>2, <1>3 DEF Init, TagStore!Init, TagStore!Success, KW_SUCCESS

(* Every step of the tables is a step of the store of names.               *)
LEMMA NextRefines == Inv /\ [Next]_vars => [TagStore!Next]_(TagStore!vars)
<1> SUFFICES ASSUME Inv, [Next]_vars PROVE [TagStore!Next]_(TagStore!vars)
  OBVIOUS
<1>1. ASSUME NEW n \in TagNames, NEW type \in TagTypes, AddTag(n, type)
      PROVE  TagStore!Next
  BY <1>1, AddTagRefines DEF TagStore!Next
<1>2. ASSUME NEW n \in TagNames, RemoveTag(n) PROVE TagStore!Next
  BY <1>2, RemoveTagRefines DEF TagStore!Next
<1>3. ASSUME NEW p \in AbsPaths, AddFile(p) PROVE TagStore!Next
  BY <1>3, AddFileRefines DEF TagStore!Next
<1>4. ASSUME NEW n \in FileNames, RemoveFile(n) PROVE TagStore!Next
  BY <1>4, RemoveFileRefines DEF TagStore!Next, FileNames
<1>5. ASSUME NEW t \in TagNames, NEW n \in FileNames, TagFile(t, n)
      PROVE  TagStore!Next
  BY <1>5, TagFileRefines DEF TagStore!Next, FileNames
<1>6. ASSUME NEW t \in TagNames, NEW n \in FileNames, UntagFile(t, n)
      PROVE  TagStore!Next
  BY <1>6, UntagFileRefines DEF TagStore!Next, FileNames
<1>7. ASSUME NEW m \in TagNames, NEW n \in TagNames, NEW id \in AssocIds,
             AddAssociation(m, n, id)
      PROVE  TagStore!Next
  BY <1>7, AddAssociationRefines DEF TagStore!Next
<1>8. ASSUME NEW m \in TagNames, NEW n \in TagNames, NEW id \in AssocIds,
             RemoveAssociation(m, n, id)
      PROVE  TagStore!Next
  BY <1>8, RemoveAssociationRefines DEF TagStore!Next
<1>9. CASE UNCHANGED vars
  BY <1>9 DEF vars, TagStore!vars
<1> QED
  BY <1>1, <1>2, <1>3, <1>4, <1>5, <1>6, <1>7, <1>8, <1>9 DEF Next

(* Whatever the sizes of the id ranges, the tables with their reused ids   *)
(* behave as the store of names: every call has on the names the effect    *)
(* and the return code KwestTagStore gives it.                             *)
THEOREM TablesImplementNames == Spec => ImplementsTagStore
<1> QED BY InitRefines, NextRefines, AlwaysSound, PTL DEF Spec, ImplementsTagStore, TagStore!Spec

=============================================================================
