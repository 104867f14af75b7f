\* Two tags, three files of which two have the same name, and two kinds of
\* relation, 5 not being one create_db enters.  Ids are used again after a
\* removal, and the ranges of two, one and no tag ids fill up.
CONSTANTS
  p = p
  q = q
  r = r
  clip = clip
  notes = notes
  TagNames = {"VideoLength", "ShortVideo"}
  AbsPaths = {p, q, r}
  BaseName <- MCBaseName
  NoRow = NoRow
  NoValue = NoValue
  Metadata <- MCMetadata
  AssocIds = {2, 5}
  UserTagStart = 2
  UserMadeTag = 3
  MaxTno = 2
  MaxFno = 1
SPECIFICATION Spec
INVARIANTS TypeOK UniqueNames NoDanglingRows NoDuplicateRows
PROPERTIES FailsOnlyAtRangeEnd ImplementsTagStore
