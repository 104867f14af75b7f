\* Any call at eight paths: two directories, a file, and a directory of its name.
CONSTANTS
  song = song
  text = text
  songpath = songpath
  textpath = textpath
  songsuggested = songsuggested
  tagsuggested = tagsuggested
  c1 = c1
  c2 = c2
  TagNames = {"Root", "Files", "A", "B", song}
  AbsPaths = {songpath}
  BaseName <- MCBaseName
  NoRow = NoRow
  NoValue = NoValue
  Metadata <- MCMetadata
  AssocIds = {2}
  UserTagStart = 2
  UserMadeTag = 3
  MaxTno = 4
  MaxFno = 0
  SuggestedFile <- MCNoSuggestion
  SuggestedTags = {}
  HarshNames = {}
  Paths <- MCPaths
  Contents = {c1}
  Empty = c1
  Absent = Absent
  InitialDb <- MCFiles
  InitialDisk <- MCDisk
SPECIFICATION Spec
INVARIANTS TypeOK TablesSound ListingMatchesLookup
PROPERTIES RenameKeepsFiles RenameMovesOneFile MadeTagsPointDown FailedCallsDoHalf
CHECK_DEADLOCK FALSE
