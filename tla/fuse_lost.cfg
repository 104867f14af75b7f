\* A file is moved into a suggested directory.
CONSTANTS
  song = song
  text = text
  songpath = songpath
  textpath = textpath
  songsuggested = songsuggested
  tagsuggested = tagsuggested
  c1 = c1
  c2 = c2
  TagNames = {"Root", "Files", "A"}
  AbsPaths = {songpath}
  BaseName <- MCBaseName
  NoRow = NoRow
  NoValue = NoValue
  Metadata <- MCMetadata
  AssocIds = {2}
  UserTagStart = 2
  UserMadeTag = 3
  MaxTno = 4
  MaxFno = 0
  SuggestedFile <- MCSuggestedFile
  SuggestedTags = {tagsuggested}
  HarshNames = {}
  Paths <- MCSuggestedPaths
  Contents = {c1, c2}
  Empty = c2
  Absent = Absent
  InitialDb <- MCFiles
  InitialDisk <- MCDisk
SPECIFICATION FreshSpec
PROPERTY MovedFilesStay
CHECK_DEADLOCK FALSE
