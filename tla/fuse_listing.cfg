\* A file is moved below Root, and the mount point listed.
CONSTANTS
  song = song
  text = text
  songpath = songpath
  textpath = textpath
  songsuggested = songsuggested
  tagsuggested = tagsuggested
  c1 = c1
  c2 = c2
  TagNames = {"Root", "Files"}
  AbsPaths = {songpath}
  BaseName <- MCBaseName
  NoRow = NoRow
  NoValue = NoValue
  Metadata <- MCMetadata
  AssocIds = {2}
  UserTagStart = 2
  UserMadeTag = 3
  MaxTno = 3
  MaxFno = 0
  SuggestedFile <- MCNoSuggestion
  SuggestedTags = {}
  HarshNames = {}
  Paths <- MCRootPaths
  Contents = {c1, c2}
  Empty = c2
  Absent = Absent
  InitialDb <- MCFiles
  InitialDisk <- MCDisk
SPECIFICATION FreshSpec
INVARIANT ListedEntriesAnswer
CHECK_DEADLOCK FALSE
