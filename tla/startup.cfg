\* Music with a short video, and below it A with a file and room for another
\* of the video's name.
CONSTANTS
  clip = clip
  notes = notes
  clipInMusic = clipInMusic
  notesInSub = notesInSub
  clipInSub = clipInSub
  music = music
  sub = sub
  TagNames <- MCNames
  AbsPaths = {clipInMusic, notesInSub, clipInSub}
  BaseName <- MCBaseName
  NoRow = NoRow
  NoValue = NoValue
  Metadata <- MCMetadata
  AssocIds = {2}
  UserTagStart = 12
  UserMadeTag = 18
  MaxTno = 18
  MaxFno = 4
  SuggestedFile <- MCNoFiles
  SuggestedTags = {}
  HarshNames = {}
  Paths <- MCPaths
  Contents = {bytes}
  Empty = bytes
  Absent = Absent
  InitialDb <- MCEmptyDb
  InitialDisk <- MCDisk
  Plugins = {"libextractor"}
  User = "me"
  Music = music
  Dirs = {music, sub}
  DirName <- MCDirName
  Above <- MCAbove
  Skipped = {}
  Lockable = {music, sub, clipInMusic}
  MaxEvents = 3
SPECIFICATION Program
INVARIANTS ProgramTypeOK ProgramTablesSound CheckRemovesEmptied NoFileIsGone EveryFileIsKnown NewFilesAreFiled StartOnlyAdds RestartChangesNothing
PROPERTIES StartsEnd
