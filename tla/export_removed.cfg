CONSTANTS
  path1 = path1
  name1 = name1
  tagA = tagA
  tagB = tagB
  tagC = tagC
  thread1 = thread1
  TagNames = {tagA, tagB, tagC}
  AbsPaths = {path1}
  BaseName <- MCBaseName
  NoRow = NoRow
  AssocIds = {2}
  UserTagStart = 1
  UserMadeTag = 2
  MaxTno = 2
  MaxFno = 0
  Threads = {thread1}
  Readers = FALSE
  FirstDbs <- MCFirstDbs
  MaxDepth = 3
  MaxCalls = 1
  MaxFailures = 1
SPECIFICATION Export
PROPERTIES RemovedIsGone
