CONSTANTS
  path1 = path1
  name1 = name1
  tagA = tagA
  tagB = tagB
  thread1 = thread1
  thread2 = thread2
  TagNames = {tagA, tagB}
  AbsPaths = {path1}
  BaseName <- MCBaseName
  NoRow = NoRow
  AssocIds = {2}
  UserTagStart = 1
  UserMadeTag = 2
  MaxTno = 3
  MaxFno = 0
  Threads = {thread1, thread2}
  Readers = FALSE
  FirstDbs <- MCFirstDbs
  MaxCalls = 2
SYMMETRY MCSymmetry
SPECIFICATION Statements
INVARIANTS TaggedOnce
