\* Five user-made tags with three files or two tags below them, any two changes
\* between two learnings. Two changes may make a fourth file an item, whose pairs
\* are too many for the lists.
CONSTANTS
  f0 = f0
  f1 = f1
  f2 = f2
  f3 = f3
  TagNames <- MCNames
  AbsPaths = {f0, f1, f2, f3}
  BaseName <- MCBaseName
  NoRow = NoRow
  NoValue = NoValue
  Metadata <- MCMetadata
  AssocIds = {2}
  UserTagStart = 1
  UserMadeTag = 4
  MaxTno = 8
  MaxFno = 3
  User = "me"
  MINSUP = 25
  MINCONF = 50
  MINCONFR = 65
  Capacity = 7
  StartDbs <- MCStartDbs
  MaxChanges = 2
SPECIFICATION Learning
INVARIANTS SuggestTypeOK FrequentSetsFound RulesComplete OneRowPerRule SuggestionsAreNew
PROPERTIES RulesAreTrue LearningEnds
