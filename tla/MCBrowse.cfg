CONSTANTS
  master = master
  topic = topic
  v1 = v1
  v2 = v2
  file = file
  directory = directory
  None = None
  Other = Other
  Root = Root
  Commits = {1, 2, 3}
  Branches = {master, topic}
  Tags = {v1, v2}
  HeadBranch = master
  Parents <- MCParents
  History <- MCHistory
  Files <- MCFiles
  Dirs <- MCDirs
  GitLogLimit = 2
  Modulus = 8
  Pushes <- MCPushes
  Requests <- MCRequests
SPECIFICATION AuditSpec
INVARIANTS
  TypeOK
  ShowsWhatWasMeant
  FailsForAReason
  LogIsASlice
  ListsReferences
PROPERTIES
  PagesEnd
  PagesAdvance
