CONSTANTS
  alice = alice
  bob = bob
  devs = devs
  carol = carol
  t1 = t1
  t2 = t2
  NoName = NoName
  Threads <- MCThreads
  Logins <- MCLogins
  GroupNames <- MCGroupNames
  RepoNames <- MCRepoNames
  InitialUsers <- MCInitialUsers
  MaxId <- MCMaxId
  RowIds <- MCRowIds
  Requests <- MCRequests
  Failures = {}
SPECIFICATION AuditSpec
SYMMETRY Symmetry
INVARIANTS
  NoOwnerlessGroup
PROPERTIES
  AuthorisedChanges
  HandlersAdvance
