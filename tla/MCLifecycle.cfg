CONSTANTS
  alice = alice
  bob = bob
  devs = devs
  alpha = alpha
  beta = beta
  t1 = t1
  t2 = t2
  NoName = NoName
  Threads <- MCThreads
  Logins <- MCLogins
  GroupNames <- MCGroupNames
  RepoNames <- MCRepoNames
  InitialUsers <- MCInitialUsers
  MaxId <- MCMaxId
  RowIds <- MCRowIds
  Requests <- MCRequests
  Failures = {"git", "crash"}
SPECIFICATION AuditSpec
SYMMETRY Symmetry
INVARIANTS
  TypeOK
  UndisturbedDirs
  CreationIsAlone
PROPERTIES
  LifecycleSpec
  AuthorisedChanges
