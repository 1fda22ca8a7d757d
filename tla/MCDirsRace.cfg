CONSTANTS
  alice = alice
  bob = bob
  alpha = alpha
  beta = beta
  t1 = t1
  t2 = t2
  NoName = NoName
  Threads <- TwoThreads
  Logins <- MCLogins
  GroupNames = {}
  RepoNames <- MCRepoNames
  InitialUsers <- MCInitialUsers
  MaxId <- MCMaxId
  RowIds <- MCRowIds
  Requests <- Creates
  Failures = {}
SPECIFICATION Spec
INVARIANTS
  EveryRepoHasDir
