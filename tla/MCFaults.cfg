CONSTANTS
  alice = alice
  bob = bob
  devs = devs
  alpha = alpha
  t1 = t1
  t2 = t2
  NoName = NoName
  Threads <- MCThreads
  Logins <- MCLogins
  GroupNames <- MCGroupNames
  RepoNames <- MCRepoNames
  InitialUsers <- MCInitialUsers
  MaxId <- MCMaxId
  RowIds <- MCRowIds
  Requests <- MCRequests
  Failures = {"sql", "git", "crash"}
SPECIFICATION FairSpec
PROPERTIES
  DatabaseSpec
  HandlersEnd
