CONSTANTS
  alice = alice
  devs = devs
  alpha = alpha
  Logins <- MCLogins
  GroupNames <- MCGroupNames
  RepoNames <- MCRepoNames
  InitialUsers <- MCInitialUsers
  MaxId <- MCMaxId
  RowIds <- MCRowIds
SPECIFICATION AuditSpec
INVARIANTS
  DbTypeOK
  Integrity
  RoleWithinGrants
  AccessTypeOK
  GrantJustified
  VisitorArchives
