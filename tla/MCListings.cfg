CONSTANTS
  alice = alice
  bob = bob
  devs = devs
  EmptyName = EmptyName
  Logins = {alice, bob}
  GroupNames = {devs, EmptyName}
  RepoNames = {1, 2, 3}
  InitialUsers <- MCInitialUsers
  MaxId <- MCMaxId
  RowIds = {0}
  GrantRoles = {1}
  Requests <- MCRequests
SPECIFICATION ListingsSpec
INVARIANTS
  ListingsTypeOK
  ReposListed
  ReposInOrder
  MembersListed
