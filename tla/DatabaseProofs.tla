--------------------------- MODULE DatabaseProofs ---------------------------
(***************************************************************************)
(* The database keeps its tables consistent, for every set of names, every *)
(* initial set of users and every largest rowid.  The invariant is         *)
(* inductive as it stands: PrimaryKeys needs IdsBelowSequence (a new id is *)
(* above all others), and each statement is one lemma.                     *)
(***************************************************************************)
EXTENDS Database, FiniteSetTheorems, TLAPS

Inv == DbTypeOK /\ Integrity

LEMMA InitInv == DbInit => Inv
<1>1. Cardinality(InitialUsers) \in Nat
  BY InitialUsersAssumption, FS_CardinalityType
<1>2. QED
  BY <1>1, InitialUsersAssumption
  DEF DbInit, Inv, DbTypeOK, Integrity, ForeignKeys, PrimaryKeys, IdsBelowSequence,
      User, Group, Repo, GroupUser, RepoUser, RepoGroup, UserIds, GroupIds, RepoIds,
      AutoTables

LEMMA InsertUserInv ==
  ASSUME Inv, NEW login \in Logins, AcceptsUser(login), InsertUser(login)
  PROVE  Inv'
<1> DEFINE id == sqlite_sequence.users + 1
           row == [user_id |-> id, login |-> login, role_id |-> kWriter]
<1>1. row \in User /\ id \in Nat
  BY DEF Inv, DbTypeOK, User, AutoTables, Roles, kNone, kWriter, kOwner
<1>2. DbTypeOK'
  BY <1>1 DEF Inv, DbTypeOK, InsertUser, AutoTables
<1>3. UserIds' = UserIds \cup {id} /\ GroupIds' = GroupIds /\ RepoIds' = RepoIds
  <2>1. users' = users \cup {row} /\ row.user_id = id
    BY DEF InsertUser
  <2>2. UserIds' = UserIds \cup {id}
    BY <2>1 DEF UserIds
  <2>3. QED
    BY <2>2 DEF InsertUser, GroupIds, RepoIds
<1>4. ForeignKeys'
  BY <1>3 DEF Inv, Integrity, ForeignKeys, InsertUser
<1>5. IdsBelowSequence'
  BY <1>1, <1>3 DEF Inv, DbTypeOK, AutoTables, Integrity, IdsBelowSequence, InsertUser
<1>6. PrimaryKeys'
  <2>1. \A u \in users : u.user_id # id /\ u.login # login
    BY DEF Inv, DbTypeOK, AutoTables, Integrity, IdsBelowSequence, UserIds, AcceptsUser
  <2>2. users' = users \cup {row}
    BY DEF InsertUser
  <2>3. \A u, v \in users' : (u.user_id = v.user_id \/ u.login = v.login) => u = v
    BY <2>1, <2>2 DEF Inv, Integrity, PrimaryKeys
  <2>4. QED
    BY <2>3 DEF Inv, Integrity, PrimaryKeys, InsertUser
<1>7. QED
  BY <1>2, <1>4, <1>5, <1>6 DEF Inv, Integrity

LEMMA InsertGroupInv ==
  ASSUME Inv, NEW name \in GroupNames, AcceptsGroup(name), InsertGroup(name)
  PROVE  Inv'
<1> DEFINE id == sqlite_sequence.groups + 1
           row == [group_id |-> id, name |-> name]
<1>1. row \in Group /\ id \in Nat
  BY DEF Inv, DbTypeOK, Group, AutoTables
<1>2. DbTypeOK'
  BY <1>1 DEF Inv, DbTypeOK, InsertGroup, AutoTables
<1>3. GroupIds' = GroupIds \cup {id} /\ UserIds' = UserIds /\ RepoIds' = RepoIds
  <2>1. groups' = groups \cup {row} /\ row.group_id = id
    BY DEF InsertGroup
  <2>2. GroupIds' = GroupIds \cup {id}
    BY <2>1 DEF GroupIds
  <2>3. QED
    BY <2>2 DEF InsertGroup, UserIds, RepoIds
<1>4. ForeignKeys'
  BY <1>3 DEF Inv, Integrity, ForeignKeys, InsertGroup
<1>5. IdsBelowSequence'
  BY <1>1, <1>3 DEF Inv, DbTypeOK, AutoTables, Integrity, IdsBelowSequence, InsertGroup
<1>6. PrimaryKeys'
  <2>1. \A x \in groups : x.group_id # id /\ x.name # name
    BY DEF Inv, DbTypeOK, AutoTables, Integrity, IdsBelowSequence, GroupIds, AcceptsGroup
  <2>2. groups' = groups \cup {row}
    BY DEF InsertGroup
  <2>3. \A x, y \in groups' : (x.group_id = y.group_id \/ x.name = y.name) => x = y
    BY <2>1, <2>2 DEF Inv, Integrity, PrimaryKeys
  <2>4. QED
    BY <2>3 DEF Inv, Integrity, PrimaryKeys, InsertGroup
<1>7. QED
  BY <1>2, <1>4, <1>5, <1>6 DEF Inv, Integrity

LEMMA InsertRepoInv ==
  ASSUME Inv, NEW name \in RepoNames, NEW public \in BOOLEAN, AcceptsRepo(name), InsertRepo(name, public)
  PROVE  Inv'
<1> DEFINE id == sqlite_sequence.repos + 1
           row == [repo_id |-> id, name |-> name, is_public |-> public]
<1>1. row \in Repo /\ id \in Nat
  BY DEF Inv, DbTypeOK, Repo, AutoTables
<1>2. DbTypeOK'
  BY <1>1 DEF Inv, DbTypeOK, InsertRepo, AutoTables
<1>3. RepoIds' = RepoIds \cup {id} /\ UserIds' = UserIds /\ GroupIds' = GroupIds
  <2>1. repos' = repos \cup {row} /\ row.repo_id = id
    BY DEF InsertRepo
  <2>2. RepoIds' = RepoIds \cup {id}
    BY <2>1 DEF RepoIds
  <2>3. QED
    BY <2>2 DEF InsertRepo, UserIds, GroupIds
<1>4. ForeignKeys'
  BY <1>3 DEF Inv, Integrity, ForeignKeys, InsertRepo
<1>5. IdsBelowSequence'
  BY <1>1, <1>3 DEF Inv, DbTypeOK, AutoTables, Integrity, IdsBelowSequence, InsertRepo
<1>6. PrimaryKeys'
  <2>1. \A x \in repos : x.repo_id # id /\ x.name # name
    BY DEF Inv, DbTypeOK, AutoTables, Integrity, IdsBelowSequence, RepoIds, AcceptsRepo
  <2>2. repos' = repos \cup {row}
    BY DEF InsertRepo
  <2>3. \A x, y \in repos' : (x.repo_id = y.repo_id \/ x.name = y.name) => x = y
    BY <2>1, <2>2 DEF Inv, Integrity, PrimaryKeys
  <2>4. QED
    BY <2>3 DEF Inv, Integrity, PrimaryKeys, InsertRepo
<1>7. QED
  BY <1>2, <1>4, <1>5, <1>6 DEF Inv, Integrity

LEMMA InsertGroupUserInv ==
  ASSUME Inv, NEW grp_id, NEW user_id, NEW role \in Roles,
         AcceptsGroupUser(grp_id, user_id), InsertGroupUser(grp_id, user_id, role)
  PROVE  Inv'
<1> DEFINE row == [group_id |-> grp_id, user_id |-> user_id, role_id |-> role]
<1>1. groups_users' = groups_users \cup {row}
  BY DEF InsertGroupUser
<1>2. UserIds' = UserIds /\ GroupIds' = GroupIds /\ RepoIds' = RepoIds
  BY DEF InsertGroupUser, UserIds, GroupIds, RepoIds
<1>3. row \in GroupUser
  BY DEF Inv, DbTypeOK, GroupUser, AcceptsGroupUser, UserIds, GroupIds, RepoIds, User, Group, Repo
<1>4. DbTypeOK'
  BY <1>1, <1>3, RowIdsAssumption DEF Inv, DbTypeOK, InsertGroupUser
<1>5. ForeignKeys' /\ IdsBelowSequence'
  BY <1>1, <1>2 DEF Inv, Integrity, ForeignKeys, IdsBelowSequence, InsertGroupUser, AcceptsGroupUser
<1>6. \A m, n \in groups_users' : (m.group_id = n.group_id /\ m.user_id = n.user_id) => m = n
  BY <1>1 DEF Inv, Integrity, PrimaryKeys, AcceptsGroupUser
<1>7. PrimaryKeys'
  BY <1>6 DEF Inv, Integrity, PrimaryKeys, InsertGroupUser
<1>8. QED
  BY <1>4, <1>5, <1>7 DEF Inv, Integrity

LEMMA InsertRepoUserInv ==
  ASSUME Inv, NEW repo_id, NEW user_id, NEW role \in Roles,
         AcceptsRepoUser(repo_id, user_id), InsertRepoUser(repo_id, user_id, role)
  PROVE  Inv'
<1> DEFINE row == [repo_id |-> repo_id, user_id |-> user_id, role_id |-> role]
<1>1. repos_users' = repos_users \cup {row}
  BY DEF InsertRepoUser
<1>2. UserIds' = UserIds /\ GroupIds' = GroupIds /\ RepoIds' = RepoIds
  BY DEF InsertRepoUser, UserIds, GroupIds, RepoIds
<1>3. row \in RepoUser
  BY DEF Inv, DbTypeOK, RepoUser, AcceptsRepoUser, UserIds, GroupIds, RepoIds, User, Group, Repo
<1>4. DbTypeOK'
  BY <1>1, <1>3, RowIdsAssumption DEF Inv, DbTypeOK, InsertRepoUser
<1>5. ForeignKeys' /\ IdsBelowSequence'
  BY <1>1, <1>2 DEF Inv, Integrity, ForeignKeys, IdsBelowSequence, InsertRepoUser, AcceptsRepoUser
<1>6. \A m, n \in repos_users' : (m.repo_id = n.repo_id /\ m.user_id = n.user_id) => m = n
  BY <1>1 DEF Inv, Integrity, PrimaryKeys, AcceptsRepoUser
<1>7. PrimaryKeys'
  BY <1>6 DEF Inv, Integrity, PrimaryKeys, InsertRepoUser
<1>8. QED
  BY <1>4, <1>5, <1>7 DEF Inv, Integrity

LEMMA InsertRepoGroupInv ==
  ASSUME Inv, NEW repo_id, NEW grp_id, NEW role \in Roles,
         AcceptsRepoGroup(repo_id, grp_id), InsertRepoGroup(repo_id, grp_id, role)
  PROVE  Inv'
<1> DEFINE row == [repo_id |-> repo_id, group_id |-> grp_id, role_id |-> role]
<1>1. repos_groups' = repos_groups \cup {row}
  BY DEF InsertRepoGroup
<1>2. UserIds' = UserIds /\ GroupIds' = GroupIds /\ RepoIds' = RepoIds
  BY DEF InsertRepoGroup, UserIds, GroupIds, RepoIds
<1>3. row \in RepoGroup
  BY DEF Inv, DbTypeOK, RepoGroup, AcceptsRepoGroup, UserIds, GroupIds, RepoIds, User, Group, Repo
<1>4. DbTypeOK'
  BY <1>1, <1>3, RowIdsAssumption DEF Inv, DbTypeOK, InsertRepoGroup
<1>5. ForeignKeys' /\ IdsBelowSequence'
  BY <1>1, <1>2 DEF Inv, Integrity, ForeignKeys, IdsBelowSequence, InsertRepoGroup, AcceptsRepoGroup
<1>6. \A m, n \in repos_groups' : (m.repo_id = n.repo_id /\ m.group_id = n.group_id) => m = n
  BY <1>1 DEF Inv, Integrity, PrimaryKeys, AcceptsRepoGroup
<1>7. PrimaryKeys'
  BY <1>6 DEF Inv, Integrity, PrimaryKeys, InsertRepoGroup
<1>8. QED
  BY <1>4, <1>5, <1>7 DEF Inv, Integrity

LEMMA SetAdminInv ==
  ASSUME Inv, NEW login, SetAdmin(login)
  PROVE  Inv'
<1> DEFINE new(x) == IF x.login = login THEN [x EXCEPT !.role_id = kOwner] ELSE x
<1>1. users' = {new(x) : x \in users}
  BY DEF SetAdmin
<1>2. \A x \in users : new(x) \in User /\ new(x).user_id = x.user_id
  BY DEF Inv, DbTypeOK, User, Roles, kNone, kOwner
<1>3. UserIds' = UserIds
  BY <1>1, <1>2 DEF UserIds
<1>4. GroupIds' = GroupIds /\ RepoIds' = RepoIds
  BY DEF SetAdmin, GroupIds, RepoIds
<1>5. DbTypeOK'
  BY <1>1, <1>2 DEF Inv, DbTypeOK, SetAdmin
<1>6. ForeignKeys' /\ IdsBelowSequence'
  BY <1>3, <1>4 DEF Inv, Integrity, ForeignKeys, IdsBelowSequence, SetAdmin
<1>7. \A x, y \in users :
        (new(x).user_id = new(y).user_id \/ new(x).login = new(y).login) => x = y
  BY DEF Inv, DbTypeOK, User, Integrity, PrimaryKeys
<1>8. PrimaryKeys'
  <2> HIDE DEF new
  <2>1. \A x, y \in users' : (x.user_id = y.user_id \/ x.login = y.login) => x = y
    BY <1>1, <1>7
  <2>2. QED
    BY <2>1 DEF Inv, Integrity, PrimaryKeys, SetAdmin
<1>9. QED
  BY <1>5, <1>6, <1>8 DEF Inv, Integrity

LEMMA UpdateRepoInv ==
  ASSUME Inv, NEW repo_id, NEW name \in RepoNames, NEW public \in BOOLEAN,
         AcceptsRepoUpdate(repo_id, name), UpdateRepo(repo_id, name, public)
  PROVE  Inv'
<1> DEFINE new(x) == IF x.repo_id = repo_id
                       THEN [x EXCEPT !.name = name, !.is_public = public] ELSE x
<1>1. repos' = {new(x) : x \in repos}
  BY DEF UpdateRepo
<1>2. \A x \in repos : new(x) \in Repo /\ new(x).repo_id = x.repo_id
  BY DEF Inv, DbTypeOK, Repo, Roles, kNone, kOwner
<1>3. RepoIds' = RepoIds
  BY <1>1, <1>2 DEF RepoIds
<1>4. UserIds' = UserIds /\ GroupIds' = GroupIds
  BY DEF UpdateRepo, UserIds, GroupIds
<1>5. DbTypeOK'
  BY <1>1, <1>2 DEF Inv, DbTypeOK, UpdateRepo
<1>6. ForeignKeys' /\ IdsBelowSequence'
  BY <1>3, <1>4 DEF Inv, Integrity, ForeignKeys, IdsBelowSequence, UpdateRepo
<1>7. \A x, y \in repos :
        (new(x).repo_id = new(y).repo_id \/ new(x).name = new(y).name) => x = y
  BY DEF Inv, DbTypeOK, Repo, Integrity, PrimaryKeys, AcceptsRepoUpdate, RepoIds
<1>8. PrimaryKeys'
  <2> HIDE DEF new
  <2>1. \A x, y \in repos' : (x.repo_id = y.repo_id \/ x.name = y.name) => x = y
    BY <1>1, <1>7
  <2>2. QED
    BY <2>1 DEF Inv, Integrity, PrimaryKeys, UpdateRepo
<1>9. QED
  BY <1>5, <1>6, <1>8 DEF Inv, Integrity

LEMMA DeleteGroupInv ==
  ASSUME Inv, NEW grp_id, DeleteGroup(grp_id)
  PROVE  Inv'
<1>1. GroupIds' = GroupIds \ {grp_id}
  BY DEF DeleteGroup, GroupIds
<1>2. UserIds' = UserIds /\ RepoIds' = RepoIds
  BY DEF DeleteGroup, UserIds, RepoIds
<1>3. DbTypeOK'
  BY DEF Inv, DbTypeOK, DeleteGroup
<1>4. ForeignKeys' /\ IdsBelowSequence'
  BY <1>1, <1>2 DEF Inv, Integrity, ForeignKeys, IdsBelowSequence, DeleteGroup
<1>5. PrimaryKeys'
  BY DEF Inv, Integrity, PrimaryKeys, DeleteGroup
<1>6. QED
  BY <1>3, <1>4, <1>5 DEF Inv, Integrity

LEMMA DeleteRepoInv ==
  ASSUME Inv, NEW repo_id, DeleteRepo(repo_id)
  PROVE  Inv'
<1>1. RepoIds' = RepoIds \ {repo_id}
  BY DEF DeleteRepo, RepoIds
<1>2. UserIds' = UserIds /\ GroupIds' = GroupIds
  BY DEF DeleteRepo, UserIds, GroupIds
<1>3. DbTypeOK'
  BY DEF Inv, DbTypeOK, DeleteRepo
<1>4. ForeignKeys' /\ IdsBelowSequence'
  BY <1>1, <1>2 DEF Inv, Integrity, ForeignKeys, IdsBelowSequence, DeleteRepo
<1>5. PrimaryKeys'
  BY DEF Inv, Integrity, PrimaryKeys, DeleteRepo
<1>6. QED
  BY <1>3, <1>4, <1>5 DEF Inv, Integrity

LEMMA DeleteGroupUserInv ==
  ASSUME Inv, NEW grp_id, NEW user_id, DeleteGroupUser(grp_id, user_id)
  PROVE  Inv'
<1>1. UserIds' = UserIds /\ GroupIds' = GroupIds /\ RepoIds' = RepoIds
  BY DEF DeleteGroupUser, UserIds, GroupIds, RepoIds
<1>2. DbTypeOK' /\ PrimaryKeys'
  BY DEF Inv, DbTypeOK, Integrity, PrimaryKeys, DeleteGroupUser
<1>3. ForeignKeys' /\ IdsBelowSequence'
  BY <1>1 DEF Inv, Integrity, ForeignKeys, IdsBelowSequence, DeleteGroupUser
<1>4. QED
  BY <1>2, <1>3 DEF Inv, Integrity

LEMMA DeleteRepoUserInv ==
  ASSUME Inv, NEW repo_id, NEW user_id, DeleteRepoUser(repo_id, user_id)
  PROVE  Inv'
<1>1. UserIds' = UserIds /\ GroupIds' = GroupIds /\ RepoIds' = RepoIds
  BY DEF DeleteRepoUser, UserIds, GroupIds, RepoIds
<1>2. DbTypeOK' /\ PrimaryKeys'
  BY DEF Inv, DbTypeOK, Integrity, PrimaryKeys, DeleteRepoUser
<1>3. ForeignKeys' /\ IdsBelowSequence'
  BY <1>1 DEF Inv, Integrity, ForeignKeys, IdsBelowSequence, DeleteRepoUser
<1>4. QED
  BY <1>2, <1>3 DEF Inv, Integrity

LEMMA DeleteRepoGroupInv ==
  ASSUME Inv, NEW repo_id, NEW grp_id, DeleteRepoGroup(repo_id, grp_id)
  PROVE  Inv'
<1>1. UserIds' = UserIds /\ GroupIds' = GroupIds /\ RepoIds' = RepoIds
  BY DEF DeleteRepoGroup, UserIds, GroupIds, RepoIds
<1>2. DbTypeOK' /\ PrimaryKeys'
  BY DEF Inv, DbTypeOK, Integrity, PrimaryKeys, DeleteRepoGroup
<1>3. ForeignKeys' /\ IdsBelowSequence'
  BY <1>1 DEF Inv, Integrity, ForeignKeys, IdsBelowSequence, DeleteRepoGroup
<1>4. QED
  BY <1>2, <1>3 DEF Inv, Integrity

LEMMA ReconnectInv ==
  ASSUME Inv, UNCHANGED <<tables, sqlite_sequence>>, lastRowid' \in Nat
  PROVE  Inv'
  BY DEF Inv, DbTypeOK, Integrity, ForeignKeys, PrimaryKeys, IdsBelowSequence,
         UserIds, GroupIds, RepoIds, tables

(***************************************************************************)
(* Every statement, and every step that leaves the database alone, keeps   *)
(* the invariant.                                                          *)
(***************************************************************************)
LEMMA StatementInv ==
  ASSUME Inv, [DbNext]_dbVars
  PROVE  Inv'
<1>1. CASE UserStatement
  BY <1>1, InsertUserInv, SetAdminInv DEF UserStatement
<1>2. CASE GroupStatement
  BY <1>2, InsertGroupInv, DeleteGroupInv, InsertGroupUserInv, DeleteGroupUserInv
  DEF GroupStatement
<1>3. CASE RepoStatement
  BY <1>3, InsertRepoInv, UpdateRepoInv, DeleteRepoInv, InsertRepoUserInv,
     DeleteRepoUserInv, InsertRepoGroupInv, DeleteRepoGroupInv
  DEF RepoStatement
<1>4. CASE Reconnect
  BY <1>4, ReconnectInv DEF Reconnect
<1>5. CASE UNCHANGED dbVars
  <2>1. lastRowid' \in Nat /\ UNCHANGED <<tables, sqlite_sequence>>
    BY <1>5 DEF dbVars, Inv, DbTypeOK
  <2>2. QED
    BY <2>1, ReconnectInv
<1>6. QED
  BY <1>1, <1>2, <1>3, <1>4, <1>5 DEF DbNext

(***************************************************************************)
(* The schema keeps its promises under every sequence of statements: no    *)
(* role row outlives the repository, group or user it names, and no name   *)
(* or id is held twice (sql/model.sql).                                    *)
(***************************************************************************)
THEOREM DatabaseIntegrity == DbSpec => [](DbTypeOK /\ Integrity)
<1>1. DbInit => Inv
  BY InitInv
<1>2. Inv /\ [DbNext]_dbVars => Inv'
  BY StatementInv
<1>3. Inv => DbTypeOK /\ Integrity
  BY DEF Inv
<1>4. QED
  BY <1>1, <1>2, <1>3, PTL DEF DbSpec

-----------------------------------------------------------------------------
(* What a statement does to the ids of repositories: one that was given    *)
(* and is no longer in use is never given again.                           *)

Given == 1 .. sqlite_sequence.repos
Gone  == Given \ RepoIds

IdsStay  == RepoIds' = RepoIds /\ sqlite_sequence'.repos = sqlite_sequence.repos
IdBorn   == /\ sqlite_sequence.repos < MaxId.repos
            /\ sqlite_sequence'.repos = sqlite_sequence.repos + 1
            /\ RepoIds' = RepoIds \cup {sqlite_sequence.repos + 1}
IdDies(r) == /\ RepoIds' = RepoIds \ {r}
             /\ sqlite_sequence'.repos = sqlite_sequence.repos

LEMMA IdsStep ==
  ASSUME Inv, [DbNext]_dbVars
  PROVE  IdsStay \/ IdBorn \/ \E r \in RepoIds : IdDies(r)
<1>a. sqlite_sequence \in [AutoTables -> Nat] /\ repos \subseteq Repo
  BY DEF Inv, DbTypeOK
<1>1. CASE UserStatement
  BY <1>1, <1>a DEF UserStatement, InsertUser, SetAdmin, IdsStay, RepoIds, AutoTables
<1>2. CASE GroupStatement
  BY <1>2, <1>a DEF GroupStatement, InsertGroup, DeleteGroup, InsertGroupUser,
     DeleteGroupUser, IdsStay, RepoIds, AutoTables
<1>3. CASE RepoStatement
  <2>1. ASSUME NEW name \in RepoNames, NEW public \in BOOLEAN,
               AcceptsRepo(name), InsertRepo(name, public)
        PROVE  IdBorn
    <3> DEFINE id == sqlite_sequence.repos + 1
               row == [repo_id |-> id, name |-> name, is_public |-> public]
    <3>1. repos' = repos \cup {row} /\ row.repo_id = id
      BY <2>1 DEF InsertRepo
    <3>2. RepoIds' = RepoIds \cup {id}
      BY <3>1 DEF RepoIds
    <3>3. QED
      BY <2>1, <3>2, <1>a DEF IdBorn, InsertRepo, AcceptsRepo, AutoTables
  <2>2. ASSUME NEW r, NEW name \in RepoNames, NEW public \in BOOLEAN,
               UpdateRepo(r, name, public)
        PROVE  IdsStay
    <3> DEFINE new(x) == IF x.repo_id = r
                           THEN [x EXCEPT !.name = name, !.is_public = public] ELSE x
    <3>1. repos' = {new(x) : x \in repos}
      BY <2>2 DEF UpdateRepo
    <3>2. \A x \in repos : new(x).repo_id = x.repo_id
      BY <1>a DEF Repo
    <3>3. RepoIds' = RepoIds
      <4> HIDE DEF new
      <4> QED BY <3>1, <3>2 DEF RepoIds
    <3>4. QED
      BY <2>2, <3>3 DEF IdsStay, UpdateRepo
  <2>3. ASSUME NEW r \in RepoIds, DeleteRepo(r)
        PROVE  IdDies(r)
    BY <2>3 DEF IdDies, DeleteRepo, RepoIds
  <2>4. ASSUME NEW r, NEW u, NEW role, \/ InsertRepoUser(r, u, role) \/ DeleteRepoUser(r, u)
                                       \/ InsertRepoGroup(r, u, role) \/ DeleteRepoGroup(r, u)
        PROVE  IdsStay
    BY <2>4 DEF InsertRepoUser, DeleteRepoUser, InsertRepoGroup, DeleteRepoGroup,
                IdsStay, RepoIds
  <2>5. QED
    BY <1>3, <2>1, <2>2, <2>3, <2>4 DEF RepoStatement
<1>4. CASE Reconnect \/ UNCHANGED dbVars
  BY <1>4 DEF Reconnect, dbVars, tables, IdsStay, RepoIds
<1>5. QED
  BY <1>1, <1>2, <1>3, <1>4 DEF DbNext

LEMMA GoneStep ==
  ASSUME Inv, [DbNext]_dbVars
  PROVE  Given \subseteq Given' /\ Gone \subseteq Gone'
<1>1. sqlite_sequence.repos \in Nat
  BY DEF Inv, DbTypeOK, AutoTables
<1>2. QED
  BY <1>1, IdsStep DEF IdsStay, IdBorn, IdDies, Given, Gone

-----------------------------------------------------------------------------
(* The role query never exceeds the grants, whatever rows there are.       *)

LEMMA RoleBounded == DbTypeOK => RoleWithinGrants
<1> SUFFICES ASSUME DbTypeOK, NEW r \in RepoIds, NEW u \in UserIds,
                    NEW role \in Roles \ {kNone}, HasRole(r, u, role)
             PROVE  \/ \E m \in repos_users :
                         m.repo_id = r /\ m.user_id = u /\ m.role_id >= role
                    \/ \E p \in repos_groups, m \in groups_users :
                         /\ p.repo_id = r /\ m.user_id = u /\ p.group_id = m.group_id
                         /\ p.role_id >= role /\ m.role_id >= role
  BY DEF RoleWithinGrants
<1>1. PICK found \in RolesFound(r, u) : found >= role
  BY DEF HasRole
<1>2. CASE \E m \in repos_users : m.repo_id = r /\ m.user_id = u /\ found = m.role_id
  BY <1>1, <1>2
<1>3. ASSUME NEW p \in repos_groups, NEW m \in groups_users,
             p.group_id = m.group_id, p.role_id = m.role_id,
             p.repo_id = r, m.user_id = u, found = MinRole(p.role_id, m.role_id)
      PROVE  /\ p.repo_id = r /\ m.user_id = u /\ p.group_id = m.group_id
             /\ p.role_id >= role /\ m.role_id >= role
  BY <1>1, <1>3 DEF MinRole
<1>4. QED
  BY <1>1, <1>2, <1>3 DEF RolesFound

\* A role is found only for rows that exist.
LEMMA RoleHolders ==
  ASSUME Inv, NEW r, NEW u, NEW role \in Roles \ {kNone}, HasRole(r, u, role)
  PROVE  r \in RepoIds /\ u \in UserIds
<1>1. PICK found \in RolesFound(r, u) : TRUE
  BY DEF HasRole
<1>2. \/ \E m \in repos_users : m.repo_id = r /\ m.user_id = u
      \/ \E m \in repos_groups, n \in groups_users : m.repo_id = r /\ n.user_id = u
  BY <1>1 DEF RolesFound
<1>3. QED
  BY <1>2 DEF Inv, Integrity, ForeignKeys

(***************************************************************************)
(* Whatever the history of the tables, the role query of                   *)
(* Db::repoGetUserRole answers no more than a row for the user, or a row   *)
(* for a group and one for the user in it, both grant.                     *)
(***************************************************************************)
THEOREM RolesAreGranted == DbSpec => []RoleWithinGrants
<1>1. DbTypeOK /\ Integrity => RoleWithinGrants
  BY RoleBounded
<1>2. QED
  BY <1>1, DatabaseIntegrity, PTL
=============================================================================
