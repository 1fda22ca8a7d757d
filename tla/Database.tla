------------------------------ MODULE Database ------------------------------
(***************************************************************************)
(* The SQLite database of scissyd (sql/model.sql) behind the statements of *)
(* src/scissy/db.cc, repositories.cc and service.cc.                       *)
(*                                                                         *)
(* The server has ONE connection, shared by all its threads and opened     *)
(* with SQLITE_OPEN_FULLMUTEX, and never opens a transaction: every        *)
(* statement commits on its own, and a statement is the unit of            *)
(* interleaving.  One action here is one statement that succeeds; a        *)
(* statement that a constraint or the storage refuses changes nothing.     *)
(*                                                                         *)
(* A table is the set of its rows.  Columns that no decision reads (desc,  *)
(* e-mail, password, time) are left out.  users_ssh_keys and users_auths   *)
(* belong to other modules.                                                *)
(***************************************************************************)
EXTENDS Integers, FiniteSets

CONSTANTS
  Logins,        \* values of users.login
  GroupNames,    \* values of groups.name
  RepoNames,     \* values of repos.name
  InitialUsers,  \* rows of users when the history starts
  MaxId,         \* the largest rowid of each AUTOINCREMENT table
  RowIds         \* rowids of the tables that have no integer primary key

VARIABLES
  users,           \* rows [user_id, login, role_id]
  groups,          \* rows [group_id, name]
  groups_users,    \* rows [group_id, user_id, role_id]
  repos,           \* rows [repo_id, name, is_public]
  repos_users,     \* rows [repo_id, user_id, role_id]
  repos_groups,    \* rows [repo_id, group_id, role_id]
  sqlite_sequence, \* AUTOINCREMENT: the largest id each table ever gave
  lastRowid        \* sqlite3_last_insert_rowid() of the shared connection

tables == <<users, groups, groups_users, repos, repos_users, repos_groups>>
dbVars == <<tables, sqlite_sequence, lastRowid>>

-----------------------------------------------------------------------------
(* Roles of service.proto, the rows of table roles. *)

kNone   == 0
kReader == 1
kWriter == 2
kOwner  == 3
Roles   == kNone .. kOwner

AutoTables == {"users", "groups", "repos"}

User       == [user_id : Nat, login : Logins, role_id : Roles]
Group      == [group_id : Nat, name : GroupNames]
Repo       == [repo_id : Nat, name : RepoNames, is_public : BOOLEAN]
GroupUser  == [group_id : Nat, user_id : Nat, role_id : Roles]
RepoUser   == [repo_id : Nat, user_id : Nat, role_id : Roles]
RepoGroup  == [repo_id : Nat, group_id : Nat, role_id : Roles]

UserIds  == {u.user_id : u \in users}
GroupIds == {g.group_id : g \in groups}
RepoIds  == {r.repo_id : r \in repos}

ASSUME MaxIdAssumption == MaxId \in [AutoTables -> Nat]
ASSUME RowIdsAssumption == RowIds \subseteq Nat /\ RowIds # {}
ASSUME InitialUsersAssumption ==
  /\ InitialUsers \subseteq User
  /\ IsFiniteSet(InitialUsers)
  /\ \A u \in InitialUsers : u.user_id \in 1 .. Cardinality(InitialUsers)
  /\ \A u, v \in InitialUsers :
       (u.user_id = v.user_id \/ u.login = v.login) => u = v

DbTypeOK ==
  /\ users \subseteq User
  /\ groups \subseteq Group
  /\ groups_users \subseteq GroupUser
  /\ repos \subseteq Repo
  /\ repos_users \subseteq RepoUser
  /\ repos_groups \subseteq RepoGroup
  /\ sqlite_sequence \in [AutoTables -> Nat]
  /\ lastRowid \in Nat

DbInit ==
  /\ users = InitialUsers
  /\ groups = {} /\ groups_users = {}
  /\ repos = {} /\ repos_users = {} /\ repos_groups = {}
  /\ sqlite_sequence =
       [t \in AutoTables |-> IF t = "users" THEN Cardinality(InitialUsers) ELSE 0]
  /\ lastRowid = 0

-----------------------------------------------------------------------------
(* Which INSERT and UPDATE statements the schema accepts: UNIQUE names,    *)
(* PRIMARY KEY pairs, FOREIGN KEYs (main.cc turns them on) and, once the   *)
(* largest rowid is used, SQLITE_FULL.                                     *)

AcceptsUser(login) ==
  /\ \A u \in users : u.login # login
  /\ sqlite_sequence.users < MaxId.users

AcceptsGroup(name) ==
  /\ \A g \in groups : g.name # name
  /\ sqlite_sequence.groups < MaxId.groups

AcceptsRepo(name) ==
  /\ \A r \in repos : r.name # name
  /\ sqlite_sequence.repos < MaxId.repos

AcceptsGroupUser(grp_id, user_id) ==
  /\ grp_id \in GroupIds /\ user_id \in UserIds
  /\ \A m \in groups_users : m.group_id = grp_id => m.user_id # user_id

AcceptsRepoUser(repo_id, user_id) ==
  /\ repo_id \in RepoIds /\ user_id \in UserIds
  /\ \A m \in repos_users : m.repo_id = repo_id => m.user_id # user_id

AcceptsRepoGroup(repo_id, grp_id) ==
  /\ repo_id \in RepoIds /\ grp_id \in GroupIds
  /\ \A m \in repos_groups : m.repo_id = repo_id => m.group_id # grp_id

AcceptsRepoUpdate(repo_id, name) ==
  \A r \in repos : r.name = name => r.repo_id = repo_id \/ repo_id \notin RepoIds

-----------------------------------------------------------------------------
(* The statements.  Every INSERT moves last_insert_rowid of the shared     *)
(* connection, those into the membership tables to an implicit rowid.      *)

InsertUser(login) ==
  LET id == sqlite_sequence.users + 1 IN
  /\ users' = users \cup {[user_id |-> id, login |-> login, role_id |-> kWriter]}
  /\ sqlite_sequence' = [sqlite_sequence EXCEPT !.users = id]
  /\ lastRowid' = id
  /\ UNCHANGED <<groups, groups_users, repos, repos_users, repos_groups>>

InsertGroup(name) ==
  LET id == sqlite_sequence.groups + 1 IN
  /\ groups' = groups \cup {[group_id |-> id, name |-> name]}
  /\ sqlite_sequence' = [sqlite_sequence EXCEPT !.groups = id]
  /\ lastRowid' = id
  /\ UNCHANGED <<users, groups_users, repos, repos_users, repos_groups>>

\* Variant: a schema without AUTOINCREMENT, the largest id in use plus one.
InsertRepoReusing(name, public) ==
  LET id == 1 + CHOOSE m \in RepoIds \cup {0} : \A r \in RepoIds : r <= m IN
  /\ repos' = repos \cup {[repo_id |-> id, name |-> name, is_public |-> public]}
  /\ sqlite_sequence' =
       [sqlite_sequence EXCEPT !.repos = IF id > @ THEN id ELSE @]
  /\ lastRowid' = id
  /\ UNCHANGED <<users, groups, groups_users, repos_users, repos_groups>>

InsertRepo(name, public) ==
  LET id == sqlite_sequence.repos + 1 IN
  /\ repos' = repos \cup {[repo_id |-> id, name |-> name, is_public |-> public]}
  /\ sqlite_sequence' = [sqlite_sequence EXCEPT !.repos = id]
  /\ lastRowid' = id
  /\ UNCHANGED <<users, groups, groups_users, repos_users, repos_groups>>

InsertGroupUser(grp_id, user_id, role) ==
  /\ groups_users' = groups_users \cup
       {[group_id |-> grp_id, user_id |-> user_id, role_id |-> role]}
  /\ lastRowid' \in RowIds
  /\ UNCHANGED <<users, groups, repos, repos_users, repos_groups, sqlite_sequence>>

InsertRepoUser(repo_id, user_id, role) ==
  /\ repos_users' = repos_users \cup
       {[repo_id |-> repo_id, user_id |-> user_id, role_id |-> role]}
  /\ lastRowid' \in RowIds
  /\ UNCHANGED <<users, groups, groups_users, repos, repos_groups, sqlite_sequence>>

InsertRepoGroup(repo_id, grp_id, role) ==
  /\ repos_groups' = repos_groups \cup
       {[repo_id |-> repo_id, group_id |-> grp_id, role_id |-> role]}
  /\ lastRowid' \in RowIds
  /\ UNCHANGED <<users, groups, groups_users, repos, repos_users, sqlite_sequence>>

\* Variant: the script writes the number after kOwner.
SetAdminNumber(login) ==
  /\ users' = {IF u.login = login THEN [u EXCEPT !.role_id = kOwner + 1] ELSE u :
                u \in users}
  /\ UNCHANGED <<groups, groups_users, repos, repos_users, repos_groups,
                 sqlite_sequence, lastRowid>>

\* The script scissy-set-admin, run by an administrator in a process of its own.
SetAdmin(login) ==
  /\ users' = {IF u.login = login THEN [u EXCEPT !.role_id = kOwner] ELSE u :
                u \in users}
  /\ UNCHANGED <<groups, groups_users, repos, repos_users, repos_groups,
                 sqlite_sequence, lastRowid>>

UpdateRepo(repo_id, name, public) ==
  /\ repos' = {IF r.repo_id = repo_id
                 THEN [r EXCEPT !.name = name, !.is_public = public] ELSE r :
                r \in repos}
  /\ UNCHANGED <<users, groups, groups_users, repos_users, repos_groups,
                 sqlite_sequence, lastRowid>>

\* Variant: repos_groups lacks ON DELETE CASCADE.
DeleteGroupAlone(grp_id) ==
  /\ groups' = {g \in groups : g.group_id # grp_id}
  /\ groups_users' = {m \in groups_users : m.group_id # grp_id}
  /\ UNCHANGED <<users, repos, repos_users, repos_groups, sqlite_sequence, lastRowid>>

\* ON DELETE CASCADE takes the memberships of a deleted group or repository.
DeleteGroup(grp_id) ==
  /\ groups' = {g \in groups : g.group_id # grp_id}
  /\ groups_users' = {m \in groups_users : m.group_id # grp_id}
  /\ repos_groups' = {m \in repos_groups : m.group_id # grp_id}
  /\ UNCHANGED <<users, repos, repos_users, sqlite_sequence, lastRowid>>

DeleteRepo(repo_id) ==
  /\ repos' = {r \in repos : r.repo_id # repo_id}
  /\ repos_users' = {m \in repos_users : m.repo_id # repo_id}
  /\ repos_groups' = {m \in repos_groups : m.repo_id # repo_id}
  /\ UNCHANGED <<users, groups, groups_users, sqlite_sequence, lastRowid>>

DeleteRepoNamed(name) ==
  \/ \E r \in repos : r.name = name /\ DeleteRepo(r.repo_id)
  \/ (\A r \in repos : r.name # name) /\ UNCHANGED dbVars

DeleteGroupUser(grp_id, user_id) ==
  /\ groups_users' = {m \in groups_users : m.group_id = grp_id => m.user_id # user_id}
  /\ UNCHANGED <<users, groups, repos, repos_users, repos_groups,
                 sqlite_sequence, lastRowid>>

DeleteRepoUser(repo_id, user_id) ==
  /\ repos_users' = {m \in repos_users : m.repo_id = repo_id => m.user_id # user_id}
  /\ UNCHANGED <<users, groups, groups_users, repos, repos_groups,
                 sqlite_sequence, lastRowid>>

DeleteRepoGroup(repo_id, grp_id) ==
  /\ repos_groups' = {m \in repos_groups : m.repo_id = repo_id => m.group_id # grp_id}
  /\ UNCHANGED <<users, groups, groups_users, repos, repos_users,
                 sqlite_sequence, lastRowid>>

\* A new process opens a new connection: last_insert_rowid() starts at 0.
Reconnect ==
  /\ lastRowid' = 0
  /\ UNCHANGED <<tables, sqlite_sequence>>

-----------------------------------------------------------------------------
(* Db::repoGetUserRole: one UNION query, so one consistent answer.  The    *)
(* natural join of repos_groups and groups_users is on group_id AND        *)
(* role_id, so a group contributes only where both rows hold one role.     *)

MinRole(a, b) == IF a < b THEN a ELSE b

\* Variant: the join is on group_id only and the repository's role is returned.
RolesFoundLoose(repo_id, user_id) ==
  {m.role_id : m \in {d \in repos_users : d.repo_id = repo_id /\ d.user_id = user_id}}
  \cup
  {p.role_id : p \in {q \in repos_groups :
                       /\ q.repo_id = repo_id
                       /\ \E m \in groups_users :
                            m.group_id = q.group_id /\ m.user_id = user_id}}

RolesFound(repo_id, user_id) ==
  {m.role_id : m \in {d \in repos_users : d.repo_id = repo_id /\ d.user_id = user_id}}
  \cup
  {MinRole(p[1].role_id, p[2].role_id) :
     p \in {q \in repos_groups \X groups_users :
             /\ q[1].group_id = q[2].group_id /\ q[1].role_id = q[2].role_id
             /\ q[1].repo_id = repo_id /\ q[2].user_id = user_id}}

\* The role found is at least `role' (the loop keeps the largest, from kNone).
HasRole(repo_id, user_id, role) ==
  role = kNone \/ \E found \in RolesFound(repo_id, user_id) : found >= role

-----------------------------------------------------------------------------
(* Any statements the schema accepts, in any order: what the database      *)
(* itself promises to whoever uses it.                                     *)

UserStatement ==
  \E login \in Logins :
    (AcceptsUser(login) /\ InsertUser(login)) \/ SetAdmin(login)

GroupStatement ==
  \/ \E name \in GroupNames : AcceptsGroup(name) /\ InsertGroup(name)
  \/ \E g \in GroupIds : DeleteGroup(g)
  \/ \E g \in GroupIds, u \in UserIds, role \in Roles :
       AcceptsGroupUser(g, u) /\ InsertGroupUser(g, u, role)
  \/ \E m \in groups_users : DeleteGroupUser(m.group_id, m.user_id)

RepoStatement ==
  \/ \E name \in RepoNames, public \in BOOLEAN :
       AcceptsRepo(name) /\ InsertRepo(name, public)
  \/ \E r \in RepoIds, name \in RepoNames, public \in BOOLEAN :
       AcceptsRepoUpdate(r, name) /\ UpdateRepo(r, name, public)
  \/ \E r \in RepoIds : DeleteRepo(r)
  \/ \E r \in RepoIds, u \in UserIds, role \in Roles :
       AcceptsRepoUser(r, u) /\ InsertRepoUser(r, u, role)
  \/ \E m \in repos_users : DeleteRepoUser(m.repo_id, m.user_id)
  \/ \E r \in RepoIds, g \in GroupIds, role \in Roles :
       AcceptsRepoGroup(r, g) /\ InsertRepoGroup(r, g, role)
  \/ \E m \in repos_groups : DeleteRepoGroup(m.repo_id, m.group_id)

DbNext == UserStatement \/ GroupStatement \/ RepoStatement \/ Reconnect

DbSpec == DbInit /\ [][DbNext]_dbVars

-----------------------------------------------------------------------------
(* Properties. *)

ForeignKeys ==
  /\ \A m \in groups_users : m.group_id \in GroupIds /\ m.user_id \in UserIds
  /\ \A m \in repos_users : m.repo_id \in RepoIds /\ m.user_id \in UserIds
  /\ \A m \in repos_groups : m.repo_id \in RepoIds /\ m.group_id \in GroupIds

PrimaryKeys ==
  /\ \A u, v \in users : (u.user_id = v.user_id \/ u.login = v.login) => u = v
  /\ \A g, h \in groups : (g.group_id = h.group_id \/ g.name = h.name) => g = h
  /\ \A r, s \in repos : (r.repo_id = s.repo_id \/ r.name = s.name) => r = s
  /\ \A m, n \in groups_users :
       (m.group_id = n.group_id /\ m.user_id = n.user_id) => m = n
  /\ \A m, n \in repos_users :
       (m.repo_id = n.repo_id /\ m.user_id = n.user_id) => m = n
  /\ \A m, n \in repos_groups :
       (m.repo_id = n.repo_id /\ m.group_id = n.group_id) => m = n

IdsBelowSequence ==
  /\ UserIds \subseteq 1 .. sqlite_sequence.users
  /\ GroupIds \subseteq 1 .. sqlite_sequence.groups
  /\ RepoIds \subseteq 1 .. sqlite_sequence.repos

(***************************************************************************)
(* The tables stay consistent under every sequence of statements: each     *)
(* membership row points at rows that exist (so a deleted group or         *)
(* repository leaves no role behind for a later one), names and ids        *)
(* identify one row, and no id exceeds what its sequence gave              *)
(* (sql/model.sql).                                                        *)
(***************************************************************************)
Integrity == ForeignKeys /\ PrimaryKeys /\ IdsBelowSequence

(***************************************************************************)
(* A group can only weaken what its two rows say: through groups alone a   *)
(* user never holds more than the lesser of the repository's role for the  *)
(* group and of the group's role for the user, and a user whom no row      *)
(* names holds kNone (the union and natural join of Db::repoGetUserRole).  *)
(***************************************************************************)
RoleWithinGrants ==
  \A r \in RepoIds, u \in UserIds, role \in Roles \ {kNone} :
    HasRole(r, u, role) =>
      \/ \E m \in repos_users : m.repo_id = r /\ m.user_id = u /\ m.role_id >= role
      \/ \E p \in repos_groups, m \in groups_users :
           /\ p.repo_id = r /\ m.user_id = u /\ p.group_id = m.group_id
           /\ p.role_id >= role /\ m.role_id >= role
=============================================================================
