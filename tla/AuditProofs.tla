----------------------------- MODULE AuditProofs -----------------------------
(***************************************************************************)
(* The handlers check and act in separate statements.  The proof that a    *)
(* change was still authorised needs three things of every handler: where  *)
(* it may be for its operation, that the history has all its caller owned  *)
(* meanwhile, and that behind the check the id it acts on is in it.  Ids   *)
(* and names of groups bind once: that is why groupCreate, which finds its *)
(* group by name, sets the owner of a group of that name.                  *)
(*                                                                         *)
(* And of repoCreate: whose directory is missing, and whose row it gives   *)
(* an owner or takes back.  Both follow from what each label says of the   *)
(* repository being made, as long as the rowid was read right.             *)
(***************************************************************************)
EXTENDS ServiceAudit, ServiceProofs

\* Which operations a label belongs to.
Placed(t) ==
  /\ pc[t] \in {"repo", "role"} => req[t].op \in RepoOps
  /\ pc[t] = "grpOwner" => req[t].op \in GroupOps
  /\ pc[t] \in {"grp", "user"} => req[t].op \in RepoOps \cup GroupOps
  /\ pc[t] \in {"rowid", "init", "undo"} => req[t].op = "repoCreate"
  /\ pc[t] = "own" => req[t].op \in {"repoCreate", "groupCreate"}
  /\ pc[t] \in {"getId", "getIdAgain", "grpUndo"} => req[t].op = "groupCreate"
  /\ req[t].op = "groupCreate" => pc[t] \in {"act", "getId", "getIdAgain", "own", "grpUndo"}

\* The history misses nothing, and a session that says so is an administrator's.
Watched(t) ==
  /\ pc[t] # "idle" =>
       /\ Holds(t).repos \subseteq held[t].repos
       /\ Holds(t).groups \subseteq held[t].groups
  /\ session[t].role = kOwner => IsAdmin(session[t].user_id)

\* An id that belongs, or belonged, to a group of that name.
Bound(g, name) ==
  /\ g \in 1 .. sqlite_sequence.groups
  /\ \A x \in groups : x.group_id = g => x.name = name

Checked(t) ==
  /\ pc[t] = "act" /\ req[t].op \in RepoOps => req[t].repo_id \in held[t].repos
  /\ pc[t] = "act" /\ req[t].op \in GroupOps =>
       req[t].grp_id \in held[t].groups \/ IsAdmin(session[t].user_id)
  /\ req[t].op = "groupCreate" /\ pc[t] \in {"getIdAgain", "own", "grpUndo"} =>
       Bound(req[t].grp_id, req[t].name)

HInv ==
  /\ IInv
  /\ held \in [Threads -> [repos : SUBSET Nat, groups : SUBSET Nat]]
  /\ \A t \in Threads : Placed(t) /\ Watched(t) /\ Checked(t)

\* Thread t will give the group an owner, or take it back.
Responsible(t, g) ==
  /\ req[t].op = "groupCreate"
  /\ \/ pc[t] \in {"getId", "getIdAgain"} /\ g.name = req[t].name
     \/ pc[t] \in {"own", "grpUndo"} /\ g.group_id = req[t].grp_id

OInv ==
  /\ HInv
  /\ \A g \in groups : g.group_id \in everOwned \/ \E t \in Threads : Responsible(t, g)

-----------------------------------------------------------------------------
(* What statements leave alone. *)

LEMMA AdminStays ==
  ASSUME Inv, [DbNext]_dbVars, NEW u, IsAdmin(u)
  PROVE  IsAdmin(u)'
<1>a. PICK row \in users : row.user_id = u /\ row.role_id = kOwner
  BY DEF IsAdmin
<1>1. ASSUME NEW login, SetAdmin(login)
      PROVE  IsAdmin(u)'
  <2> DEFINE new(x) == IF x.login = login THEN [x EXCEPT !.role_id = kOwner] ELSE x
  <2>1. users' = {new(x) : x \in users}
    BY <1>1 DEF SetAdmin
  <2>2. new(row).user_id = u /\ new(row).role_id = kOwner
    BY <1>a DEF Inv, DbTypeOK, User
  <2>3. new(row) \in users'
    <3> HIDE DEF new
    <3> QED BY <2>1
  <2>4. QED
    BY <2>2, <2>3 DEF IsAdmin
<1>2. CASE users \subseteq users'
  BY <1>a, <1>2 DEF IsAdmin
<1>3. (\E login : SetAdmin(login)) \/ users \subseteq users'
  BY DEF DbNext, UserStatement, InsertUser, GroupStatement, InsertGroup, DeleteGroup,
     InsertGroupUser, DeleteGroupUser, RepoStatement, InsertRepo, UpdateRepo, DeleteRepo,
     InsertRepoUser, DeleteRepoUser, InsertRepoGroup, DeleteRepoGroup, Reconnect, dbVars, tables
<1>4. QED
  BY <1>1, <1>2, <1>3

LEMMA GroupsStep ==
  ASSUME Inv, [DbNext]_dbVars
  PROVE  \/ groups' \subseteq groups /\ sqlite_sequence'.groups = sqlite_sequence.groups
         \/ \E name \in GroupNames : InsertGroup(name)
<1>a. sqlite_sequence \in [AutoTables -> Nat]
  BY DEF Inv, DbTypeOK
<1>1. CASE UserStatement
  BY <1>1, <1>a DEF UserStatement, InsertUser, SetAdmin, AutoTables
<1>2. CASE GroupStatement
  BY <1>2 DEF GroupStatement, DeleteGroup, InsertGroupUser, DeleteGroupUser
<1>3. CASE RepoStatement
  BY <1>3, <1>a DEF RepoStatement, InsertRepo, UpdateRepo, DeleteRepo, InsertRepoUser,
     DeleteRepoUser, InsertRepoGroup, DeleteRepoGroup, AutoTables
<1>4. CASE Reconnect \/ UNCHANGED dbVars
  BY <1>4 DEF Reconnect, dbVars, tables
<1>5. QED
  BY <1>1, <1>2, <1>3, <1>4 DEF DbNext

LEMMA BoundStays ==
  ASSUME Inv, [DbNext]_dbVars, NEW g, NEW name, Bound(g, name)
  PROVE  Bound(g, name)'
<1>a. sqlite_sequence \in [AutoTables -> Nat]
  BY DEF Inv, DbTypeOK
<1>1. CASE groups' \subseteq groups /\ sqlite_sequence'.groups = sqlite_sequence.groups
  BY <1>1 DEF Bound
<1>2. ASSUME NEW other, InsertGroup(other)
      PROVE  Bound(g, name)'
  <2>1. groups' = groups \cup {[group_id |-> sqlite_sequence.groups + 1, name |-> other]}
    BY <1>2 DEF InsertGroup
  <2>2. sqlite_sequence'.groups = sqlite_sequence.groups + 1 /\ sqlite_sequence.groups \in Nat
    BY <1>2, <1>a DEF InsertGroup, AutoTables
  <2>3. QED
    BY <2>1, <2>2 DEF Bound
<1>3. QED
  BY <1>1, <1>2, GroupsStep

\* Memberships of a repository are not changed by what leaves its rows alone.
LEMMA RepoSame ==
  ASSUME Inv, NEW r, RepoRows(r)' = RepoRows(r), RepoUserRows(r)' = RepoUserRows(r),
         RepoGroupRows(r)' = RepoGroupRows(r), GroupIds \subseteq GroupIds'
  PROVE  ~ RepoChanges(r)
<1>1. \A m \in RepoGroupRows(r) : m.group_id \in GroupIds'
  BY DEF RepoGroupRows, Inv, Integrity, ForeignKeys
<1>2. QED
  BY <1>1 DEF RepoChanges

LEMMA RepoUntouched ==
  ASSUME Inv, NEW r \in RepoIds,
         \/ UNCHANGED dbVars \/ Reconnect \/ UserStatement
         \/ \E name \in GroupNames : InsertGroup(name)
         \/ \E g, u, role : InsertGroupUser(g, u, role) \/ DeleteGroupUser(g, u)
         \/ \E name, public : InsertRepo(name, public)
  PROVE  ~ RepoChanges(r)
<1>1. CASE \E name, public : InsertRepo(name, public)
  <2>1. PICK name, public : InsertRepo(name, public)
    BY <1>1
  <2>2. r # sqlite_sequence.repos + 1
    BY DEF Inv, DbTypeOK, AutoTables, Integrity, IdsBelowSequence
  <2>3. RepoRows(r)' = RepoRows(r)
    BY <2>1, <2>2 DEF InsertRepo, RepoRows
  <2>4. QED
    BY <2>1, <2>3, RepoSame DEF InsertRepo, RepoUserRows, RepoGroupRows, GroupIds
<1>2. CASE ~ \E name, public : InsertRepo(name, public)
  <2>1. UNCHANGED <<repos, repos_users, repos_groups>> /\ groups \subseteq groups'
    BY <1>2 DEF dbVars, tables, Reconnect, UserStatement, InsertUser, SetAdmin, InsertGroup,
       InsertGroupUser, DeleteGroupUser
  <2>2. GroupIds \subseteq GroupIds'
    BY <2>1 DEF GroupIds
  <2>3. QED
    BY <2>1, <2>2, RepoSame DEF RepoRows, RepoUserRows, RepoGroupRows
<1>3. QED
  BY <1>1, <1>2

\* The cascade of a deleted group is the change the property allows for.
LEMMA RepoLosesGroup ==
  ASSUME Inv, NEW g, DeleteGroup(g), NEW r
  PROVE  ~ RepoChanges(r)
<1>1. GroupIds' = GroupIds \ {g}
  BY DEF DeleteGroup, GroupIds
<1>2. RepoGroupRows(r)' = {m \in RepoGroupRows(r) : m.group_id \in GroupIds'}
  BY <1>1 DEF DeleteGroup, RepoGroupRows, Inv, Integrity, ForeignKeys
<1>3. QED
  BY <1>2 DEF DeleteGroup, RepoChanges, RepoRows, RepoUserRows

\* The statements that name a repository's id change no other repository.
NamesRepo(i) ==
  \/ DeleteRepo(i)
  \/ \E name, public : UpdateRepo(i, name, public)
  \/ \E x, role : \/ InsertRepoUser(i, x, role) \/ DeleteRepoUser(i, x)
                  \/ InsertRepoGroup(i, x, role) \/ DeleteRepoGroup(i, x)

LEMMA RepoOther ==
  ASSUME Inv, NEW i, NamesRepo(i), NEW r, r # i
  PROVE  ~ RepoChanges(r)
<1>1. GroupIds' = GroupIds
  BY DEF NamesRepo, DeleteRepo, UpdateRepo, InsertRepoUser, DeleteRepoUser, InsertRepoGroup,
     DeleteRepoGroup, GroupIds
<1>2. RepoUserRows(r)' = RepoUserRows(r)
  <2>1. ASSUME NEW u, NEW role, InsertRepoUser(i, u, role)
        PROVE  RepoUserRows(r)' = RepoUserRows(r)
    BY <2>1 DEF InsertRepoUser, RepoUserRows
  <2>2. ASSUME DeleteRepo(i) \/ \E u : DeleteRepoUser(i, u)
        PROVE  RepoUserRows(r)' = RepoUserRows(r)
    BY <2>2 DEF DeleteRepo, DeleteRepoUser, RepoUserRows
  <2>3. QED
    BY <2>1, <2>2 DEF NamesRepo, UpdateRepo, InsertRepoGroup, DeleteRepoGroup, RepoUserRows
<1>3. RepoGroupRows(r)' = RepoGroupRows(r)
  <2>1. ASSUME NEW g, NEW role, InsertRepoGroup(i, g, role)
        PROVE  RepoGroupRows(r)' = RepoGroupRows(r)
    BY <2>1 DEF InsertRepoGroup, RepoGroupRows
  <2>2. ASSUME DeleteRepo(i) \/ \E g : DeleteRepoGroup(i, g)
        PROVE  RepoGroupRows(r)' = RepoGroupRows(r)
    BY <2>2 DEF DeleteRepo, DeleteRepoGroup, RepoGroupRows
  <2>3. QED
    BY <2>1, <2>2 DEF NamesRepo, UpdateRepo, InsertRepoUser, DeleteRepoUser, RepoGroupRows
<1>4. RepoRows(r)' = RepoRows(r)
  <2>1. ASSUME NEW name, NEW public, UpdateRepo(i, name, public)
        PROVE  RepoRows(r)' = RepoRows(r)
    <3> DEFINE new(x) == IF x.repo_id = i
                           THEN [x EXCEPT !.name = name, !.is_public = public] ELSE x
    <3>1. repos' = {new(x) : x \in repos}
      BY <2>1 DEF UpdateRepo
    <3>2. \A x \in repos : new(x).repo_id = x.repo_id /\ (x.repo_id = r => new(x) = x)
      BY DEF Inv, DbTypeOK, Repo
    <3>3. QED
      <4> HIDE DEF new
      <4> QED BY <3>1, <3>2 DEF RepoRows
  <2>2. DeleteRepo(i) \/ repos' = repos => RepoRows(r)' = RepoRows(r)
    BY DEF DeleteRepo, RepoRows
  <2>3. QED
    BY <2>1, <2>2 DEF NamesRepo, InsertRepoUser, DeleteRepoUser, InsertRepoGroup, DeleteRepoGroup
<1>5. QED
  BY <1>1, <1>2, <1>3, <1>4, RepoSame

\* Only a statement that names a group's id changes that group.
NamesGrp(i) ==
  \/ DeleteGroup(i)
  \/ \E u, role : InsertGroupUser(i, u, role) \/ DeleteGroupUser(i, u)

LEMMA GroupOther ==
  ASSUME NEW i, NamesGrp(i), NEW g \in GroupIds, g # i
  PROVE  ~ GroupChanges(g)
  BY DEF NamesGrp, DeleteGroup, InsertGroupUser, DeleteGroupUser, GroupChanges, GroupIds,
     GroupUserRows

LEMMA GroupUntouched ==
  ASSUME NEW g \in GroupIds,
         \/ UNCHANGED dbVars \/ Reconnect \/ UserStatement
         \/ \E name : InsertGroup(name)
         \/ \E name, public : InsertRepo(name, public)
         \/ \E i : NamesRepo(i)
  PROVE  ~ GroupChanges(g)
<1>1. groups_users' = groups_users /\ groups \subseteq groups'
  BY DEF dbVars, tables, Reconnect, UserStatement, InsertUser, SetAdmin, InsertGroup, InsertRepo,
     NamesRepo, DeleteRepo, UpdateRepo, InsertRepoUser, DeleteRepoUser, InsertRepoGroup,
     DeleteRepoGroup
<1>2. QED
  BY <1>1 DEF GroupChanges, GroupIds, GroupUserRows

-----------------------------------------------------------------------------
(* Where a handler goes.  Its operation and its name stay with it. *)

Moved(t, label) ==
  /\ pc'[t] = label /\ session'[t] = session[t]
  /\ req'[t].op = req[t].op /\ req'[t].name = req[t].name

LEMMA GotoMoves ==
  ASSUME FrameOK, NEW t \in Threads, NEW label, Goto(t, label)
  PROVE  Moved(t, label) /\ req'[t] = req[t]
  BY DEF FrameOK, Goto, Moved

LEMMA GotoWithMoves ==
  ASSUME FrameOK, NEW t \in Threads, NEW label, NEW m, m.op = req[t].op, m.name = req[t].name,
         GotoWith(t, label, m)
  PROVE  Moved(t, label) /\ req'[t] = m
  BY DEF FrameOK, GotoWith, Moved

LEMMA ReturnMoves ==
  ASSUME FrameOK, NEW t \in Threads, Return(t)
  PROVE  pc'[t] = "idle" /\ req'[t].op = "none" /\ session'[t] = Anonymous
  BY NoRequestMessage DEF FrameOK, Return

LEMMA BeginMoves ==
  ASSUME FrameOK, NEW t \in Threads, Begin(t)
  PROVE  \E q \in Requests : /\ pc'[t] = First(q.op) /\ req'[t] = q
                             /\ session'[t] = Authenticate(q.as)
  BY DEF FrameOK, Begin

LEMMA ResolveMoves ==
  ASSUME FrameOK, NEW t \in Threads, SetRepoId(t) \/ SetGrpId(t) \/ SetUserId(t)
  PROVE  \/ Return(t)
         \/ SetRepoId(t) /\ Moved(t, AfterRepo(req[t].op))
         \/ SetGrpId(t) /\ Moved(t, AfterGrp(req[t].op))
         \/ SetUserId(t) /\ Moved(t, Check(req[t].op))
<1>1. \A i : /\ [req[t] EXCEPT !.repo_id = i].op = req[t].op
             /\ [req[t] EXCEPT !.repo_id = i].name = req[t].name
             /\ [req[t] EXCEPT !.grp_id = i].op = req[t].op
             /\ [req[t] EXCEPT !.grp_id = i].name = req[t].name
             /\ [req[t] EXCEPT !.user_id = i].op = req[t].op
             /\ [req[t] EXCEPT !.user_id = i].name = req[t].name
  BY DEF FrameOK, Message
<1>2. CASE SetRepoId(t)
  BY <1>1, <1>2, GotoMoves, GotoWithMoves DEF SetRepoId
<1>3. CASE SetGrpId(t)
  BY <1>1, <1>3, GotoMoves, GotoWithMoves DEF SetGrpId
<1>4. CASE SetUserId(t)
  BY <1>1, <1>4, GotoMoves, GotoWithMoves DEF SetUserId
<1>5. QED
  BY <1>2, <1>3, <1>4

\* groupCreate looks its group up under the name it gave it.
LEMMA LookupMoves ==
  ASSUME FrameOK, NEW t \in Threads, GetGroupId(t)
  PROVE  \/ Return(t)
         \/ \E g \in groups :
              /\ g.name = req[t].name /\ req'[t].grp_id = g.group_id
              /\ Moved(t, IF pc[t] = "getId" THEN "getIdAgain" ELSE "own")
<1>1. \A i : /\ [req[t] EXCEPT !.grp_id = i].op = req[t].op
             /\ [req[t] EXCEPT !.grp_id = i].name = req[t].name
             /\ [req[t] EXCEPT !.grp_id = i].grp_id = i
  BY DEF FrameOK, Message
<1>2. QED
  BY <1>1, GotoWithMoves DEF GetGroupId

\* The labels a single handler passes behind its checks.
LEMMA CreateMoves ==
  ASSUME FrameOK, NEW t \in Threads,
         \/ RepoDelete(t) \/ CreateRepoRow(t) \/ ReadRowid(t) \/ InitDir(t) \/ SetRepoOwner(t)
         \/ CreateGroupRow(t) \/ SetGroupOwner(t)
  PROVE  \/ Return(t)
         \/ req[t].op = "repoDelete" /\ Moved(t, "rm")
         \/ req[t].op = "repoCreate" /\ (Moved(t, "rowid") \/ Moved(t, "undo"))
         \/ pc[t] \in {"rowid", "init"} /\ \E label \in {"init", "own", "undo"} : Moved(t, label)
         \/ req[t].op = "groupCreate" /\ pc[t] = "act" /\ Moved(t, "getId")
         \/ /\ req[t].op = "groupCreate" /\ pc[t] = "own" /\ Moved(t, "grpUndo")
            /\ req'[t] = req[t]
<1>1. CASE ReadRowid(t)
  <2>1. /\ [req[t] EXCEPT !.repo_id = lastRowid].op = req[t].op
        /\ [req[t] EXCEPT !.repo_id = lastRowid].name = req[t].name
    BY DEF FrameOK, Message
  <2>2. QED
    BY <1>1, <2>1, GotoWithMoves DEF ReadRowid
<1>2. CASE RepoDelete(t) \/ CreateRepoRow(t) \/ InitDir(t) \/ SetRepoOwner(t)
  BY <1>2, GotoMoves DEF RepoDelete, CreateRepoRow, InitDir, SetRepoOwner, Acts, Exec
<1>3. CASE CreateGroupRow(t) \/ SetGroupOwner(t)
  BY <1>3, GotoMoves DEF CreateGroupRow, SetGroupOwner, Acts, Exec
<1>4. QED
  BY <1>1, <1>2, <1>3

\* The one statement of a handler that has no more than one, and its last.
LastStep(t) ==
  \/ RepoUpdate(t) \/ RepoAddUser(t) \/ RepoRemoveUser(t) \/ RepoAddGroup(t)
  \/ RepoRemoveGroup(t) \/ RemoveDir(t) \/ UndoRepoRow(t) \/ UserCreate(t)
  \/ GroupDelete(t) \/ GroupAddUser(t) \/ GroupRemoveUser(t) \/ UndoGroupRow(t)

LEMMA LastReturns ==
  ASSUME NEW t \in Threads, LastStep(t)
  PROVE  Return(t)
  BY DEF LastStep, RepoUpdate, RepoAddUser, RepoRemoveUser, RepoAddGroup, RepoRemoveGroup,
     RemoveDir, UndoRepoRow, UserCreate, GroupDelete, GroupAddUser, GroupRemoveUser,
     UndoGroupRow, Finish, Exec

MiddleStep(t) ==
  \/ RepoDelete(t) \/ CreateRepoRow(t) \/ ReadRowid(t) \/ InitDir(t) \/ SetRepoOwner(t)
  \/ CreateGroupRow(t) \/ SetGroupOwner(t)

LEMMA StepCases ==
  ASSUME NEW t \in Threads, Step(t)
  PROVE  \/ SetRepoId(t) \/ SetGrpId(t) \/ SetUserId(t) \/ CheckRepoRole(t)
         \/ CheckGroupOwner(t) \/ GetGroupId(t) \/ MiddleStep(t) \/ LastStep(t)
  BY DEF Step, CheckStep, RepoStep, GroupStep, MiddleStep, LastStep

LEMMA CheckMoves ==
  ASSUME FrameOK, NEW t \in Threads, CheckRepoRole(t) \/ CheckGroupOwner(t)
  PROVE  \/ Return(t)
         \/ /\ Moved(t, "act") /\ req'[t] = req[t]
            /\ \/ pc[t] = "role" /\ HasRole(req[t].repo_id, session[t].user_id, kOwner)
               \/ pc[t] = "grpOwner" /\ IsGroupOwner(t)
<1>1. CASE CheckRepoRole(t)
  BY <1>1, GotoMoves DEF CheckRepoRole
<1>2. CASE CheckGroupOwner(t)
  BY <1>2, GotoMoves DEF CheckGroupOwner
<1>3. QED
  BY <1>1, <1>2

LEMMA PlacedReturn ==
  ASSUME FrameOK, NEW t \in Threads, Return(t)
  PROVE  Placed(t)' /\ Checked(t)'
  BY ReturnMoves DEF Placed, Checked, RepoOps, GroupOps

LEMMA PlacedStep ==
  ASSUME FrameOK, NEW t \in Threads, Placed(t), Begin(t) \/ Step(t)
  PROVE  Placed(t)'
<1>1. CASE Begin(t)
  <2>1. PICK q \in Requests : pc'[t] = First(q.op) /\ req'[t] = q
    BY <1>1, BeginMoves
  <2>2. QED
    BY <2>1 DEF Placed, First, RepoOps, GroupOps
<1>2. CASE SetRepoId(t) \/ SetGrpId(t) \/ SetUserId(t)
  <2>1. pc[t] \in {"repo", "grp", "user"}
    BY <1>2 DEF SetRepoId, SetGrpId, SetUserId
  <2>2. req[t].op \in RepoOps \cup GroupOps /\ (pc[t] = "repo" => req[t].op \in RepoOps)
    BY <2>1 DEF Placed
  <2>3. CASE SetRepoId(t) /\ Moved(t, AfterRepo(req[t].op))
    BY <2>2, <2>3 DEF SetRepoId, Moved, Placed, AfterRepo, AfterGrp, Check, RepoOps, GroupOps
  <2>4. CASE SetGrpId(t) /\ Moved(t, AfterGrp(req[t].op))
    BY <2>2, <2>4 DEF SetGrpId, Moved, Placed, AfterGrp, Check, RepoOps, GroupOps
  <2>5. CASE SetUserId(t) /\ Moved(t, Check(req[t].op))
    BY <2>2, <2>5 DEF SetUserId, Moved, Placed, Check, RepoOps, GroupOps
  <2>6. QED
    BY <1>2, <2>3, <2>4, <2>5, ResolveMoves, PlacedReturn
<1>3. CASE CheckRepoRole(t) \/ CheckGroupOwner(t)
  <2>1. Return(t) \/ (Moved(t, "act") /\ pc[t] \in {"role", "grpOwner"})
    BY <1>3, CheckMoves
  <2>2. QED
    BY <2>1, PlacedReturn DEF Placed, Moved, RepoOps, GroupOps
<1>4. CASE GetGroupId(t)
  BY <1>4, LookupMoves, PlacedReturn DEF GetGroupId, Moved, Placed
<1>5. CASE MiddleStep(t)
  BY <1>5, CreateMoves, PlacedReturn DEF MiddleStep, Moved, Placed
<1>6. CASE LastStep(t)
  BY <1>6, LastReturns, PlacedReturn
<1>7. QED
  BY <1>1, <1>2, <1>3, <1>4, <1>5, <1>6, StepCases

-----------------------------------------------------------------------------
(* What the checks of a handler still guarantee later. *)

\* The query of the code finds the role of an owner only for an owner.
LEMMA OwnerByRole ==
  ASSUME Inv, NEW r, NEW u, HasRole(r, u, kOwner)
  PROVE  r \in RepoIds /\ OwnsRepo(u, r)
<1>a. kOwner \in Roles \ {kNone}
  BY DEF Roles, kNone, kOwner
<1>1. r \in RepoIds /\ u \in UserIds
  BY <1>a, RoleHolders
<1>2. \/ \E m \in repos_users : m.repo_id = r /\ m.user_id = u /\ m.role_id >= kOwner
      \/ \E p \in repos_groups, m \in groups_users :
           /\ p.repo_id = r /\ m.user_id = u /\ p.group_id = m.group_id
           /\ p.role_id >= kOwner /\ m.role_id >= kOwner
  BY <1>1, <1>a, RoleBounded DEF RoleWithinGrants, Inv
<1>3. \A m \in repos_users \cup repos_groups \cup groups_users :
        m.role_id >= kOwner => m.role_id = kOwner
  BY DEF Inv, DbTypeOK, RepoUser, RepoGroup, GroupUser, Roles, kNone, kOwner
<1>4. QED
  BY <1>1, <1>2, <1>3 DEF OwnsRepo

\* The history of a handler that goes on only grows.
LEMMA HeldStep ==
  ASSUME HInv, Record, NEW t \in Threads, pc'[t] # "idle"
  PROVE  /\ held[t].repos \cup Holds(t)'.repos \subseteq held'[t].repos
         /\ held[t].groups \cup Holds(t)'.groups \subseteq held'[t].groups
  BY DEF HInv, Record

LEMMA HeldType ==
  ASSUME HInv, Record, Inv'
  PROVE  held' \in [Threads -> [repos : SUBSET Nat, groups : SUBSET Nat]]
<1>1. RepoIds' \subseteq Nat /\ GroupIds' \subseteq Nat
  BY DEF Inv, DbTypeOK, Repo, Group, RepoIds, GroupIds
<1>2. \A t \in Threads : Holds(t)'.repos \subseteq Nat /\ Holds(t)'.groups \subseteq Nat
  BY <1>1 DEF Holds
<1>3. QED
  BY <1>2 DEF HInv, Record, Nothing

LEMMA CheckedStays ==
  ASSUME HInv, Record, [DbNext]_dbVars, NEW t \in Threads,
         pc'[t] = pc[t], req'[t] = req[t], session'[t] = session[t]
  PROVE  Checked(t)'
<1>a. Inv /\ Checked(t)
  BY IInvInv DEF HInv
<1>1. pc[t] # "idle" =>
        /\ held[t].repos \subseteq held'[t].repos
        /\ held[t].groups \subseteq held'[t].groups
  BY HeldStep
<1>2. IsAdmin(session[t].user_id) => IsAdmin(session[t].user_id)'
  BY <1>a, AdminStays
<1>3. Bound(req[t].grp_id, req[t].name) => Bound(req[t].grp_id, req[t].name)'
  BY <1>a, BoundStays
<1>4. QED
  BY <1>a, <1>1, <1>2, <1>3 DEF Checked

\* A check that passes puts the id it is about into the history.
LEMMA CheckHolds ==
  ASSUME HInv, Record, NEW t \in Threads, CheckRepoRole(t) \/ CheckGroupOwner(t)
  PROVE  Checked(t)'
<1>a. Inv /\ FrameOK /\ Placed(t) /\ Watched(t) /\ UNCHANGED dbVars
  BY IInvInv DEF HInv, IInv, TypeOK, FrameOK, CheckRepoRole, CheckGroupOwner
<1>1. CASE Return(t)
  BY <1>1, <1>a, PlacedReturn
<1>2. CASE /\ Moved(t, "act") /\ req'[t] = req[t]
           /\ pc[t] = "role" /\ HasRole(req[t].repo_id, session[t].user_id, kOwner)
  <2>1. req[t].repo_id \in RepoIds /\ OwnsRepo(session[t].user_id, req[t].repo_id)
    BY <1>a, <1>2, OwnerByRole
  <2>2. req[t].repo_id \in RepoIds' /\ OwnsRepo(session[t].user_id, req[t].repo_id)'
    BY <1>a, <1>2, <2>1 DEF Moved, dbVars, tables, RepoIds, OwnsRepo
  <2>3. req[t].repo_id \in Holds(t)'.repos
    BY <1>2, <2>2 DEF Holds
  <2>4. req[t].repo_id \in held'[t].repos
    BY <1>2, <2>3, HeldStep DEF Moved
  <2>5. req'[t].op \in RepoOps
    BY <1>2, <1>a DEF Placed
  <2>6. QED
    BY <1>2, <2>4, <2>5 DEF Checked, Moved, RepoOps, GroupOps
<1>3. CASE /\ Moved(t, "act") /\ req'[t] = req[t]
           /\ pc[t] = "grpOwner" /\ IsGroupOwner(t)
  <2>1. req'[t].op \in GroupOps
    BY <1>3, <1>a DEF Placed
  <2>2. CASE session[t].role = kOwner
    <3>1. IsAdmin(session[t].user_id)'
      BY <1>3, <1>a, <2>2 DEF Watched, Moved, IsAdmin, dbVars, tables
    <3>2. QED
      BY <1>3, <2>1, <3>1 DEF Checked, Moved, RepoOps, GroupOps
  <2>3. CASE OwnsGroup(session[t].user_id, req[t].grp_id)
    <3>1. req[t].grp_id \in GroupIds
      BY <1>a, <2>3 DEF OwnsGroup, Inv, Integrity, ForeignKeys
    <3>2. req[t].grp_id \in GroupIds' /\ OwnsGroup(session[t].user_id, req[t].grp_id)'
      BY <1>a, <1>3, <2>3, <3>1 DEF Moved, dbVars, tables, GroupIds, OwnsGroup
    <3>3. req[t].grp_id \in Holds(t)'.groups
      BY <1>3, <3>2 DEF Holds
    <3>4. req[t].grp_id \in held'[t].groups
      BY <1>3, <3>3, HeldStep DEF Moved
    <3>5. QED
      BY <1>3, <2>1, <3>4 DEF Checked, Moved, RepoOps, GroupOps
  <2>4. QED
    BY <1>3, <2>2, <2>3 DEF IsGroupOwner, OwnsGroup
<1>4. QED
  BY <1>1, <1>2, <1>3, <1>a, CheckMoves

LEMMA CheckedStep ==
  ASSUME HInv, Record, [DbNext]_dbVars, NEW t \in Threads, Begin(t) \/ Step(t)
  PROVE  Checked(t)'
<1>a. Inv /\ FrameOK /\ Placed(t) /\ Checked(t)
  BY IInvInv DEF HInv, IInv, TypeOK, FrameOK
<1>1. CASE Begin(t)
  <2>1. PICK q \in Requests : pc'[t] = First(q.op) /\ req'[t] = q
    BY <1>1, <1>a, BeginMoves
  <2>2. QED
    BY <2>1 DEF Checked, First, RepoOps, GroupOps
<1>2. CASE SetRepoId(t) \/ SetGrpId(t) \/ SetUserId(t)
  <2>1. Return(t) \/ \E label \in {"grp", "user", "role", "grpOwner"} : Moved(t, label)
    <3>1. \A op : {AfterRepo(op), AfterGrp(op), Check(op)}
                    \subseteq {"grp", "user", "role", "grpOwner"}
      BY DEF AfterRepo, AfterGrp, Check
    <3>2. QED
      BY <1>2, <1>a, <3>1, ResolveMoves
  <2>2. QED
    BY <1>a, <2>1, PlacedReturn DEF Moved, Checked
<1>3. CASE CheckRepoRole(t) \/ CheckGroupOwner(t)
  BY <1>3, CheckHolds
<1>4. CASE GetGroupId(t)
  <2>1. ASSUME NEW g \in groups, g.name = req[t].name, req'[t].grp_id = g.group_id,
               Moved(t, IF pc[t] = "getId" THEN "getIdAgain" ELSE "own")
        PROVE  Checked(t)'
    <3>1. Bound(g.group_id, g.name)
      BY <1>a DEF Bound, Inv, Integrity, PrimaryKeys, IdsBelowSequence, GroupIds
    <3>2. Bound(g.group_id, g.name)'
      BY <1>a, <3>1, BoundStays
    <3>3. QED
      BY <2>1, <3>2 DEF Moved, Checked
  <2>2. QED
    BY <1>4, <1>a, <2>1, LookupMoves, PlacedReturn
<1>5. CASE MiddleStep(t)
  <2>1. CASE Moved(t, "grpUndo") /\ req'[t] = req[t] /\ req[t].op = "groupCreate" /\ pc[t] = "own"
    <3>1. Bound(req[t].grp_id, req[t].name)'
      BY <1>a, <2>1, BoundStays DEF Checked
    <3>2. QED
      BY <2>1, <3>1 DEF Moved, Checked
  <2>2. CASE \/ \E label \in {"rm", "rowid", "undo", "getId", "init"} : Moved(t, label)
             \/ Moved(t, "own") /\ pc[t] \in {"rowid", "init"}
    BY <1>a, <2>2 DEF Moved, Placed, Checked
  <2>3. QED
    BY <1>5, <1>a, <2>1, <2>2, CreateMoves, PlacedReturn DEF MiddleStep
<1>6. CASE LastStep(t)
  BY <1>6, <1>a, LastReturns, PlacedReturn
<1>7. QED
  BY <1>1, <1>2, <1>3, <1>4, <1>5, <1>6, StepCases

\* A session is built from the row of its user, or it is a visitor's.
LEMMA BeginSession ==
  ASSUME FrameOK, NEW t \in Threads, Begin(t), session'[t].role = kOwner
  PROVE  IsAdmin(session'[t].user_id)
<1>1. PICK q \in Requests : session'[t] = Authenticate(q.as)
  BY BeginMoves
<1>2. \E u \in users : u.login = q.as
  BY <1>1 DEF Authenticate, Anonymous, kNone, kOwner
<1>3. PICK u \in users : u = CHOOSE x \in users : x.login = q.as
  BY <1>2
<1>4. session'[t] = [user_id |-> u.user_id, role |-> u.role_id]
  BY <1>1, <1>2, <1>3 DEF Authenticate
<1>5. QED
  BY <1>4 DEF IsAdmin

LEMMA WatchedStep ==
  ASSUME HInv, Record, [Next]_vars, NEW u \in Threads
  PROVE  Watched(u)'
<1>a. Inv /\ FrameOK /\ Watched(u) /\ [DbNext]_dbVars
  BY IInvInv, NextDb DEF HInv, IInv, TypeOK, FrameOK
<1>1. pc'[u] # "idle" => /\ Holds(u)'.repos \subseteq held'[u].repos
                         /\ Holds(u)'.groups \subseteq held'[u].groups
  BY HeldStep
<1>2. CASE session'[u] = session[u]
  BY <1>a, <1>1, <1>2, AdminStays DEF Watched
<1>3. CASE session'[u] = Anonymous
  BY <1>1, <1>3 DEF Watched, Anonymous, kNone, kOwner
<1>4. CASE Begin(u)
  <2>1. session'[u].role = kOwner => IsAdmin(session[u].user_id)'
    BY <1>a, <1>4, BeginSession DEF Begin, IsAdmin, dbVars, tables
  <2>2. QED
    BY <1>1, <2>1 DEF Watched
<1>5. QED
  <2>1. ASSUME NEW t \in Threads, Begin(t) \/ Step(t)
        PROVE  Begin(u) \/ session'[u] = session[u] \/ session'[u] = Anonymous
    <3>1. CASE t # u
      BY <1>a, <2>1, <3>1, StepElsewhere
    <3>2. CASE t = u /\ Step(t)
      BY <1>a, <3>2, StepMoves DEF Goto, GotoWith, Return, FrameOK
    <3>3. QED
      BY <2>1, <3>1, <3>2
  <2>2. CASE MakeAdmin \/ Restart \/ UNCHANGED vars
    BY <1>2, <1>3, <2>2 DEF MakeAdmin, Restart, vars
  <2>3. QED
    BY <1>2, <1>3, <1>4, <2>1, <2>2 DEF Next

LEMMA NextHInv ==
  ASSUME HInv, [Next /\ Record]_auditVars
  PROVE  HInv'
<1>a. FrameOK /\ Inv
  BY IInvInv DEF HInv, IInv, TypeOK, FrameOK
<1>1. CASE Next /\ Record
  <2>a. IInv' /\ Inv' /\ [DbNext]_dbVars
    <3>1. IInv' /\ [DbNext]_dbVars
      BY <1>1, NextIInv, NextDb DEF HInv
    <3>2. QED
      BY <3>1 DEF IInv, TypeOK, Inv
  <2>b. held' \in [Threads -> [repos : SUBSET Nat, groups : SUBSET Nat]]
    BY <1>1, <2>a, HeldType
  <2>c. \A u \in Threads : Watched(u)'
    BY <1>1, WatchedStep
  <2>1. \A u \in Threads : Placed(u)' /\ Checked(u)'
    <3>1. ASSUME NEW t \in Threads, Begin(t) \/ Step(t), NEW u \in Threads
          PROVE  Placed(u)' /\ Checked(u)'
      <4>1. CASE u = t
        BY <1>1, <1>a, <2>a, <3>1, <4>1, PlacedStep, CheckedStep DEF HInv
      <4>2. CASE u # t
        <5>1. pc'[u] = pc[u] /\ req'[u] = req[u] /\ session'[u] = session[u]
          BY <1>a, <3>1, <4>2, StepElsewhere
        <5>2. QED
          BY <1>1, <2>a, <5>1, CheckedStays DEF HInv, Placed
      <4>3. QED
        BY <4>1, <4>2
    <3>2. CASE MakeAdmin
      <4>1. \A u \in Threads : pc'[u] = pc[u] /\ req'[u] = req[u] /\ session'[u] = session[u]
        BY <3>2 DEF MakeAdmin
      <4>2. QED
        BY <1>1, <2>a, <4>1, CheckedStays DEF HInv, Placed
    <3>3. CASE Restart
      BY <3>3, NoRequestMessage DEF Restart, Placed, Checked, RepoOps, GroupOps
    <3>4. QED
      BY <1>1, <3>1, <3>2, <3>3 DEF Next
  <2>2. QED
    BY <2>a, <2>b, <2>c, <2>1 DEF HInv
<1>2. CASE UNCHANGED auditVars
  <2>1. IInv'
    BY <1>2, NextIInv DEF HInv, auditVars
  <2>2. QED
    BY <1>2, <2>1 DEF auditVars, vars, dbVars, tables, HInv, Placed, Watched, Checked, Bound,
       Holds, OwnsRepo, OwnsGroup, IsAdmin, RepoIds, GroupIds
<1>3. QED
  BY <1>1, <1>2

LEMMA InitHInv == AuditInit => HInv
<1> SUFFICES ASSUME AuditInit
             PROVE  HInv
  OBVIOUS
<1>1. IInv
  BY InitIInv DEF AuditInit
<1>2. ASSUME NEW t \in Threads
      PROVE  Placed(t) /\ Watched(t) /\ Checked(t)
  <2>1. pc[t] = "idle" /\ req[t] = NoRequest /\ session[t] = Anonymous
    BY DEF AuditInit, Init
  <2>2. QED
    BY <2>1, NoRequestMessage
    DEF Placed, Watched, Checked, Anonymous, kNone, kOwner, RepoOps, GroupOps
<1>3. held \in [Threads -> [repos : SUBSET Nat, groups : SUBSET Nat]]
  BY DEF AuditInit, Nothing
<1>4. QED
  BY <1>1, <1>2, <1>3 DEF HInv

-----------------------------------------------------------------------------
(* A group without an owner has a handler that will see to it. *)

LEMMA OnlyCreateAdds ==
  ASSUME NEW t \in Threads, Begin(t) \/ Step(t), ~ CreateGroupRow(t)
  PROVE  groups' \subseteq groups
<1>1. CASE Begin(t) \/ CheckStep(t) \/ UserCreate(t)
  BY <1>1, CheckStepDb DEF UserCreate, Finish, Exec, InsertUser, dbVars, tables
<1>2. CASE RepoStep(t)
  BY <1>2 DEF RepoStep, RepoUpdate, RepoAddUser, RepoRemoveUser, RepoAddGroup, RepoRemoveGroup,
     RepoDelete, RemoveDir, CreateRepoRow, ReadRowid, InitDir, SetRepoOwner, UndoRepoRow, Finish,
     Exec, DeleteRepoNamed, DeleteRepo, UpdateRepo, InsertRepo, InsertRepoUser, DeleteRepoUser,
     InsertRepoGroup, DeleteRepoGroup, dbVars, tables
<1>3. CASE GroupStep(t)
  BY <1>3 DEF GroupStep, GroupDelete, GroupAddUser, GroupRemoveUser, GetGroupId, SetGroupOwner,
     UndoGroupRow, Finish, Exec, DeleteGroup, InsertGroupUser, DeleteGroupUser, dbVars, tables
<1>4. QED
  BY <1>1, <1>2, <1>3 DEF Step

\* The responsible handler goes on being so until the group is owned or gone.
LEMMA ResponsibleStep ==
  ASSUME HInv, "sql" \notin Failures, Record, NEW t \in Threads, Begin(t) \/ Step(t),
         NEW g \in groups, g \in groups', Responsible(t, g)
  PROVE  Responsible(t, g)' \/ g.group_id \in everOwned'
<1>a. FrameOK /\ Inv /\ Placed(t)
  BY IInvInv DEF HInv, IInv, TypeOK, FrameOK
<1>b. pc[t] \in {"getId", "getIdAgain", "own", "grpUndo"} /\ req[t].op = "groupCreate"
  BY DEF Responsible
<1>1. CASE GetGroupId(t)
  <2>1. g.name = req[t].name
    BY <1>1 DEF GetGroupId, Responsible
  <2>2. ~ Return(t)
    <3>1. \E x \in groups : /\ x.name = req[t].name
                            /\ GotoWith(t, IF pc[t] = "getId" THEN "getIdAgain" ELSE "own",
                                        [req[t] EXCEPT !.grp_id = x.group_id])
      BY <1>1, <2>1 DEF GetGroupId
    <3>2. pc'[t] # "idle"
      BY <3>1, <1>a DEF GotoWith, FrameOK
    <3>3. QED
      BY <3>2, <1>a, ReturnMoves
  <2>3. PICK x \in groups : /\ x.name = req[t].name /\ req'[t].grp_id = x.group_id
                            /\ Moved(t, IF pc[t] = "getId" THEN "getIdAgain" ELSE "own")
    BY <1>1, <1>a, <2>2, LookupMoves
  <2>4. x = g
    BY <1>a, <2>1, <2>3 DEF Inv, Integrity, PrimaryKeys
  <2>5. QED
    BY <1>b, <2>1, <2>3, <2>4 DEF Moved, Responsible
<1>2. CASE SetGroupOwner(t)
  <2>1. g.group_id = req[t].grp_id
    BY <1>2 DEF SetGroupOwner, Responsible
  <2>2. CASE InsertGroupUser(req[t].grp_id, session[t].user_id, kOwner)
    <3> DEFINE row == [group_id |-> g.group_id, user_id |-> session[t].user_id, role_id |-> kOwner]
    <3>1. row \in groups_users' /\ row.role_id = kOwner /\ row.group_id = g.group_id
      BY <2>1, <2>2 DEF InsertGroupUser
    <3>2. g.group_id \in {m.group_id : m \in {o \in groups_users' : o.role_id = kOwner}}
      BY <3>1
    <3>3. QED
      BY <3>2 DEF Record
  <2>3. CASE Goto(t, "grpUndo")
    BY <2>1, <2>3, <1>a, <1>b, GotoMoves DEF Moved, Responsible
  <2>4. QED
    BY <1>2, <2>2, <2>3 DEF SetGroupOwner, Exec
<1>3. CASE UndoGroupRow(t)
  <2>1. g.group_id = req[t].grp_id
    BY <1>3 DEF UndoGroupRow, Responsible
  <2>2. DeleteGroup(req[t].grp_id)
    BY <1>3 DEF UndoGroupRow, Finish, Exec
  <2>3. QED
    BY <2>1, <2>2 DEF DeleteGroup
<1>4. GetGroupId(t) \/ SetGroupOwner(t) \/ UndoGroupRow(t)
  BY <1>b DEF Begin, Step, CheckStep, SetRepoId, SetGrpId, SetUserId, CheckRepoRole,
     CheckGroupOwner, RepoStep, RepoUpdate, RepoAddUser, RepoRemoveUser, RepoAddGroup,
     RepoRemoveGroup, RepoDelete, RemoveDir, CreateRepoRow, ReadRowid, InitDir, SetRepoOwner,
     UndoRepoRow, GroupStep, GroupDelete, GroupAddUser, GroupRemoveUser, CreateGroupRow,
     UserCreate, Acts
<1>5. QED
  BY <1>1, <1>2, <1>3, <1>4

LEMMA OwnedStep ==
  ASSUME OInv, "sql" \notin Failures, "crash" \notin Failures, Next, Record, NEW g \in groups'
  PROVE  g.group_id \in everOwned' \/ \E t \in Threads : Responsible(t, g)'
<1>a. FrameOK /\ Inv /\ HInv /\ everOwned \subseteq everOwned'
  BY IInvInv DEF OInv, HInv, IInv, TypeOK, FrameOK, Record
<1>1. ASSUME NEW t \in Threads, Begin(t) \/ Step(t), g \in groups
      PROVE  g.group_id \in everOwned' \/ \E u \in Threads : Responsible(u, g)'
  <2>1. CASE g.group_id \in everOwned
    BY <1>a, <2>1
  <2>2. ASSUME NEW u \in Threads \ {t}, Responsible(u, g)
        PROVE  Responsible(u, g)'
    BY <1>a, <1>1, <2>2, StepElsewhere DEF Responsible
  <2>3. CASE Responsible(t, g)
    BY <1>a, <1>1, <2>3, ResponsibleStep
  <2>4. QED
    BY <1>1, <2>1, <2>2, <2>3 DEF OInv
<1>2. ASSUME NEW t \in Threads, CreateGroupRow(t), g \notin groups
      PROVE  Responsible(t, g)'
  <2>1. InsertGroup(req[t].name) /\ Goto(t, "getId") /\ req[t].op = "groupCreate"
    BY <1>2 DEF CreateGroupRow, Acts, Exec, dbVars, tables
  <2>2. g = [group_id |-> sqlite_sequence.groups + 1, name |-> req[t].name]
    BY <1>2, <2>1 DEF InsertGroup
  <2>3. QED
    BY <1>a, <2>1, <2>2, GotoMoves DEF Moved, Responsible
<1>3. CASE MakeAdmin
  <2>1. g \in groups /\ \A t \in Threads : pc'[t] = pc[t] /\ req'[t] = req[t]
    BY <1>3 DEF MakeAdmin, SetAdmin
  <2>2. QED
    BY <1>a, <2>1 DEF OInv, Responsible
<1>4. QED
  BY <1>1, <1>2, <1>3, OnlyCreateAdds DEF Next, Restart

(***************************************************************************)
(* Where statements do not fail and the process does not die, a group      *)
(* without a groupCreate under way is one that had an owner: each group    *)
(* that never had one has a handler that will set it or delete the group,  *)
(* whatever groups of its name others delete and create meanwhile.         *)
(***************************************************************************)
THEOREM GroupsGetOwners ==
  ASSUME "sql" \notin Failures, "crash" \notin Failures
  PROVE  AuditSpec => []NoOwnerlessGroup
<1>1. AuditInit => OInv
  BY InitHInv DEF AuditInit, Init, DbInit, OInv
<1>2. OInv /\ [Next /\ Record]_auditVars => OInv'
  <2>1. ASSUME OInv, Next /\ Record
        PROVE  OInv'
    BY <2>1, OwnedStep, NextHInv DEF OInv
  <2>2. ASSUME OInv, UNCHANGED auditVars
        PROVE  OInv'
    <3>1. HInv'
      BY <2>2, NextHInv DEF OInv
    <3>2. QED
      BY <2>2, <3>1 DEF auditVars, vars, dbVars, tables, OInv, Responsible
  <2>3. QED
    BY <2>1, <2>2
<1>3. OInv => NoOwnerlessGroup
  BY DEF OInv, Responsible, NoOwnerlessGroup, GroupIds
<1>4. QED
  BY <1>1, <1>2, <1>3, PTL DEF AuditSpec
-----------------------------------------------------------------------------
(* A repository without a directory is minded by the handler that made its *)
(* row, and nobody else can reach it: no membership, and so no caller that *)
(* passed a check, has the id of one.                                      *)

\* The ids given whose repositories have their directories, or are gone.
Kept == {i \in Given : i \in RepoIds => i \in repoDirs}

\* Thread t is about to make the directory of the row, or to delete the row.
Minds(t, r) ==
  /\ pc[t] \in {"rowid", "init", "undo"} /\ r.name = req[t].name
  /\ pc[t] = "init" => r.repo_id = req[t].repo_id

KeepsIds(t) ==
  /\ held[t].repos \subseteq Kept
  /\ pc[t] = "own" /\ req[t].op = "repoCreate" => req[t].repo_id \in Kept
  /\ pc[t] = "init" => req[t].repo_id \in Given

NInv ==
  /\ \A r \in repos : r.repo_id \in repoDirs \/ \E t \in Threads : Minds(t, r)
  /\ \A m \in repos_users \cup repos_groups : m.repo_id \in Kept
  /\ \A t \in Threads : KeepsIds(t)

MInv == HInv /\ LInv /\ (~ mixedUp /\ ~ cutShort => NInv)

\* What is kept stays so: a new row has a new id, a removed directory an old one.
LEMMA KeptStep ==
  ASSUME LInv, [Next]_vars
  PROVE  Kept \subseteq Kept'
<1>a. Inv /\ [DbNext]_dbVars /\ sqlite_sequence.repos \in Nat
  BY IInvInv, NextDb DEF LInv, Inv, DbTypeOK, AutoTables
<1>1. ASSUME NEW i \in Kept, i \in RepoIds'
      PROVE  i \in RepoIds
  BY <1>1, <1>a, IdsStep DEF IdsStay, IdBorn, IdDies, Kept, Given
<1>2. ASSUME NEW i \in RepoIds, i \in repoDirs
      PROVE  i \in repoDirs'
  <2>1. CASE \E t \in Threads : RemoveDir(t)
    BY <1>2, <2>1 DEF RemoveDir, LInv, SafeDelete, Gone
  <2>2. QED
    BY <1>2, <2>1, DirsStep
<1>3. Given \subseteq Given'
  BY GivenStep
<1>4. QED
  BY <1>1, <1>2, <1>3 DEF Kept

\* Where the rows of repositories come from.
LEMMA RowsStep ==
  ASSUME HInv, NEW t \in Threads, Begin(t) \/ Step(t), NEW r \in repos'
  PROVE  \/ \E q \in repos : q.repo_id = r.repo_id /\ q.name = r.name
         \/ CreateRepoRow(t) /\ Goto(t, "rowid") /\ r.name = req[t].name
         \/ RepoUpdate(t) /\ r.repo_id = req[t].repo_id
<1>a. Inv
  BY IInvInv DEF HInv
<1>1. CASE RepoUpdate(t)
  <2>1. CASE UpdateRepo(req[t].repo_id, req[t].name, req[t].is_public)
    <3>1. PICK q \in repos :
            r = IF q.repo_id = req[t].repo_id
                  THEN [q EXCEPT !.name = req[t].name, !.is_public = req[t].is_public] ELSE q
      BY <2>1, Zenon DEF UpdateRepo
    <3>2. q.repo_id = req[t].repo_id =>
            [q EXCEPT !.name = req[t].name, !.is_public = req[t].is_public].repo_id = q.repo_id
      BY <1>a DEF Inv, DbTypeOK, Repo
    <3>3. QED
      BY <1>1, <3>1, <3>2
  <2>2. CASE UNCHANGED dbVars
    BY <2>2 DEF dbVars, tables
  <2>3. QED
    BY <1>1, <2>1, <2>2 DEF RepoUpdate, Finish, Exec
<1>2. CASE CreateRepoRow(t)
  <2>1. CASE InsertRepo(req[t].name, req[t].is_public) /\ Goto(t, "rowid")
    BY <1>2, <2>1 DEF InsertRepo
  <2>2. CASE UNCHANGED dbVars
    BY <2>2 DEF dbVars, tables
  <2>3. QED
    BY <1>2, <2>1, <2>2 DEF CreateRepoRow, Exec
<1>3. CASE Begin(t) \/ CheckStep(t) \/ GroupStep(t) \/ UserCreate(t)
  <2>1. repos' = repos
    BY <1>3, <1>a, ChecksLeaveDirs DEF HInv, IInv, TypeOK, FrameOK
  <2>2. QED
    BY <2>1
<1>4. CASE \/ RepoAddUser(t) \/ RepoRemoveUser(t) \/ RepoAddGroup(t) \/ RepoRemoveGroup(t)
           \/ RepoDelete(t) \/ RemoveDir(t) \/ ReadRowid(t) \/ InitDir(t) \/ SetRepoOwner(t)
           \/ UndoRepoRow(t)
  <2>1. repos' \subseteq repos
    BY <1>4 DEF RepoAddUser, RepoRemoveUser, RepoAddGroup, RepoRemoveGroup, RepoDelete, RemoveDir,
       ReadRowid, InitDir, SetRepoOwner, UndoRepoRow, Finish, Exec, InsertRepoUser,
       DeleteRepoUser, InsertRepoGroup, DeleteRepoGroup, DeleteRepoNamed, DeleteRepo, dbVars, tables
  <2>2. QED
    BY <2>1
<1>5. QED
  BY <1>1, <1>2, <1>3, <1>4 DEF Step, RepoStep

\* Who gets a membership: by an id its handler's caller owned, or made himself.
LEMMA MemberFrom ==
  ASSUME HInv, NEW t \in Threads, Begin(t) \/ Step(t),
         NEW m \in repos_users' \cup repos_groups'
  PROVE  \/ m \in repos_users \cup repos_groups
         \/ m.repo_id \in held[t].repos
         \/ SetRepoOwner(t) /\ Return(t) /\ m.repo_id = req[t].repo_id
<1>a. Checked(t)
  BY DEF HInv
<1>1. CASE RepoAddUser(t) \/ RepoAddGroup(t)
  <2>1. req[t].repo_id \in held[t].repos
    BY <1>1, <1>a DEF RepoAddUser, RepoAddGroup, Acts, Checked, RepoOps
  <2>2. QED
    BY <1>1, <2>1 DEF RepoAddUser, RepoAddGroup, Finish, Exec, InsertRepoUser, InsertRepoGroup,
       dbVars, tables
<1>2. CASE SetRepoOwner(t)
  BY <1>2 DEF SetRepoOwner, Exec, InsertRepoUser, dbVars, tables
<1>3. CASE Begin(t) \/ CheckStep(t) \/ UserCreate(t)
  BY <1>3, CheckStepDb DEF UserCreate, Finish, Exec, InsertUser, dbVars, tables
<1>4. CASE GroupStep(t)
  BY <1>4 DEF GroupStep, GroupDelete, GroupAddUser, GroupRemoveUser, CreateGroupRow,
     GetGroupId, SetGroupOwner, UndoGroupRow, Finish, Exec, DeleteGroup, InsertGroupUser,
     DeleteGroupUser, InsertGroup, dbVars, tables
<1>5. CASE \/ RepoUpdate(t) \/ RepoRemoveUser(t) \/ RepoRemoveGroup(t) \/ RepoDelete(t)
           \/ RemoveDir(t) \/ CreateRepoRow(t) \/ ReadRowid(t) \/ InitDir(t) \/ UndoRepoRow(t)
  BY <1>5 DEF RepoUpdate, RepoRemoveUser, RepoRemoveGroup, RepoDelete, RemoveDir,
     CreateRepoRow, ReadRowid, InitDir, UndoRepoRow, Finish, Exec, UpdateRepo, DeleteRepoUser,
     DeleteRepoGroup, DeleteRepo, DeleteRepoNamed, InsertRepo, dbVars, tables
<1>6. QED
  BY <1>1, <1>2, <1>3, <1>4, <1>5 DEF Step, RepoStep

\* A membership is new only with an id the handler was allowed, or made itself.
LEMMA MembersStep ==
  ASSUME HInv, NInv, NEW t \in Threads, Begin(t) \/ Step(t),
         NEW m \in repos_users' \cup repos_groups'
  PROVE  m.repo_id \in Kept
  BY MemberFrom DEF NInv, KeepsIds, SetRepoOwner

\* The rowid is that of the new row, unless it was mixed up.
LEMMA RowidStep ==
  ASSUME FrameOK, Inv, NEW t \in Threads, ReadRowid(t), ~ MixesUp(t)
  PROVE  /\ lastRowid \in RepoIds /\ req'[t].repo_id = lastRowid
         /\ \A r \in repos : r.name = req[t].name => r.repo_id = lastRowid
<1>1. pc[t] = "rowid" /\ pc'[t] = "init" /\ req'[t].repo_id = lastRowid
  BY DEF ReadRowid, GotoWith, FrameOK, Message
<1>2. PICK q \in repos : q.name = req[t].name /\ q.repo_id = lastRowid
  BY <1>1 DEF MixesUp
<1>3. \A r \in repos : r.name = req[t].name => r = q
  BY <1>2 DEF Inv, Integrity, PrimaryKeys
<1>4. QED
  BY <1>1, <1>2, <1>3 DEF RepoIds

\* The handler that minds a row goes on doing so until its directory is made.
LEMMA MindsStep ==
  ASSUME FrameOK, Inv, "sql" \notin Failures, NEW t \in Threads, Begin(t) \/ Step(t),
         ~ MixesUp(t), NEW q \in repos, Minds(t, q),
         NEW r \in repos', r.repo_id = q.repo_id, r.name = q.name
  PROVE  Minds(t, r)' \/ r.repo_id \in repoDirs'
<1>1. CASE ReadRowid(t)
  <2>1. q.name = req[t].name
    BY DEF Minds
  <2>2. req'[t].repo_id = q.repo_id
    BY <1>1, <2>1, RowidStep
  <2>3. pc'[t] = "init" /\ req'[t].name = req[t].name
    BY <1>1 DEF ReadRowid, GotoWith, FrameOK, Message
  <2>4. QED
    BY <2>1, <2>2, <2>3 DEF Minds
<1>2. CASE InitDir(t)
  <2>1. q.name = req[t].name /\ q.repo_id = req[t].repo_id
    BY <1>2 DEF InitDir, Minds
  <2>2. CASE repoDirs' = repoDirs \cup {req[t].repo_id}
    BY <2>1, <2>2
  <2>3. CASE Goto(t, "undo")
    BY <2>1, <2>3, GotoMoves DEF Moved, Minds
  <2>4. QED
    BY <1>2, <2>2, <2>3 DEF InitDir
<1>3. CASE UndoRepoRow(t)
  <2>1. q.name = req[t].name /\ DeleteRepoNamed(req[t].name)
    BY <1>3 DEF UndoRepoRow, Finish, Exec, Minds
  <2>2. PICK x \in repos : x.name = req[t].name /\ DeleteRepo(x.repo_id)
    BY <2>1 DEF DeleteRepoNamed
  <2>3. x = q
    BY <2>1, <2>2 DEF Inv, Integrity, PrimaryKeys
  <2>4. QED
    BY <2>2, <2>3 DEF DeleteRepo
<1>4. ReadRowid(t) \/ InitDir(t) \/ UndoRepoRow(t)
  BY DEF Minds, Begin, Step, CheckStep, SetRepoId, SetGrpId, SetUserId, CheckRepoRole,
     CheckGroupOwner, RepoStep, RepoUpdate, RepoAddUser, RepoRemoveUser, RepoAddGroup,
     RepoRemoveGroup, RepoDelete, RemoveDir, CreateRepoRow, SetRepoOwner, GroupStep, GroupDelete,
     GroupAddUser, GroupRemoveUser, CreateGroupRow, GetGroupId, SetGroupOwner, UndoGroupRow,
     UserCreate, Acts
<1>5. QED
  BY <1>1, <1>2, <1>3, <1>4

LEMMA RowsAreMinded ==
  ASSUME HInv, LInv, NInv, "sql" \notin Failures, [Next]_vars, NEW t \in Threads,
         Begin(t) \/ Step(t), ~ MixesUp(t), NEW r \in repos'
  PROVE  r.repo_id \in repoDirs' \/ \E u \in Threads : Minds(u, r)'
<1>a. FrameOK /\ Inv /\ Checked(t) /\ KeepsIds(t)
  BY IInvInv DEF HInv, IInv, TypeOK, FrameOK, NInv
<1>b. ASSUME r.repo_id \in Kept
      PROVE  r.repo_id \in repoDirs'
  BY <1>b, KeptStep DEF Kept, RepoIds
<1>1. ASSUME NEW q \in repos, q.repo_id = r.repo_id, q.name = r.name
      PROVE  r.repo_id \in repoDirs' \/ \E u \in Threads : Minds(u, r)'
  <2>1. CASE q.repo_id \in repoDirs
    <3>1. q.repo_id \in Given
      BY <1>a DEF Inv, Integrity, IdsBelowSequence, Given, RepoIds
    <3>2. QED
      BY <1>1, <2>1, <3>1, <1>b DEF Kept
  <2>2. ASSUME NEW u \in Threads \ {t}, Minds(u, q)
        PROVE  Minds(u, r)'
    BY <1>a, <1>1, <2>2, StepElsewhere DEF Minds
  <2>3. CASE Minds(t, q)
    BY <1>a, <1>1, <2>3, MindsStep
  <2>4. QED
    BY <2>1, <2>2, <2>3 DEF NInv
<1>2. CASE CreateRepoRow(t) /\ Goto(t, "rowid") /\ r.name = req[t].name
  <2>1. pc'[t] = "rowid" /\ req'[t] = req[t]
    BY <1>a, <1>2, GotoMoves DEF Moved
  <2>2. Minds(t, r)'
    BY <1>2, <2>1 DEF Minds
  <2>3. QED
    BY <2>2
<1>3. CASE RepoUpdate(t) /\ r.repo_id = req[t].repo_id
  BY <1>3, <1>a, <1>b DEF RepoUpdate, Acts, Checked, RepoOps, KeepsIds
<1>4. QED
  BY <1>1, <1>2, <1>3, RowsStep

\* No caller comes to own a repository that lacks its directory.
LEMMA HeldIsKept ==
  ASSUME HInv, NInv, Record, Kept \subseteq Kept', NEW u \in Threads,
         \A m \in repos_users' \cup repos_groups' : m.repo_id \in Kept'
  PROVE  held'[u].repos \subseteq Kept'
<1>1. Holds(u)'.repos \subseteq Kept'
  BY DEF Holds, OwnsRepo
<1>2. held[u].repos \subseteq Kept'
  BY DEF NInv, KeepsIds
<1>3. held'[u].repos \subseteq held[u].repos \cup Holds(u)'.repos
  BY DEF Record, Nothing
<1>4. QED
  BY <1>1, <1>2, <1>3

LEMMA KeepsStep ==
  ASSUME HInv, LInv, NInv, [Next]_vars, NEW t \in Threads, Begin(t) \/ Step(t), ~ MixesUp(t)
  PROVE  /\ pc'[t] = "own" /\ req'[t].op = "repoCreate" => req'[t].repo_id \in Kept'
         /\ pc'[t] = "init" => req'[t].repo_id \in Given'
<1>a. FrameOK /\ Inv /\ Placed(t) /\ KeepsIds(t)
  BY IInvInv DEF HInv, IInv, TypeOK, FrameOK, NInv
<1>1. CASE ReadRowid(t)
  <2>1. lastRowid \in Given
    BY <1>a, <1>1, RowidStep DEF Inv, Integrity, IdsBelowSequence, Given
  <2>2. pc'[t] = "init" /\ req'[t].repo_id = lastRowid
    BY <1>a, <1>1, RowidStep DEF ReadRowid, GotoWith, FrameOK
  <2>3. QED
    BY <2>1, <2>2, GivenStep
<1>2. CASE InitDir(t)
  <2>1. req[t].repo_id \in Given /\ req'[t] = req[t]
    BY <1>a, <1>2, GotoMoves DEF InitDir, KeepsIds
  <2>2. CASE repoDirs' = repoDirs \cup {req[t].repo_id} /\ Goto(t, "own")
    <3>1. req[t].repo_id \in Kept'
      BY <2>1, <2>2, GivenStep DEF Kept
    <3>2. pc'[t] = "own"
      BY <1>a, <2>2, GotoMoves DEF Moved
    <3>3. QED
      BY <2>1, <3>1, <3>2
  <2>3. CASE Goto(t, "undo")
    BY <1>a, <2>3, GotoMoves DEF Moved
  <2>4. QED
    BY <1>2, <2>2, <2>3 DEF InitDir
<1>3. CASE Begin(t)
  BY <1>3, <1>a, BeginMoves DEF First
<1>4. CASE SetRepoId(t) \/ SetGrpId(t) \/ SetUserId(t) \/ CheckRepoRole(t) \/ CheckGroupOwner(t)
  <2>1. Return(t) \/ \E label \in {"act", Check(req[t].op), AfterGrp(req[t].op),
                                    AfterRepo(req[t].op)} : Moved(t, label)
    BY <1>4, <1>a, ResolveMoves, CheckMoves
  <2>2. QED
    BY <1>a, <2>1, ReturnMoves DEF Moved, Check, AfterGrp, AfterRepo
<1>5. CASE GetGroupId(t)
  <2>1. req[t].op = "groupCreate"
    BY <1>5, <1>a DEF GetGroupId, Placed
  <2>2. QED
    BY <1>5, <1>a, <2>1, LookupMoves, ReturnMoves DEF Moved
<1>6. CASE RepoDelete(t) \/ CreateRepoRow(t) \/ SetRepoOwner(t) \/ CreateGroupRow(t)
           \/ SetGroupOwner(t)
  <2>1. Return(t) \/ \E label \in {"rm", "rowid", "undo", "getId", "grpUndo"} : Goto(t, label)
    BY <1>6 DEF RepoDelete, CreateRepoRow, SetRepoOwner, CreateGroupRow, SetGroupOwner, Exec
  <2>2. QED
    BY <1>a, <2>1, GotoMoves, ReturnMoves DEF Moved
<1>7. CASE LastStep(t)
  BY <1>7, <1>a, LastReturns, ReturnMoves
<1>8. QED
  BY <1>1, <1>2, <1>3, <1>4, <1>5, <1>6, <1>7, StepCases DEF MiddleStep

LEMMA NextNInv ==
  ASSUME HInv, LInv, NInv, "sql" \notin Failures, Next, Record, ~ mixedUp', ~ cutShort'
  PROVE  NInv'
<1>a. /\ FrameOK /\ Kept \subseteq Kept' /\ Given \subseteq Given'
      /\ ~ Interrupts /\ \A t \in Threads : ~ MixesUp(t)
  BY KeptStep, GivenStep DEF HInv, IInv, TypeOK, FrameOK, Record
<1>1. ASSUME NEW t \in Threads, Begin(t) \/ Step(t)
      PROVE  NInv'
  <2>1. \A m \in repos_users' \cup repos_groups' : m.repo_id \in Kept'
    BY <1>1, <1>a, MembersStep
  <2>2. ASSUME NEW u \in Threads
        PROVE  KeepsIds(u)'
    <3>1. held'[u].repos \subseteq Kept'
      BY <1>a, <2>1, HeldIsKept
    <3>2. CASE u = t
      BY <3>1, <3>2, <1>1, <1>a, KeepsStep DEF KeepsIds
    <3>3. CASE u # t
      <4>1. pc'[u] = pc[u] /\ req'[u] = req[u]
        BY <1>1, <1>a, <3>3, StepElsewhere
      <4>2. QED
        BY <3>1, <4>1, <1>a DEF KeepsIds, NInv
    <3>4. QED
      BY <3>2, <3>3
  <2>3. \A r \in repos' : r.repo_id \in repoDirs' \/ \E u \in Threads : Minds(u, r)'
    BY <1>1, <1>a, RowsAreMinded
  <2>4. QED
    BY <2>1, <2>2, <2>3 DEF NInv
<1>2. CASE MakeAdmin \/ Restart
  <2>1. UNCHANGED <<repos, repos_users, repos_groups, repoDirs>>
    BY <1>2 DEF MakeAdmin, SetAdmin, Restart, Reconnect, tables
  <2>2. \A m \in repos_users' \cup repos_groups' : m.repo_id \in Kept'
    BY <1>a, <2>1 DEF NInv
  <2>3. \A u \in Threads : held'[u].repos \subseteq Kept'
    BY <1>a, <2>2, HeldIsKept
  <2>4. CASE MakeAdmin
    BY <1>a, <2>1, <2>2, <2>3, <2>4 DEF MakeAdmin, NInv, KeepsIds, Minds
  <2>5. CASE Restart
    <3>1. \A r \in repos : r.repo_id \in repoDirs
      BY <1>a, <2>5 DEF Interrupts, Creating, NInv, Minds
    <3>2. \A u \in Threads : pc'[u] = "idle"
      BY <2>5 DEF Restart
    <3>3. QED
      BY <2>1, <2>2, <2>3, <3>1, <3>2 DEF NInv, KeepsIds
  <2>6. QED
    BY <1>2, <2>4, <2>5
<1>3. QED
  BY <1>1, <1>2 DEF Next

(***************************************************************************)
(* However many threads serve, whatever git_repository_init does and       *)
(* wherever the process dies, a repository without its directory is one    *)
(* whose repoCreate is under way - as long as statements do not fail, the  *)
(* rowid was read right each time and no repoCreate was cut short by a     *)
(* restart (repositories.cc:34-89).  Of all that may go wrong between the  *)
(* statements of these handlers, those two accidents are enough to answer  *)
(* for every directory that is missing.                                    *)
(***************************************************************************)
THEOREM DirsAreKept ==
  ASSUME "sql" \notin Failures
  PROVE  AuditSpec => []UndisturbedDirs
<1>1. AuditInit => MInv
  <2>1. AuditInit => /\ repos = {} /\ repos_users = {} /\ repos_groups = {}
                     /\ \A t \in Threads : pc[t] = "idle" /\ held[t].repos = {}
    BY DEF AuditInit, Init, DbInit, Nothing
  <2>2. AuditInit => NInv
    BY <2>1 DEF NInv, KeepsIds
  <2>3. QED
    BY <2>2, InitHInv, InitLInv DEF AuditInit, MInv
<1>2. MInv /\ [Next /\ Record]_auditVars => MInv'
  <2>1. ASSUME MInv, Next /\ Record
        PROVE  MInv'
    <3>1. HInv' /\ LInv'
      BY <2>1, NextHInv, NextLInv DEF MInv
    <3>2. (~ mixedUp' => ~ mixedUp) /\ (~ cutShort' => ~ cutShort)
      BY <2>1 DEF Record
    <3>3. QED
      BY <2>1, <3>1, <3>2, NextNInv DEF MInv
  <2>2. ASSUME MInv, UNCHANGED auditVars
        PROVE  MInv'
    <3>1. HInv' /\ LInv'
      BY <2>2, NextHInv, NextLInv DEF MInv, auditVars
    <3>2. NInv => NInv'
      BY <2>2 DEF auditVars, vars, dbVars, tables, NInv, KeepsIds, Kept, Given, RepoIds, Minds
    <3>3. QED
      BY <2>2, <3>1, <3>2 DEF auditVars, MInv
  <2>3. QED
    BY <2>1, <2>2
<1>3. MInv => UndisturbedDirs
  BY DEF MInv, NInv, Minds, Creating, UndisturbedDirs
<1>4. QED
  BY <1>1, <1>2, <1>3, PTL DEF AuditSpec

-----------------------------------------------------------------------------
(* The row of a repository that is being created stays until the call      *)
(* ends: whoever is to rename or delete it by its id needs to have owned   *)
(* it, and whoever deletes it by its name to have made it.                 *)

Making(t) == req[t].op = "repoCreate" /\ pc[t] \in {"rowid", "init", "own", "undo"}

Unowned(i) ==
  /\ \A m \in repos_users \cup repos_groups : m.repo_id # i
  /\ \A u \in Threads : i \notin held[u].repos

Made(t, r) ==
  /\ r.name = req[t].name /\ Unowned(r.repo_id)
  /\ pc[t] \in {"init", "own"} => req[t].repo_id = r.repo_id

CInv ==
  /\ \A t \in Threads : Making(t) => \E r \in repos : Made(t, r)
  /\ \A t, u \in Threads : Making(t) /\ Making(u) /\ req[t].name = req[u].name => t = u
  /\ \A t \in Threads : held[t].repos \subseteq Given

LEMMA MakingSteps ==
  ASSUME NEW t \in Threads, Making(t), Begin(t) \/ Step(t)
  PROVE  ReadRowid(t) \/ InitDir(t) \/ SetRepoOwner(t) \/ UndoRepoRow(t)
  BY DEF Making, Begin, Step, CheckStep, SetRepoId, SetGrpId, SetUserId, CheckRepoRole,
     CheckGroupOwner, RepoStep, RepoUpdate, RepoAddUser, RepoRemoveUser, RepoAddGroup,
     RepoRemoveGroup, RepoDelete, RemoveDir, CreateRepoRow, GroupStep, GroupDelete,
     GroupAddUser, GroupRemoveUser, CreateGroupRow, GetGroupId, SetGroupOwner, UndoGroupRow,
     UserCreate, Acts

\* Who goes on creating has done so before, or inserts the row just now.
LEMMA MakingBefore ==
  ASSUME HInv, NEW t \in Threads, Begin(t) \/ Step(t), Making(t)'
  PROVE  \/ Making(t) /\ req'[t].name = req[t].name
         \/ /\ CreateRepoRow(t) /\ AcceptsRepo(req[t].name) /\ Goto(t, "rowid")
            /\ InsertRepo(req[t].name, req[t].is_public)
<1>a. FrameOK /\ Placed(t)
  BY DEF HInv, IInv, TypeOK, FrameOK
<1>b. ~ Return(t)
  BY <1>a, ReturnMoves DEF Making
<1>1. CASE Begin(t)
  BY <1>1, <1>a, BeginMoves DEF First, Making
<1>2. CASE SetRepoId(t) \/ SetGrpId(t) \/ SetUserId(t) \/ CheckRepoRole(t) \/ CheckGroupOwner(t)
  <2>1. \E label \in {"act", Check(req[t].op), AfterGrp(req[t].op), AfterRepo(req[t].op)} :
          Moved(t, label)
    BY <1>2, <1>a, <1>b, ResolveMoves, CheckMoves
  <2>2. QED
    BY <2>1 DEF Moved, Check, AfterGrp, AfterRepo, Making
<1>3. CASE GetGroupId(t) \/ CreateGroupRow(t) \/ SetGroupOwner(t)
  <2>1. req[t].op = "groupCreate"
    BY <1>3, <1>a DEF GetGroupId, CreateGroupRow, SetGroupOwner, Acts, Placed
  <2>2. req'[t].op = "groupCreate"
    <3>1. CASE GetGroupId(t)
      BY <3>1, <2>1, <1>a, <1>b, LookupMoves DEF Moved
    <3>2. CASE CreateGroupRow(t) \/ SetGroupOwner(t)
      BY <3>2, <2>1, <1>a, <1>b, GotoMoves DEF CreateGroupRow, SetGroupOwner, Exec
    <3>3. QED
      BY <1>3, <3>1, <3>2
  <2>3. QED
    BY <2>2 DEF Making
<1>4. CASE RepoDelete(t)
  <2>1. Goto(t, "rm")
    BY <1>4 DEF RepoDelete, Exec
  <2>2. QED
    BY <2>1, <1>a, GotoMoves DEF Moved, Making
<1>5. CASE CreateRepoRow(t)
  BY <1>5, <1>b DEF CreateRepoRow, Exec
<1>6. CASE ReadRowid(t)
  BY <1>6, <1>a DEF ReadRowid, GotoWith, FrameOK, Message, Making, Placed
<1>7. CASE InitDir(t) \/ SetRepoOwner(t)
  <2>1. \E label : Goto(t, label)
    BY <1>7, <1>b DEF InitDir, SetRepoOwner, Exec
  <2>2. QED
    BY <1>7, <2>1, <1>a, GotoMoves DEF InitDir, SetRepoOwner, Making, Placed
<1>8. CASE LastStep(t)
  BY <1>8, <1>b, LastReturns
<1>9. QED
  BY <1>1, <1>2, <1>3, <1>4, <1>5, <1>6, <1>7, <1>8, StepCases DEF MiddleStep

\* An unowned row goes only when the handler that made it takes it back.
LEMMA UnownedStays ==
  ASSUME HInv, NEW t \in Threads, Begin(t) \/ Step(t), NEW r \in repos, Unowned(r.repo_id),
         UndoRepoRow(t) => r.name # req[t].name
  PROVE  r \in repos'
<1>a. Inv /\ FrameOK /\ Checked(t)
  BY IInvInv DEF HInv, IInv, TypeOK, FrameOK
<1>1. CASE RepoUpdate(t) \/ RepoDelete(t)
  <2>1. r.repo_id # req[t].repo_id
    BY <1>1, <1>a DEF RepoUpdate, RepoDelete, Acts, Checked, RepoOps, Unowned
  <2>2. CASE DeleteRepo(req[t].repo_id) \/ UNCHANGED dbVars
    BY <2>1, <2>2 DEF DeleteRepo, dbVars, tables
  <2>3. CASE UpdateRepo(req[t].repo_id, req[t].name, req[t].is_public)
    <3> DEFINE new(x) == IF x.repo_id = req[t].repo_id
                           THEN [x EXCEPT !.name = req[t].name, !.is_public = req[t].is_public]
                           ELSE x
    <3>1. repos' = {new(x) : x \in repos}
      BY <2>3 DEF UpdateRepo
    <3>2. new(r) = r
      BY <2>1
    <3>3. QED
      <4> HIDE DEF new
      <4> QED BY <3>1, <3>2
  <2>4. QED
    BY <1>1, <2>2, <2>3 DEF RepoUpdate, RepoDelete, Finish, Exec
<1>2. CASE UndoRepoRow(t)
  <2>1. CASE UNCHANGED dbVars
    BY <2>1 DEF dbVars, tables
  <2>2. ASSUME NEW x \in repos, x.name = req[t].name, DeleteRepo(x.repo_id)
        PROVE  r \in repos'
    <3>1. r.repo_id # x.repo_id
      BY <1>a, <1>2, <2>2 DEF Inv, Integrity, PrimaryKeys
    <3>2. QED
      BY <2>2, <3>1 DEF DeleteRepo
  <2>3. QED
    BY <1>2, <2>1, <2>2 DEF UndoRepoRow, Finish, Exec, DeleteRepoNamed
<1>3. CASE Begin(t) \/ CheckStep(t) \/ GroupStep(t) \/ UserCreate(t)
  BY <1>3, <1>a, ChecksLeaveDirs
<1>4. CASE \/ RepoAddUser(t) \/ RepoRemoveUser(t) \/ RepoAddGroup(t) \/ RepoRemoveGroup(t)
           \/ RemoveDir(t) \/ CreateRepoRow(t) \/ ReadRowid(t) \/ InitDir(t) \/ SetRepoOwner(t)
  BY <1>4 DEF RepoAddUser, RepoRemoveUser, RepoAddGroup, RepoRemoveGroup, RemoveDir,
     CreateRepoRow, ReadRowid, InitDir, SetRepoOwner, Finish, Exec, InsertRepoUser, InsertRepo,
     DeleteRepoUser, InsertRepoGroup, DeleteRepoGroup, dbVars, tables
<1>5. QED
  BY <1>1, <1>2, <1>3, <1>4 DEF Step, RepoStep

\* Nobody comes to own what has no members.
LEMMA HeldFrom ==
  ASSUME Record, NEW u \in Threads, NEW i \in held'[u].repos
  PROVE  i \in held[u].repos \/ \E m \in repos_users' \cup repos_groups' : m.repo_id = i
<1>1. held'[u].repos \subseteq held[u].repos \cup Holds(u)'.repos
  BY DEF Record, Nothing
<1>2. i \in Holds(u)'.repos => \E m \in repos_users' \cup repos_groups' : m.repo_id = i
  BY DEF Holds, OwnsRepo
<1>3. QED
  BY <1>1, <1>2

LEMMA StaysUnowned ==
  ASSUME HInv, Record, NEW t \in Threads, Begin(t) \/ Step(t), NEW i, Unowned(i),
         SetRepoOwner(t) /\ Return(t) => req[t].repo_id # i
  PROVE  Unowned(i)'
<1>1. \A m \in repos_users' \cup repos_groups' : m.repo_id # i
  BY MemberFrom DEF Unowned
<1>2. \A u \in Threads : i \notin held'[u].repos
  BY <1>1, HeldFrom DEF Unowned
<1>3. QED
  BY <1>1, <1>2 DEF Unowned

LEMMA MadeByOthers ==
  ASSUME HInv, CInv, Record, NEW t \in Threads, Begin(t) \/ Step(t),
         NEW u \in Threads \ {t}, Making(u)
  PROVE  \E r \in repos' : Made(u, r)'
<1>a. FrameOK /\ Inv /\ Placed(t)
  BY IInvInv DEF HInv, IInv, TypeOK, FrameOK
<1>b. PICK r \in repos : Made(u, r)
  BY DEF CInv
<1>c. Making(t) => req[t].name # req[u].name
  BY DEF CInv
<1>1. pc'[u] = pc[u] /\ req'[u] = req[u]
  BY <1>a, StepElsewhere
<1>2. r \in repos'
  <2>1. UndoRepoRow(t) => r.name # req[t].name
    BY <1>a, <1>b, <1>c DEF UndoRepoRow, Placed, Making, Made
  <2>2. QED
    BY <1>b, <2>1, UnownedStays DEF Made
<1>3. Unowned(r.repo_id)'
  <2>1. ASSUME SetRepoOwner(t)
        PROVE  req[t].repo_id # r.repo_id
    <3>1. Making(t) /\ pc[t] = "own"
      BY <2>1 DEF SetRepoOwner, Making
    <3>2. PICK q \in repos : Made(t, q)
      BY <3>1 DEF CInv
    <3>3. q.name # r.name /\ q.repo_id = req[t].repo_id
      BY <1>b, <1>c, <3>1, <3>2 DEF Made
    <3>4. QED
      BY <1>a, <3>3 DEF Inv, Integrity, PrimaryKeys
  <2>2. QED
    BY <1>b, <2>1, StaysUnowned DEF Made
<1>4. QED
  BY <1>b, <1>1, <1>2, <1>3 DEF Made

LEMMA MadeByItself ==
  ASSUME HInv, CInv, Record, NEW t \in Threads, Begin(t) \/ Step(t), ~ MixesUp(t),
         Making(t), Making(t)'
  PROVE  \E r \in repos' : Made(t, r)'
<1>a. FrameOK /\ Inv
  BY IInvInv DEF HInv, IInv, TypeOK, FrameOK
<1>b. PICK r \in repos : Made(t, r)
  BY DEF CInv
<1>c. ~ Return(t)
  BY <1>a, ReturnMoves DEF Making
<1>1. ReadRowid(t) \/ InitDir(t) \/ (SetRepoOwner(t) /\ Goto(t, "undo"))
  BY <1>c, MakingSteps DEF UndoRepoRow, Finish, Exec, SetRepoOwner
<1>2. repos' = repos
  BY <1>1, <1>c DEF ReadRowid, InitDir, SetRepoOwner, Exec, InsertRepoUser, dbVars, tables
<1>3. Unowned(r.repo_id)'
  BY <1>b, <1>c, StaysUnowned DEF Made
<1>4. /\ req'[t].name = req[t].name
      /\ pc'[t] \in {"init", "own"} => req'[t].repo_id = r.repo_id
  <2>1. CASE ReadRowid(t)
    <3>1. req'[t].repo_id = r.repo_id
      BY <1>a, <1>b, <2>1, RowidStep DEF Made
    <3>2. req'[t].name = req[t].name
      BY <1>a, <2>1 DEF ReadRowid, GotoWith, FrameOK, Message
    <3>3. QED
      BY <3>1, <3>2
  <2>2. CASE InitDir(t)
    <3>1. req'[t] = req[t] /\ pc[t] = "init"
      BY <1>a, <2>2, GotoMoves DEF InitDir
    <3>2. QED
      BY <1>b, <3>1 DEF Made
  <2>3. CASE Goto(t, "undo")
    BY <1>a, <2>3, GotoMoves DEF Moved
  <2>4. QED
    BY <1>1, <2>1, <2>2, <2>3
<1>5. QED
  BY <1>b, <1>2, <1>3, <1>4 DEF Made

\* A new row has an id that was never given, and a name no other call uses.
LEMMA MadeNew ==
  ASSUME HInv, CInv, Record, NEW t \in Threads, CreateRepoRow(t), Goto(t, "rowid"),
         InsertRepo(req[t].name, req[t].is_public)
  PROVE  \E r \in repos' : Made(t, r)'
<1>a. FrameOK /\ Inv
  BY IInvInv DEF HInv, IInv, TypeOK, FrameOK
<1>b. PICK id : id = sqlite_sequence.repos + 1
  OBVIOUS
<1>c. PICK row : row = [repo_id |-> id, name |-> req[t].name, is_public |-> req[t].is_public]
  OBVIOUS
<1>1. row \in repos' /\ row.repo_id = id /\ row.name = req[t].name
  BY <1>b, <1>c DEF InsertRepo
<1>2. id \notin Given
  BY <1>a, <1>b DEF Inv, DbTypeOK, AutoTables, Given
<1>3. Unowned(id)
  <2>1. \A m \in repos_users \cup repos_groups : m.repo_id \in Given
    BY <1>a DEF Inv, Integrity, ForeignKeys, IdsBelowSequence, Given
  <2>2. QED
    BY <1>2, <2>1 DEF Unowned, CInv
<1>4. Unowned(id)'
  <2>1. Begin(t) \/ Step(t)
    BY DEF Step, RepoStep
  <2>2. ~ SetRepoOwner(t)
    BY DEF CreateRepoRow, Acts, SetRepoOwner
  <2>3. QED
    BY <1>3, <2>1, <2>2, StaysUnowned
<1>5. pc'[t] = "rowid" /\ req'[t] = req[t]
  BY <1>a, GotoMoves DEF Moved
<1>6. Made(t, row)'
  BY <1>1, <1>4, <1>5 DEF Made
<1>7. QED
  BY <1>1, <1>6

LEMMA NamesApart ==
  ASSUME HInv, CInv, NEW t \in Threads, Begin(t) \/ Step(t), Making(t)',
         NEW u \in Threads \ {t}, Making(u)
  PROVE  req'[t].name # req[u].name
<1>1. CASE Making(t) /\ req'[t].name = req[t].name
  BY <1>1 DEF CInv
<1>2. CASE AcceptsRepo(req[t].name) /\ Goto(t, "rowid")
  <2>1. req'[t] = req[t]
    BY <1>2, GotoMoves DEF HInv, IInv, TypeOK, FrameOK
  <2>2. \E r \in repos : r.name = req[u].name
    BY DEF CInv, Made
  <2>3. QED
    BY <1>2, <2>1, <2>2 DEF AcceptsRepo
<1>3. QED
  BY <1>1, <1>2, MakingBefore

LEMMA NextCInv ==
  ASSUME HInv, CInv, Next, Record, ~ mixedUp'
  PROVE  CInv'
<1>a. FrameOK /\ Inv /\ [DbNext]_dbVars /\ HInv'
  BY IInvInv, NextDb, NextHInv DEF HInv, IInv, TypeOK, FrameOK
<1>b. \A t \in Threads : ~ MixesUp(t)
  BY DEF Record
<1>1. \A u \in Threads : held'[u].repos \subseteq Given'
  <2>1. Given \subseteq Given'
    BY <1>a, GoneStep
  <2>2. \A m \in repos_users' \cup repos_groups' : m.repo_id \in Given'
    <3>1. Inv'
      BY <1>a, NextIInv DEF HInv, IInv, TypeOK, Inv
    <3>2. QED
      BY <3>1 DEF Inv, Integrity, ForeignKeys, IdsBelowSequence, Given
  <2>3. QED
    BY <2>1, <2>2, HeldFrom DEF CInv
<1>2. ASSUME NEW t \in Threads, Begin(t) \/ Step(t)
      PROVE  CInv'
  <2>1. \A u \in Threads \ {t} : pc'[u] = pc[u] /\ req'[u] = req[u]
    BY <1>a, <1>2, StepElsewhere
  <2>2. \A u \in Threads \ {t} : Making(u)' <=> Making(u)
    BY <2>1 DEF Making
  <2>3. ASSUME NEW u \in Threads \ {t}, Making(u)'
        PROVE  \E r \in repos' : Made(u, r)'
    BY <1>2, <2>2, <2>3, MadeByOthers
  <2>4. ASSUME Making(t)'
        PROVE  \E r \in repos' : Made(t, r)'
    BY <1>2, <1>b, <2>4, MakingBefore, MadeByItself, MadeNew
  <2>5. ASSUME NEW u \in Threads, NEW v \in Threads, Making(u)', Making(v)',
               req'[u].name = req'[v].name
        PROVE  u = v
    <3>1. CASE u # t /\ v # t
      BY <2>1, <2>2, <2>5, <3>1 DEF CInv
    <3>2. CASE u = t /\ v # t
      BY <1>2, <2>1, <2>2, <2>5, <3>2, NamesApart
    <3>3. CASE u # t /\ v = t
      BY <1>2, <2>1, <2>2, <2>5, <3>3, NamesApart
    <3>4. QED
      BY <3>1, <3>2, <3>3
  <2>6. QED
    BY <1>1, <2>3, <2>4, <2>5 DEF CInv
<1>3. CASE MakeAdmin
  <2>1. UNCHANGED <<repos, repos_users, repos_groups, pc, req>>
    BY <1>3 DEF MakeAdmin, SetAdmin
  <2>2. ASSUME NEW i, Unowned(i)
        PROVE  Unowned(i)'
    BY <2>1, <2>2, HeldFrom DEF Unowned
  <2>3. QED
    BY <1>1, <2>1, <2>2 DEF CInv, Making, Made
<1>4. CASE Restart
  <2>1. \A u \in Threads : pc'[u] = "idle"
    BY <1>4 DEF Restart
  <2>2. QED
    BY <1>1, <2>1 DEF CInv, Making
<1>5. QED
  BY <1>2, <1>3, <1>4 DEF Next

AInv == HInv /\ (~ mixedUp => CInv)

LEMMA InitAInv == AuditInit => AInv
<1>1. AuditInit => \A t \in Threads : pc[t] = "idle" /\ held[t].repos = {}
  BY DEF AuditInit, Init, Nothing
<1>2. AuditInit => CInv
  BY <1>1 DEF CInv, Making
<1>3. QED
  BY <1>2, InitHInv DEF AInv

LEMMA NextAInv == AInv /\ [Next /\ Record]_auditVars => AInv'
<1>1. ASSUME AInv, Next /\ Record
      PROVE  AInv'
  <2>1. HInv' /\ (~ mixedUp' => ~ mixedUp)
    BY <1>1, NextHInv DEF AInv, Record
  <2>2. QED
    BY <1>1, <2>1, NextCInv DEF AInv
<1>2. ASSUME AInv, UNCHANGED auditVars
      PROVE  AInv'
  <2>1. HInv'
    BY <1>2, NextHInv DEF AInv
  <2>2. CInv => CInv'
    BY <1>2 DEF auditVars, vars, dbVars, tables, CInv, Making, Made, Unowned, Given
  <2>3. QED
    BY <1>2, <2>1, <2>2 DEF auditVars, AInv
<1>3. QED
  BY <1>1, <1>2

(***************************************************************************)
(* However many threads serve, whatever fails, failing statements included,*)
(* and wherever the process dies: as long as the rowid is read right, the  *)
(* repository of a repoCreate under way is there and nobody's, two calls   *)
(* under way never share a name, and so the clean-up, which goes by the    *)
(* name alone, takes back the row of its own call (repositories.cc:74).    *)
(***************************************************************************)
THEOREM CleanUpIsOwn == AuditSpec => []CreationIsAlone
<1>1. AInv => CreationIsAlone
  BY DEF AInv, CInv, Making, Made, Unowned, Creating, CreationIsAlone, Memberless
<1>2. QED
  BY InitAInv, NextAInv, <1>1, PTL DEF AuditSpec

-----------------------------------------------------------------------------
(* Every change of an existing repository or group is authorised. *)

ByOwner(t, i)   == pc'[t] # pc[t] /\ i \in held[t].repos
ByCreator(t, r) == ActsFor(t, "repoCreate") /\ CreatesRepo(t, r) /\ Memberless(r)
ByIntruder(t, r) ==
  ActsFor(t, "repoCreate") /\ mixedUp /\ (CreatesRepo(t, r) \/ IntrudesOn(t, r))

LEMMA RepoOpAuthorised ==
  ASSUME HInv, NEW t \in Threads, NEW r \in RepoIds, RepoChanges(r),
         pc[t] = "act", req[t].op \in RepoOps, pc'[t] # "act",
         NamesRepo(req[t].repo_id) \/ UNCHANGED dbVars
  PROVE  ByOwner(t, r)
<1>1. Inv /\ Checked(t)
  BY IInvInv DEF HInv
<1>2. r = req[t].repo_id
  BY <1>1, RepoOther, RepoUntouched
<1>3. QED
  BY <1>1, <1>2 DEF Checked, ByOwner

\* What repoCreate changes is the row it made, which nobody is a member of, as long
\* as no rowid was mixed up; afterwards it may be any row that its rowid names.
LEMMA RepoCreateAuthorised ==
  ASSUME AInv, NEW t \in Threads, NEW r \in RepoIds, RepoChanges(r), FrameOK,
         CreateRepoRow(t) \/ SetRepoOwner(t) \/ UndoRepoRow(t)
  PROVE  ByCreator(t, r) \/ ByIntruder(t, r)
<1>a. Inv /\ Placed(t)
  BY IInvInv DEF AInv, HInv
<1>b. ASSUME ~ mixedUp, Making(t)
      PROVE  \E x \in repos : Made(t, x) /\ Memberless(x.repo_id)
  BY <1>b DEF AInv, CInv, Made, Unowned, Memberless
<1>1. CASE CreateRepoRow(t)
  BY <1>1, <1>a, RepoUntouched DEF CreateRepoRow, Exec
<1>2. CASE SetRepoOwner(t)
  <2>1. ActsFor(t, "repoCreate") /\ Making(t) /\ pc[t] = "own"
    BY <1>2, GotoMoves, ReturnMoves DEF SetRepoOwner, Exec, Moved, ActsFor, Making
  <2>2. InsertRepoUser(req[t].repo_id, session[t].user_id, kOwner)
    BY <1>2, <1>a, RepoUntouched DEF SetRepoOwner, Exec
  <2>3. r = req[t].repo_id
    BY <1>a, <2>2, RepoOther DEF NamesRepo
  <2>4. CASE mixedUp
    <3>1. RepoRows(r)' = RepoRows(r) /\ RepoGroupRows(r)' = RepoGroupRows(r)
      BY <2>2 DEF InsertRepoUser, RepoRows, RepoGroupRows
    <3>2. RepoUserRows(r)' = RepoUserRows(r) \cup
            {[repo_id |-> r, user_id |-> session[t].user_id, role_id |-> kOwner]}
      BY <2>2, <2>3 DEF InsertRepoUser, RepoUserRows
    <3>3. QED
      BY <2>1, <2>4, <3>1, <3>2 DEF ByIntruder, IntrudesOn
  <2>5. CASE ~ mixedUp
    <3>1. PICK x \in repos : Made(t, x) /\ Memberless(x.repo_id)
      BY <1>b, <2>1, <2>5
    <3>2. x.repo_id = r /\ x.name = req[t].name
      BY <2>1, <2>3, <3>1 DEF Made
    <3>3. CreatesRepo(t, r)
      BY <1>a, <3>1, <3>2 DEF CreatesRepo, RepoRows, Inv, Integrity, PrimaryKeys
    <3>4. QED
      BY <2>1, <3>1, <3>2, <3>3 DEF ByCreator
  <2>6. QED
    BY <2>4, <2>5
<1>3. CASE UndoRepoRow(t)
  <2>1. ActsFor(t, "repoCreate") /\ Making(t)
    BY <1>3, <1>a, ReturnMoves DEF UndoRepoRow, Finish, Exec, Placed, ActsFor, Making
  <2>2. PICK x \in repos : x.name = req[t].name /\ DeleteRepo(x.repo_id)
    BY <1>3, <1>a, RepoUntouched DEF UndoRepoRow, Finish, Exec, DeleteRepoNamed
  <2>3. r = x.repo_id
    BY <1>a, <2>2, RepoOther DEF NamesRepo
  <2>4. CreatesRepo(t, r)
    BY <1>a, <2>2, <2>3 DEF CreatesRepo, RepoRows, Inv, Integrity, PrimaryKeys
  <2>5. ASSUME ~ mixedUp
        PROVE  Memberless(r)
    <3>1. PICK y \in repos : Made(t, y) /\ Memberless(y.repo_id)
      BY <1>b, <2>1, <2>5
    <3>2. y = x
      BY <1>a, <2>2, <3>1 DEF Made, Inv, Integrity, PrimaryKeys
    <3>3. QED
      BY <2>3, <3>1, <3>2
  <2>6. QED
    BY <2>1, <2>4, <2>5 DEF ByCreator, ByIntruder
<1>4. QED
  BY <1>1, <1>2, <1>3

LEMMA RepoStepAuthorised ==
  ASSUME AInv, NEW t \in Threads, Begin(t) \/ Step(t), NEW r \in RepoIds, RepoChanges(r)
  PROVE  ByOwner(t, r) \/ ByCreator(t, r) \/ ByIntruder(t, r)
<1>a. FrameOK /\ Inv /\ HInv
  BY IInvInv DEF AInv, HInv, IInv, TypeOK, FrameOK
<1>b. ~ UNCHANGED dbVars
  BY <1>a, RepoUntouched
<1>1. CASE \/ RepoUpdate(t) \/ RepoAddUser(t) \/ RepoRemoveUser(t) \/ RepoAddGroup(t)
           \/ RepoRemoveGroup(t) \/ RepoDelete(t)
  <2>1. pc[t] = "act" /\ req[t].op \in RepoOps
    BY <1>1 DEF RepoUpdate, RepoAddUser, RepoRemoveUser, RepoAddGroup, RepoRemoveGroup,
       RepoDelete, Acts, RepoOps
  <2>2. NamesRepo(req[t].repo_id)
    BY <1>1, <1>b DEF RepoUpdate, RepoAddUser, RepoRemoveUser, RepoAddGroup, RepoRemoveGroup,
       RepoDelete, Finish, Exec, NamesRepo
  <2>3. Return(t) \/ Goto(t, "rm")
    BY <1>1 DEF RepoUpdate, RepoAddUser, RepoRemoveUser, RepoAddGroup, RepoRemoveGroup,
       RepoDelete, Finish, Exec
  <2>4. pc'[t] # "act"
    BY <1>a, <2>3, ReturnMoves, GotoMoves DEF Moved
  <2>5. QED
    BY <1>a, <2>1, <2>2, <2>4, RepoOpAuthorised
<1>2. CASE CreateRepoRow(t) \/ SetRepoOwner(t) \/ UndoRepoRow(t)
  BY <1>2, <1>a, RepoCreateAuthorised
<1>3. CASE GroupDelete(t) \/ UndoGroupRow(t)
  BY <1>3, <1>a, <1>b, RepoLosesGroup DEF GroupDelete, UndoGroupRow, Finish, Exec
<1>4. CASE GroupAddUser(t) \/ GroupRemoveUser(t) \/ SetGroupOwner(t)
  <2>1. \E g, u, role : InsertGroupUser(g, u, role) \/ DeleteGroupUser(g, u)
    BY <1>4, <1>b DEF GroupAddUser, GroupRemoveUser, SetGroupOwner, Finish, Exec
  <2>2. QED
    BY <1>a, <2>1, RepoUntouched
<1>5. CASE CreateGroupRow(t)
  <2>1. \E name \in GroupNames : InsertGroup(name)
    BY <1>5, <1>a, <1>b DEF CreateGroupRow, Acts, Exec, HInv, IInv, NamesOK
  <2>2. QED
    BY <1>a, <2>1, RepoUntouched
<1>6. CASE UserCreate(t)
  <2>1. UserStatement
    BY <1>6, <1>a, <1>b DEF UserCreate, Acts, Finish, Exec, HInv, IInv, NamesOK, UserStatement
  <2>2. QED
    BY <1>a, <2>1, RepoUntouched
<1>7. CASE Begin(t) \/ CheckStep(t) \/ RemoveDir(t) \/ ReadRowid(t) \/ InitDir(t) \/ GetGroupId(t)
  BY <1>7, <1>b, CheckStepDb DEF RemoveDir, ReadRowid, InitDir, GetGroupId
<1>8. QED
  BY <1>1, <1>2, <1>3, <1>4, <1>5, <1>6, <1>7 DEF Step, RepoStep, GroupStep

GrpByOwner(t, g)   == pc'[t] # pc[t] /\ g \in held[t].groups
GrpByCreator(t, g) == ActsFor(t, "groupCreate") /\ CreatesGroup(t, g)

LEMMA GroupOpAuthorised ==
  ASSUME HInv, NEW t \in Threads, NEW g \in GroupIds, GroupChanges(g),
         pc[t] = "act", req[t].op \in GroupOps, pc'[t] # "act", NamesGrp(req[t].grp_id)
  PROVE  GrpByOwner(t, g)
<1>1. Checked(t) /\ Watched(t)
  BY DEF HInv
<1>2. g = req[t].grp_id
  BY GroupOther
<1>3. IsAdmin(session[t].user_id) => g \in held[t].groups
  BY <1>1 DEF Watched, Holds
<1>4. QED
  BY <1>1, <1>2, <1>3 DEF Checked, GrpByOwner

\* The id groupCreate found is one of a group of its name.
LEMMA GroupCreateAuthorised ==
  ASSUME HInv, FrameOK, NEW t \in Threads, NEW g \in GroupIds, GroupChanges(g),
         SetGroupOwner(t) \/ UndoGroupRow(t)
  PROVE  GrpByCreator(t, g)
<1>a. Placed(t) /\ Checked(t)
  BY DEF HInv
<1>1. req[t].op = "groupCreate" /\ pc[t] \in {"own", "grpUndo"}
  BY <1>a DEF SetGroupOwner, UndoGroupRow, Placed
<1>2. pc'[t] # pc[t]
  BY GotoMoves, ReturnMoves DEF SetGroupOwner, UndoGroupRow, Finish, Exec, Moved
<1>3. NamesGrp(req[t].grp_id)
  <2>1. ~ UNCHANGED dbVars
    BY GroupUntouched
  <2>2. QED
    BY <2>1 DEF SetGroupOwner, UndoGroupRow, Finish, Exec, NamesGrp
<1>4. g = req[t].grp_id
  BY <1>3, GroupOther
<1>5. QED
  BY <1>a, <1>1, <1>2, <1>4 DEF Checked, Bound, GrpByCreator, ActsFor, CreatesGroup

LEMMA GroupStepAuthorised ==
  ASSUME HInv, NEW t \in Threads, Begin(t) \/ Step(t), NEW g \in GroupIds, GroupChanges(g)
  PROVE  GrpByOwner(t, g) \/ GrpByCreator(t, g)
<1>a. FrameOK
  BY DEF HInv, IInv, TypeOK, FrameOK
<1>b. ~ UNCHANGED dbVars
  BY GroupUntouched
<1>1. CASE GroupDelete(t) \/ GroupAddUser(t) \/ GroupRemoveUser(t)
  <2>1. pc[t] = "act" /\ req[t].op \in GroupOps
    BY <1>1 DEF GroupDelete, GroupAddUser, GroupRemoveUser, Acts, GroupOps
  <2>2. NamesGrp(req[t].grp_id)
    BY <1>1, <1>b DEF GroupDelete, GroupAddUser, GroupRemoveUser, Finish, Exec, NamesGrp
  <2>3. pc'[t] # "act"
    BY <1>a, <1>1, ReturnMoves DEF GroupDelete, GroupAddUser, GroupRemoveUser, Finish, Exec
  <2>4. QED
    BY <2>1, <2>2, <2>3, GroupOpAuthorised
<1>2. CASE SetGroupOwner(t) \/ UndoGroupRow(t)
  BY <1>2, <1>a, GroupCreateAuthorised
<1>3. CASE RepoStep(t)
  <2>1. (\E i : NamesRepo(i)) \/ (\E name, public : InsertRepo(name, public))
    BY <1>3, <1>b DEF RepoStep, RepoUpdate, RepoAddUser, RepoRemoveUser, RepoAddGroup,
       RepoRemoveGroup, RepoDelete, RemoveDir, CreateRepoRow, ReadRowid, InitDir, SetRepoOwner,
       UndoRepoRow, Finish, Exec, DeleteRepoNamed, NamesRepo
  <2>2. QED
    BY <2>1, GroupUntouched
<1>4. CASE CreateGroupRow(t)
  <2>1. \E name : InsertGroup(name)
    BY <1>4, <1>b DEF CreateGroupRow, Exec
  <2>2. QED
    BY <2>1, GroupUntouched
<1>5. CASE UserCreate(t)
  <2>1. UserStatement
    BY <1>5, <1>b DEF UserCreate, Acts, Finish, Exec, HInv, IInv, NamesOK, UserStatement
  <2>2. QED
    BY <2>1, GroupUntouched
<1>6. CASE Begin(t) \/ CheckStep(t) \/ GetGroupId(t)
  BY <1>6, <1>b, CheckStepDb DEF GetGroupId
<1>7. QED
  BY <1>1, <1>2, <1>3, <1>4, <1>5, <1>6 DEF Step, GroupStep

LEMMA StepAuthorised ==
  ASSUME AInv, [Next]_vars
  PROVE  AuthorisedStep
<1>a. HInv
  BY DEF AInv
<1>1. ASSUME NEW t \in Threads, Begin(t) \/ Step(t)
      PROVE  AuthorisedStep
  BY <1>a, <1>1, RepoStepAuthorised, GroupStepAuthorised
  DEF AuthorisedStep, ByOwner, ByCreator, ByIntruder, GrpByOwner, GrpByCreator
<1>2. CASE MakeAdmin \/ Restart \/ UNCHANGED vars
  <2>1. UserStatement \/ Reconnect \/ UNCHANGED dbVars
    BY <1>2 DEF MakeAdmin, Restart, vars, UserStatement
  <2>2. QED
    BY <1>a, <2>1, IInvInv, RepoUntouched, GroupUntouched DEF HInv, AuthorisedStep
<1>3. QED
  BY <1>1, <1>2 DEF Next

(***************************************************************************)
(* Whatever the threads do, whatever fails and however often the process   *)
(* is restarted: an existing repository or group is changed only by a      *)
(* handler whose caller owned it at some moment of the call, or by one     *)
(* that creates it: a group of that name, a repository of that name of     *)
(* which nobody is a member yet.  Once a rowid was mixed up, and only      *)
(* then, a repoCreate may also make its caller an owner of any repository  *)
(* or delete the one of its name (repositories.cc:54, 72, 74).             *)
(***************************************************************************)
THEOREM ChangesAreAuthorised == AuditSpec => AuthorisedChanges
<1>1. AInv /\ [Next /\ Record]_auditVars => [AuthorisedStep]_auditVars
  BY StepAuthorised DEF auditVars
<1>2. QED
  BY InitAInv, NextAInv, <1>1, PTL DEF AuditSpec, AuthorisedChanges
=============================================================================
