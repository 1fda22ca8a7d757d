---------------------------- MODULE ServiceProofs ----------------------------
(***************************************************************************)
(* Every interleaving of the handlers is a history of the database, keeps  *)
(* the types and the integrity of the tables, and, where statements do not *)
(* fail, implements the life cycle of repositories; each handler goes      *)
(* forward to its answer, and one thread alone keeps every directory: for  *)
(* every set of threads, names and requests and every largest rowid.       *)
(***************************************************************************)
EXTENDS ServiceProps, DatabaseProofs

\* A request that inserts or renames carries a name of the right kind.
NamesOK ==
  \A t \in Threads :
    /\ req[t].op \in {"repoCreate", "repoUpdate"} => req[t].name \in RepoNames
    /\ req[t].op = "groupCreate" => req[t].name \in GroupNames
    /\ req[t].op = "userCreate" => req[t].name \in Logins

IInv == TypeOK /\ Integrity /\ NamesOK

LEMMA IInvInv == IInv => Inv
  BY DEF IInv, TypeOK, Inv

-----------------------------------------------------------------------------
(* Deleting or updating what is not there is no step of the database. *)

LEMMA DeleteGroupStep ==
  ASSUME Inv, NEW grp_id, DeleteGroup(grp_id)
  PROVE  DbNext \/ UNCHANGED dbVars
<1>1. CASE grp_id \in GroupIds
  BY <1>1 DEF DbNext, GroupStatement
<1>2. CASE grp_id \notin GroupIds
  <2>1. groups' = groups
    BY <1>2 DEF DeleteGroup, GroupIds
  <2>2. groups_users' = groups_users /\ repos_groups' = repos_groups
    BY <1>2 DEF DeleteGroup, Inv, Integrity, ForeignKeys
  <2>3. QED
    BY <2>1, <2>2 DEF DeleteGroup, dbVars, tables
<1>3. QED
  BY <1>1, <1>2

LEMMA DeleteRepoStep ==
  ASSUME Inv, NEW repo_id, DeleteRepo(repo_id)
  PROVE  DbNext \/ UNCHANGED dbVars
<1>1. CASE repo_id \in RepoIds
  BY <1>1 DEF DbNext, RepoStatement
<1>2. CASE repo_id \notin RepoIds
  <2>1. repos' = repos
    BY <1>2 DEF DeleteRepo, RepoIds
  <2>2. repos_users' = repos_users /\ repos_groups' = repos_groups
    BY <1>2 DEF DeleteRepo, Inv, Integrity, ForeignKeys
  <2>3. QED
    BY <2>1, <2>2 DEF DeleteRepo, dbVars, tables
<1>3. QED
  BY <1>1, <1>2

LEMMA UpdateRepoStep ==
  ASSUME Inv, NEW repo_id, NEW name \in RepoNames, NEW public \in BOOLEAN,
         AcceptsRepoUpdate(repo_id, name), UpdateRepo(repo_id, name, public)
  PROVE  DbNext \/ UNCHANGED dbVars
<1>1. CASE repo_id \in RepoIds
  BY <1>1 DEF DbNext, RepoStatement
<1>2. CASE repo_id \notin RepoIds
  <2>1. repos' = repos
    BY <1>2 DEF UpdateRepo, RepoIds
  <2>2. QED
    BY <2>1 DEF UpdateRepo, dbVars, tables
<1>3. QED
  BY <1>1, <1>2

LEMMA DeleteGroupUserStep ==
  ASSUME Inv, NEW grp_id, NEW user_id, DeleteGroupUser(grp_id, user_id)
  PROVE  DbNext \/ UNCHANGED dbVars
<1>1. CASE \E m \in groups_users : m.group_id = grp_id /\ m.user_id = user_id
  BY <1>1 DEF DbNext, GroupStatement
<1>2. CASE \A m \in groups_users : m.group_id = grp_id => m.user_id # user_id
  BY <1>2 DEF DeleteGroupUser, dbVars, tables
<1>3. QED
  BY <1>1, <1>2

LEMMA DeleteRepoUserStep ==
  ASSUME Inv, NEW repo_id, NEW user_id, DeleteRepoUser(repo_id, user_id)
  PROVE  DbNext \/ UNCHANGED dbVars
<1>1. CASE \E m \in repos_users : m.repo_id = repo_id /\ m.user_id = user_id
  BY <1>1 DEF DbNext, RepoStatement
<1>2. CASE \A m \in repos_users : m.repo_id = repo_id => m.user_id # user_id
  BY <1>2 DEF DeleteRepoUser, dbVars, tables
<1>3. QED
  BY <1>1, <1>2

LEMMA DeleteRepoGroupStep ==
  ASSUME Inv, NEW repo_id, NEW grp_id, DeleteRepoGroup(repo_id, grp_id)
  PROVE  DbNext \/ UNCHANGED dbVars
<1>1. CASE \E m \in repos_groups : m.repo_id = repo_id /\ m.group_id = grp_id
  BY <1>1 DEF DbNext, RepoStatement
<1>2. CASE \A m \in repos_groups : m.repo_id = repo_id => m.group_id # grp_id
  BY <1>2 DEF DeleteRepoGroup, dbVars, tables
<1>3. QED
  BY <1>1, <1>2

-----------------------------------------------------------------------------
(* Each action executes one statement of the database, or none. *)

LEMMA CheckStepDb ==
  ASSUME NEW t \in Threads, Begin(t) \/ CheckStep(t)
  PROVE  UNCHANGED dbVars
  BY DEF Begin, CheckStep, SetRepoId, SetGrpId, SetUserId, CheckRepoRole, CheckGroupOwner

LEMMA RepoStepDb ==
  ASSUME IInv, NEW t \in Threads, RepoStep(t)
  PROVE  DbNext \/ UNCHANGED dbVars
<1> USE IInvInv
<1>a. /\ req[t].role \in Roles /\ req[t].is_public \in BOOLEAN
      /\ req[t].op \in {"repoCreate", "repoUpdate"} => req[t].name \in RepoNames
  BY DEF IInv, TypeOK, Message, NamesOK
<1>1. CASE RepoUpdate(t)
  BY <1>1, <1>a, UpdateRepoStep DEF RepoUpdate, Finish, Exec, Acts
<1>2. CASE RepoAddUser(t)
  BY <1>2, <1>a DEF RepoAddUser, Finish, Exec, AcceptsRepoUser, DbNext, RepoStatement
<1>3. CASE RepoRemoveUser(t)
  BY <1>3, DeleteRepoUserStep DEF RepoRemoveUser, Finish, Exec
<1>4. CASE RepoAddGroup(t)
  BY <1>4, <1>a DEF RepoAddGroup, Finish, Exec, AcceptsRepoGroup, DbNext, RepoStatement
<1>5. CASE RepoRemoveGroup(t)
  BY <1>5, DeleteRepoGroupStep DEF RepoRemoveGroup, Finish, Exec
<1>6. CASE RepoDelete(t)
  BY <1>6, DeleteRepoStep DEF RepoDelete, Exec
<1>7. CASE RemoveDir(t) \/ ReadRowid(t) \/ InitDir(t)
  BY <1>7 DEF RemoveDir, ReadRowid, InitDir
<1>8. CASE CreateRepoRow(t)
  BY <1>8, <1>a DEF CreateRepoRow, Exec, Acts, DbNext, RepoStatement
<1>9. CASE SetRepoOwner(t)
  BY <1>9 DEF SetRepoOwner, Exec, AcceptsRepoUser, DbNext, RepoStatement,
              Roles, kNone, kOwner
<1>10. CASE UndoRepoRow(t)
  BY <1>10, DeleteRepoStep DEF UndoRepoRow, Finish, Exec, DeleteRepoNamed
<1>11. QED
  BY <1>1, <1>2, <1>3, <1>4, <1>5, <1>6, <1>7, <1>8, <1>9, <1>10 DEF RepoStep

LEMMA GroupStepDb ==
  ASSUME IInv, NEW t \in Threads, GroupStep(t)
  PROVE  DbNext \/ UNCHANGED dbVars
<1> USE IInvInv
<1>a. /\ req[t].role \in Roles
      /\ req[t].op = "groupCreate" => req[t].name \in GroupNames
  BY DEF IInv, TypeOK, Message, NamesOK
<1>1. CASE GroupDelete(t)
  BY <1>1, DeleteGroupStep DEF GroupDelete, Finish, Exec
<1>2. CASE GroupAddUser(t)
  BY <1>2, <1>a DEF GroupAddUser, Finish, Exec, AcceptsGroupUser, DbNext, GroupStatement
<1>3. CASE GroupRemoveUser(t)
  BY <1>3, DeleteGroupUserStep DEF GroupRemoveUser, Finish, Exec
<1>4. CASE CreateGroupRow(t)
  BY <1>4, <1>a DEF CreateGroupRow, Exec, Acts, DbNext, GroupStatement
<1>5. CASE GetGroupId(t)
  BY <1>5 DEF GetGroupId
<1>6. CASE SetGroupOwner(t)
  BY <1>6 DEF SetGroupOwner, Exec, AcceptsGroupUser, DbNext, GroupStatement,
              Roles, kNone, kOwner
<1>7. CASE UndoGroupRow(t)
  BY <1>7, DeleteGroupStep DEF UndoGroupRow, Finish, Exec
<1>8. QED
  BY <1>1, <1>2, <1>3, <1>4, <1>5, <1>6, <1>7 DEF GroupStep

LEMMA NextDb ==
  ASSUME IInv, [Next]_vars
  PROVE  [DbNext]_dbVars
<1>1. ASSUME NEW t \in Threads, Begin(t) \/ Step(t)
      PROVE  DbNext \/ UNCHANGED dbVars
  <2>1. CASE Begin(t) \/ CheckStep(t)
    BY <2>1, CheckStepDb
  <2>2. CASE RepoStep(t)
    BY <2>2, RepoStepDb
  <2>3. CASE GroupStep(t)
    BY <2>3, GroupStepDb
  <2>4. CASE UserCreate(t)
    BY <2>4 DEF UserCreate, Acts, Finish, Exec, IInv, NamesOK, DbNext, UserStatement
  <2>5. QED
    BY <1>1, <2>1, <2>2, <2>3, <2>4 DEF Step
<1>2. CASE MakeAdmin
  BY <1>2 DEF MakeAdmin, DbNext, UserStatement
<1>3. CASE Restart
  BY <1>3 DEF Restart, DbNext
<1>4. CASE UNCHANGED vars
  BY <1>4 DEF vars
<1>5. QED
  BY <1>1, <1>2, <1>3, <1>4 DEF Next

-----------------------------------------------------------------------------
(* The frames of the handlers keep their types. *)

FrameOK ==
  /\ pc \in [Threads -> Labels]
  /\ req \in [Threads -> Message]
  /\ session \in [Threads -> Session]
  /\ NamesOK

LEMMA NoRequestMessage ==
  /\ NoRequest \in Message /\ NoRequest.op = "none"
  /\ Anonymous \in Session
  BY DEF NoRequest, Message, Anonymous, Session, NoId, Roles, kNone, kOwner

LEMMA GotoFrame ==
  ASSUME FrameOK, NEW t \in Threads, NEW label \in Labels, Goto(t, label)
  PROVE  FrameOK'
  BY DEF FrameOK, Goto, NamesOK

LEMMA GotoWithFrame ==
  ASSUME FrameOK, NEW t \in Threads, NEW label \in Labels, NEW m \in Message,
         m.op = req[t].op, m.name = req[t].name, GotoWith(t, label, m)
  PROVE  FrameOK'
  BY DEF FrameOK, GotoWith, NamesOK

LEMMA ReturnFrame ==
  ASSUME FrameOK, NEW t \in Threads, Return(t)
  PROVE  FrameOK'
<1>1. req' = [req EXCEPT ![t] = NoRequest]
  BY DEF Return
<1>2. NamesOK'
  BY <1>1, NoRequestMessage DEF FrameOK, NamesOK
<1>3. QED
  BY <1>2, NoRequestMessage DEF FrameOK, Return, Labels

LEMMA NextLabels ==
  ASSUME NEW op
  PROVE  /\ First(op) \in Labels /\ Check(op) \in Labels
         /\ AfterGrp(op) \in Labels /\ AfterRepo(op) \in Labels
  BY DEF First, Check, AfterGrp, AfterRepo, Labels

LEMMA BeginFrame ==
  ASSUME FrameOK, DbTypeOK, NEW t \in Threads, Begin(t)
  PROVE  FrameOK'
<1>1. PICK q \in Requests :
        /\ pc' = [pc EXCEPT ![t] = First(q.op)]
        /\ req' = [req EXCEPT ![t] = q]
        /\ session' = [session EXCEPT ![t] = Authenticate(q.as)]
  BY DEF Begin
<1>2. Authenticate(q.as) \in Session
  BY NoRequestMessage DEF Authenticate, DbTypeOK, User, Session
<1>3. pc' \in [Threads -> Labels] /\ session' \in [Threads -> Session]
  BY <1>1, <1>2, NextLabels DEF FrameOK
<1>4. req' \in [Threads -> Message] /\ NamesOK'
  BY <1>1, RequestsAssumption DEF FrameOK, NamesOK
<1>5. QED
  BY <1>3, <1>4 DEF FrameOK

LEMMA CheckStepFrame ==
  ASSUME FrameOK, DbTypeOK, NEW t \in Threads, CheckStep(t)
  PROVE  FrameOK'
<1> USE NextLabels
<1>a. "act" \in Labels /\ req[t] \in Message
  BY DEF Labels, FrameOK
<1>1. CASE SetRepoId(t)
  <2>1. \A r \in repos : [req[t] EXCEPT !.repo_id = r.repo_id] \in Message
    BY <1>a DEF DbTypeOK, Repo, Message
  <2>2. QED
    BY <1>1, <1>a, <2>1, GotoFrame, GotoWithFrame, ReturnFrame DEF SetRepoId, Message
<1>2. CASE SetGrpId(t)
  <2>1. \A g \in groups : [req[t] EXCEPT !.grp_id = g.group_id] \in Message
    BY <1>a DEF DbTypeOK, Group, Message
  <2>2. QED
    BY <1>2, <1>a, <2>1, GotoFrame, GotoWithFrame, ReturnFrame DEF SetGrpId, Message
<1>3. CASE SetUserId(t)
  <2>1. \A u \in users : [req[t] EXCEPT !.user_id = u.user_id] \in Message
    BY <1>a DEF DbTypeOK, User, Message
  <2>2. QED
    BY <1>3, <1>a, <2>1, GotoFrame, GotoWithFrame, ReturnFrame DEF SetUserId, Message
<1>4. CASE CheckRepoRole(t) \/ CheckGroupOwner(t)
  BY <1>4, <1>a, GotoFrame, ReturnFrame DEF CheckRepoRole, CheckGroupOwner
<1>5. QED
  BY <1>1, <1>2, <1>3, <1>4 DEF CheckStep

LEMMA RepoStepFrame ==
  ASSUME FrameOK, DbTypeOK, NEW t \in Threads, RepoStep(t)
  PROVE  FrameOK'
<1>a. {"rm", "rowid", "init", "own", "undo"} \subseteq Labels /\ req[t] \in Message
  BY DEF Labels, FrameOK
<1>1. CASE \/ RepoUpdate(t) \/ RepoAddUser(t) \/ RepoRemoveUser(t)
           \/ RepoAddGroup(t) \/ RepoRemoveGroup(t) \/ UndoRepoRow(t)
  BY <1>1, ReturnFrame DEF RepoUpdate, RepoAddUser, RepoRemoveUser, RepoAddGroup,
                           RepoRemoveGroup, UndoRepoRow, Finish, Exec
<1>2. CASE RepoDelete(t) \/ RemoveDir(t)
  BY <1>2, <1>a, GotoFrame, ReturnFrame DEF RepoDelete, RemoveDir, Exec
<1>3. CASE CreateRepoRow(t) \/ InitDir(t) \/ SetRepoOwner(t)
  BY <1>3, <1>a, GotoFrame, ReturnFrame DEF CreateRepoRow, InitDir, SetRepoOwner, Exec
<1>4. CASE ReadRowid(t)
  <2>1. [req[t] EXCEPT !.repo_id = lastRowid] \in Message
    BY <1>a DEF DbTypeOK, Message
  <2>2. QED
    BY <1>4, <1>a, <2>1, GotoWithFrame DEF ReadRowid, Message
<1>5. QED
  BY <1>1, <1>2, <1>3, <1>4 DEF RepoStep

LEMMA GroupStepFrame ==
  ASSUME FrameOK, DbTypeOK, NEW t \in Threads, GroupStep(t)
  PROVE  FrameOK'
<1>a. {"getId", "getIdAgain", "own", "grpUndo"} \subseteq Labels /\ req[t] \in Message
  BY DEF Labels, FrameOK
<1>1. CASE GroupDelete(t) \/ GroupAddUser(t) \/ GroupRemoveUser(t) \/ UndoGroupRow(t)
  BY <1>1, ReturnFrame
  DEF GroupDelete, GroupAddUser, GroupRemoveUser, UndoGroupRow, Finish, Exec
<1>2. CASE CreateGroupRow(t) \/ SetGroupOwner(t)
  BY <1>2, <1>a, GotoFrame, ReturnFrame DEF CreateGroupRow, SetGroupOwner, Exec
<1>3. CASE GetGroupId(t)
  <2>1. \A g \in groups : [req[t] EXCEPT !.grp_id = g.group_id] \in Message
    BY <1>a DEF DbTypeOK, Group, Message
  <2>2. QED
    BY <1>3, <1>a, <2>1, GotoWithFrame, ReturnFrame DEF GetGroupId, Message
<1>4. QED
  BY <1>1, <1>2, <1>3 DEF GroupStep

LEMMA NextFrame ==
  ASSUME IInv, [Next]_vars
  PROVE  FrameOK' /\ repoDirs' \subseteq Nat
<1> USE DEF IInv, TypeOK
<1>a. FrameOK
  BY DEF FrameOK
<1>1. FrameOK'
  <2>1. ASSUME NEW t \in Threads, Begin(t) \/ Step(t)
        PROVE  FrameOK'
    BY <2>1, <1>a, BeginFrame, CheckStepFrame, RepoStepFrame, GroupStepFrame, ReturnFrame
    DEF Step, UserCreate, Finish, Exec
  <2>2. CASE MakeAdmin \/ UNCHANGED vars
    BY <2>2, <1>a DEF MakeAdmin, vars, FrameOK, NamesOK
  <2>3. CASE Restart
    BY <2>3, NoRequestMessage DEF Restart, FrameOK, NamesOK, Labels
  <2>4. QED
    BY <2>1, <2>2, <2>3 DEF Next
<1>2. repoDirs' \subseteq Nat
  <2>1. ASSUME NEW t \in Threads, Begin(t) \/ CheckStep(t) \/ GroupStep(t) \/ UserCreate(t)
        PROVE  repoDirs' = repoDirs
    BY <2>1 DEF Begin, CheckStep, SetRepoId, SetGrpId, SetUserId, CheckRepoRole,
      CheckGroupOwner, GroupStep, GroupDelete, GroupAddUser, GroupRemoveUser,
      CreateGroupRow, GetGroupId, SetGroupOwner, UndoGroupRow, UserCreate, Finish
  <2>2. ASSUME NEW t \in Threads, RepoStep(t)
        PROVE  repoDirs' \subseteq Nat
    <3>1. req[t].repo_id \in Nat
      BY DEF Message
    <3>2. QED
      BY <2>2, <3>1 DEF RepoStep, RepoUpdate, RepoAddUser, RepoRemoveUser, RepoAddGroup,
        RepoRemoveGroup, RepoDelete, RemoveDir, CreateRepoRow, ReadRowid, InitDir,
        SetRepoOwner, UndoRepoRow, Finish
  <2>3. CASE MakeAdmin \/ Restart \/ UNCHANGED vars
    BY <2>3 DEF MakeAdmin, Restart, vars
  <2>4. QED
    BY <2>1, <2>2, <2>3 DEF Next, Step
<1>3. QED
  BY <1>1, <1>2

LEMMA NextIInv ==
  ASSUME IInv, [Next]_vars
  PROVE  IInv'
<1>1. Inv'
  BY IInvInv, NextDb, StatementInv
<1>2. QED
  BY <1>1, NextFrame DEF IInv, TypeOK, Inv, FrameOK

LEMMA InitIInv == Init => IInv
  BY InitInv, NoRequestMessage
  DEF Init, IInv, TypeOK, Inv, NamesOK, Labels

-----------------------------------------------------------------------------
(* A step moves one handler and leaves the others where they are. *)

LEMMA StepMoves ==
  ASSUME NEW t \in Threads, Step(t)
  PROVE  \/ Return(t)
         \/ \E label : Goto(t, label) \/ \E m : GotoWith(t, label, m)
<1>1. CASE CheckStep(t)
  BY <1>1 DEF CheckStep, SetRepoId, SetGrpId, SetUserId, CheckRepoRole, CheckGroupOwner
<1>2. CASE RepoStep(t)
  BY <1>2 DEF RepoStep, RepoUpdate, RepoAddUser, RepoRemoveUser, RepoAddGroup, RepoRemoveGroup,
     RepoDelete, RemoveDir, CreateRepoRow, ReadRowid, InitDir, SetRepoOwner, UndoRepoRow,
     Finish, Exec
<1>3. CASE GroupStep(t)
  BY <1>3 DEF GroupStep, GroupDelete, GroupAddUser, GroupRemoveUser, CreateGroupRow, GetGroupId,
     SetGroupOwner, UndoGroupRow, Finish, Exec
<1>4. CASE UserCreate(t)
  BY <1>4 DEF UserCreate, Finish, Exec
<1>5. QED
  BY <1>1, <1>2, <1>3, <1>4 DEF Step

LEMMA StepElsewhere ==
  ASSUME FrameOK, NEW t \in Threads, Begin(t) \/ Step(t), NEW u \in Threads \ {t}
  PROVE  pc'[u] = pc[u] /\ req'[u] = req[u] /\ session'[u] = session[u]
<1>1. CASE Begin(t)
  BY <1>1 DEF Begin, FrameOK
<1>2. CASE Step(t)
  BY <1>2, StepMoves DEF Goto, GotoWith, Return, FrameOK
<1>3. QED
  BY <1>1, <1>2

\* Every step leads to a label with less left to do.
LEMMA LeftFalls ==
  ASSUME FrameOK, NEW t \in Threads, Step(t)
  PROVE  Left(pc'[t]) < Left(pc[t])
<1> USE DEF FrameOK
<1>a. ASSUME Return(t)
      PROVE  pc'[t] = "idle"
  BY <1>a DEF Return
<1>b. ASSUME NEW label, Goto(t, label) \/ \E m : GotoWith(t, label, m)
      PROVE  pc'[t] = label
  BY <1>b DEF Goto, GotoWith
<1>c. /\ \A op : /\ Check(op) \in {"role", "grpOwner"}
                 /\ AfterGrp(op) \in {"user", "role", "grpOwner"}
                 /\ AfterRepo(op) \in {"grp", "user", "role", "grpOwner"}
  BY DEF Check, AfterGrp, AfterRepo
<1>1. CASE CheckStep(t)
  <2>1. CASE SetRepoId(t)
    <3>1. pc[t] = "repo" /\ pc'[t] \in {"idle", "grp", "user", "role", "grpOwner"}
      BY <2>1, <1>a, <1>b, <1>c DEF SetRepoId
    <3>2. QED
      BY <3>1 DEF Left
  <2>2. CASE SetGrpId(t)
    <3>1. pc[t] = "grp" /\ pc'[t] \in {"idle", "user", "role", "grpOwner"}
      BY <2>2, <1>a, <1>b, <1>c DEF SetGrpId
    <3>2. QED
      BY <3>1 DEF Left
  <2>3. CASE SetUserId(t)
    <3>1. pc[t] = "user" /\ pc'[t] \in {"idle", "role", "grpOwner"}
      BY <2>3, <1>a, <1>b, <1>c DEF SetUserId
    <3>2. QED
      BY <3>1 DEF Left
  <2>4. CASE CheckRepoRole(t) \/ CheckGroupOwner(t)
    <3>1. Goto(t, "act") \/ Return(t)
      BY <2>4, Zenon DEF CheckRepoRole, CheckGroupOwner
    <3>2. pc[t] \in {"role", "grpOwner"} /\ pc'[t] \in {"idle", "act"}
      BY <2>4, <3>1, <1>a, <1>b DEF CheckRepoRole, CheckGroupOwner
    <3>3. QED
      BY <3>2 DEF Left
  <2>5. QED
    BY <1>1, <2>1, <2>2, <2>3, <2>4 DEF CheckStep
<1>2. CASE \/ RepoUpdate(t) \/ RepoAddUser(t) \/ RepoRemoveUser(t) \/ RepoAddGroup(t)
           \/ RepoRemoveGroup(t) \/ RepoDelete(t) \/ CreateRepoRow(t) \/ CreateGroupRow(t)
           \/ GroupDelete(t) \/ GroupAddUser(t) \/ GroupRemoveUser(t) \/ UserCreate(t)
  <2>1. pc[t] = "act" /\ pc'[t] \in {"idle", "rm", "rowid", "getId"}
    BY <1>2, <1>a, <1>b DEF RepoUpdate, RepoAddUser, RepoRemoveUser, RepoAddGroup,
       RepoRemoveGroup, RepoDelete, CreateRepoRow, CreateGroupRow, GroupDelete, GroupAddUser,
       GroupRemoveUser, UserCreate, Finish, Exec, Acts
  <2>2. QED
    BY <2>1 DEF Left
<1>3. CASE ReadRowid(t) \/ InitDir(t) \/ SetRepoOwner(t)
  <2>1. \/ pc[t] = "rowid" /\ pc'[t] = "init"
        \/ pc[t] = "init" /\ pc'[t] \in {"own", "undo"}
        \/ pc[t] = "own" /\ pc'[t] \in {"idle", "undo"}
    BY <1>3, <1>a, <1>b DEF ReadRowid, InitDir, SetRepoOwner, Exec
  <2>2. QED
    BY <2>1 DEF Left
<1>4. CASE GetGroupId(t) \/ SetGroupOwner(t)
  <2>1. \/ pc[t] = "getId" /\ pc'[t] \in {"idle", "getIdAgain"}
        \/ pc[t] = "getIdAgain" /\ pc'[t] \in {"idle", "own"}
        \/ pc[t] = "own" /\ pc'[t] \in {"idle", "grpUndo"}
    BY <1>4, <1>a, <1>b DEF GetGroupId, SetGroupOwner, Exec
  <2>2. QED
    BY <2>1 DEF Left
<1>5. CASE RemoveDir(t) \/ UndoRepoRow(t) \/ UndoGroupRow(t)
  <2>1. pc[t] \in {"rm", "undo", "grpUndo"} /\ pc'[t] = "idle"
    BY <1>5, <1>a DEF RemoveDir, UndoRepoRow, UndoGroupRow, Finish, Exec
  <2>2. QED
    BY <2>1 DEF Left
<1>6. QED
  BY <1>1, <1>2, <1>3, <1>4, <1>5 DEF Step, RepoStep, GroupStep

\* A thread that is not idle is moved only by its own steps and by a restart.
LEMMA NextAdvances ==
  ASSUME IInv, [Next]_vars, NEW u \in Threads, pc[u] # "idle", pc'[u] # pc[u]
  PROVE  Left(pc'[u]) < Left(pc[u])
<1>a. FrameOK
  BY DEF IInv, TypeOK, FrameOK
<1>1. ASSUME NEW t \in Threads, Begin(t) \/ Step(t)
      PROVE  Step(u)
  <2>1. t = u
    BY <1>1, <1>a, StepElsewhere
  <2>2. QED
    BY <1>1, <2>1 DEF Begin
<1>2. CASE Restart
  <2>1. pc'[u] = "idle" /\ pc[u] \in Labels \ {"idle"}
    BY <1>2, <1>a DEF Restart, FrameOK
  <2>2. QED
    BY <2>1 DEF Left, Labels
<1>3. CASE MakeAdmin \/ UNCHANGED vars
  BY <1>3 DEF MakeAdmin, vars
<1>4. QED
  BY <1>a, <1>1, <1>2, <1>3, LeftFalls DEF Next

(***************************************************************************)
(* Whatever the threads do, and whatever fails, the types hold and the     *)
(* tables are consistent.                                                  *)
(***************************************************************************)
THEOREM ServiceIntegrity == Spec => [](TypeOK /\ Integrity)
<1>1. IInv /\ [Next]_vars => IInv'
  BY NextIInv
<1>2. IInv => TypeOK /\ Integrity
  BY DEF IInv
<1>3. QED
  BY <1>1, <1>2, InitIInv, PTL DEF Spec

(***************************************************************************)
(* Each step of a handler brings it closer to its answer, whatever the     *)
(* others change and whatever fails.                                       *)
(***************************************************************************)
THEOREM HandlersGoForward == Spec => HandlersAdvance
<1>1. IInv /\ [Next]_vars => IInv'
  BY NextIInv
<1>2. IInv /\ [Next]_vars =>
        [\A t \in Threads :
           pc[t] # "idle" /\ pc'[t] # pc[t] => Left(pc'[t]) < Left(pc[t])]_vars
  BY NextAdvances
<1>3. QED
  BY <1>1, <1>2, InitIInv, PTL DEF Spec, HandlersAdvance

(***************************************************************************)
(* The handlers implement the database: each of their steps is one         *)
(* statement the schema accepts, or changes no table.                      *)
(***************************************************************************)
THEOREM ServiceIsDatabase == Spec => DatabaseSpec
<1>1. Init => DbInit
  BY DEF Init
<1>2. IInv /\ [Next]_vars => IInv'
  BY NextIInv
<1>3. IInv /\ [Next]_vars => [DbNext]_dbVars
  BY NextDb
<1>4. QED
  BY <1>1, <1>2, <1>3, InitIInv, PTL DEF Spec, DatabaseSpec, DbSpec
-----------------------------------------------------------------------------
(***************************************************************************)
(* Where the storage does not refuse statements, the handlers implement    *)
(* RepoLifecycle, restarts and failures of git_repository_init included.   *)
(* The statement that removes a directory comes several statements after   *)
(* the one that resolved the id; the invariant that carries the proof says *)
(* that the id a deleting handler holds was given once, and, when the      *)
(* directory is about to go, is given no more.                             *)
(***************************************************************************)
SafeDelete(t) ==
  /\ pc[t] = "grpOwner" => req[t].op # "repoDelete"
  /\ pc[t] = "act" /\ req[t].op = "repoDelete" => req[t].repo_id \in Given
  /\ pc[t] = "rm" => req[t].repo_id \in Gone

LInv ==
  /\ IInv
  /\ sqlite_sequence.repos <= MaxId.repos
  /\ \A t \in Threads : SafeDelete(t)

LEMMA GivenAssumption == MaxId.repos \in Nat
  BY MaxIdAssumption DEF AutoTables

\* Ids that were given stay given, and a dead one stays dead.
LEMMA GivenStep ==
  ASSUME LInv, [Next]_vars
  PROVE  /\ sqlite_sequence'.repos <= MaxId.repos
         /\ Given \subseteq Given' /\ Gone \subseteq Gone'
<1>1. Inv /\ [DbNext]_dbVars
  BY IInvInv, NextDb DEF LInv
<1>2. sqlite_sequence'.repos <= MaxId.repos
  <2>1. sqlite_sequence.repos \in Nat
    BY <1>1 DEF Inv, DbTypeOK, AutoTables
  <2>2. QED
    BY <1>1, <2>1, IdsStep, GivenAssumption DEF IdsStay, IdBorn, IdDies, LInv
<1>3. QED
  BY <1>1, <1>2, GoneStep

-----------------------------------------------------------------------------
(* The invariant is inductive. *)

LEMMA OwnedRepoIsGiven ==
  ASSUME Inv, NEW r, NEW u, HasRole(r, u, kOwner)
  PROVE  r \in Given
<1>1. r \in RepoIds
  BY RoleHolders DEF Roles, kNone, kOwner
<1>2. QED
  BY <1>1 DEF Inv, Integrity, IdsBelowSequence, Given

\* The handlers of other threads are not disturbed.
LEMMA SafeElsewhere ==
  ASSUME LInv, [Next]_vars, NEW u \in Threads, pc'[u] = pc[u], req'[u] = req[u]
  PROVE  SafeDelete(u)'
  BY GivenStep DEF LInv, SafeDelete

LEMMA GotoOther ==
  ASSUME FrameOK, NEW t \in Threads, NEW label, NEW m,
         Goto(t, label) \/ GotoWith(t, label, m) \/ Return(t)
  PROVE  \A u \in Threads \ {t} : pc'[u] = pc[u] /\ req'[u] = req[u]
  BY DEF FrameOK, Goto, GotoWith, Return

\* A thread that goes to a label which SafeDelete does not mention is safe.
LEMMA SafeGoto ==
  ASSUME FrameOK, NEW t \in Threads, NEW label, NEW m,
         label \notin {"grpOwner", "act", "rm"},
         Goto(t, label) \/ GotoWith(t, label, m)
  PROVE  SafeDelete(t)'
  BY DEF FrameOK, Goto, GotoWith, SafeDelete

LEMMA SafeReturn ==
  ASSUME FrameOK, NEW t \in Threads, Return(t)
  PROVE  SafeDelete(t)'
  BY DEF FrameOK, Return, SafeDelete

LEMMA SafeBegin ==
  ASSUME FrameOK, NEW t \in Threads, Begin(t)
  PROVE  SafeDelete(t)' /\ \A u \in Threads \ {t} : pc'[u] = pc[u] /\ req'[u] = req[u]
<1>1. PICK q \in Requests :
        /\ pc' = [pc EXCEPT ![t] = First(q.op)]
        /\ req' = [req EXCEPT ![t] = q]
  BY DEF Begin
<1>2. pc'[t] = First(q.op) /\ req'[t] = q
  BY <1>1 DEF FrameOK
<1>3. First(q.op) \notin {"grpOwner", "rm"} /\ (First(q.op) = "act" => q.op # "repoDelete")
  BY DEF First, RepoOps
<1>4. SafeDelete(t)'
  BY <1>2, <1>3 DEF SafeDelete
<1>5. QED
  BY <1>1, <1>4 DEF FrameOK

\* Resolving an id leads to a check, never past it.
LEMMA SafeResolve ==
  ASSUME FrameOK, NEW t \in Threads, SetRepoId(t) \/ SetGrpId(t) \/ SetUserId(t)
  PROVE  SafeDelete(t)' /\ \A u \in Threads \ {t} : pc'[u] = pc[u] /\ req'[u] = req[u]
<1> DEFINE After(op) == {Check(op), AfterGrp(op), AfterRepo(op)}
<1>1. \/ \E label \in After(req[t].op) : Goto(t, label)
      \/ \E label \in After(req[t].op) : \E m : m.op = req[t].op /\ GotoWith(t, label, m)
      \/ Return(t)
  <2>1. \A i : /\ [req[t] EXCEPT !.repo_id = i].op = req[t].op
              /\ [req[t] EXCEPT !.grp_id = i].op = req[t].op
              /\ [req[t] EXCEPT !.user_id = i].op = req[t].op
    BY DEF FrameOK, Message
  <2>2. CASE SetRepoId(t)
    BY <2>1, <2>2 DEF SetRepoId
  <2>3. CASE SetGrpId(t)
    BY <2>1, <2>3 DEF SetGrpId
  <2>4. CASE SetUserId(t)
    BY <2>1, <2>4 DEF SetUserId
  <2>5. QED
    BY <2>2, <2>3, <2>4
<1>2. \A op : \A label \in After(op) :
        label \notin {"act", "rm"} /\ (label = "grpOwner" => op # "repoDelete")
  BY DEF Check, AfterGrp, AfterRepo, RepoOps
<1>3. SafeDelete(t)'
  <2>1. CASE \E label \in After(req[t].op) : Goto(t, label)
    BY <2>1, <1>2 DEF FrameOK, Goto, SafeDelete
  <2>2. CASE \E label \in After(req[t].op) : \E m : m.op = req[t].op /\ GotoWith(t, label, m)
    BY <2>2, <1>2 DEF FrameOK, GotoWith, SafeDelete
  <2>3. QED
    BY <1>1, <2>1, <2>2, SafeReturn
<1>4. QED
  BY <1>1, <1>3, GotoOther

\* The check of the owner's role is what makes the id one that was given.
LEMMA SafeCheck ==
  ASSUME LInv, NEW t \in Threads, CheckRepoRole(t) \/ CheckGroupOwner(t)
  PROVE  SafeDelete(t)' /\ \A u \in Threads \ {t} : pc'[u] = pc[u] /\ req'[u] = req[u]
<1>a. FrameOK /\ Inv /\ SafeDelete(t)
  BY IInvInv DEF LInv, IInv, TypeOK, FrameOK
<1>1. CASE Return(t)
  BY <1>1, <1>a, SafeReturn, GotoOther
<1>2. CASE Goto(t, "act")
  <2>1. pc'[t] = "act" /\ req'[t] = req[t]
    BY <1>2, <1>a DEF Goto, FrameOK
  <2>2. req[t].op = "repoDelete" => req[t].repo_id \in Given
    <3>1. CASE CheckGroupOwner(t)
      BY <3>1, <1>a DEF CheckGroupOwner, SafeDelete
    <3>2. CASE CheckRepoRole(t) /\ HasRole(req[t].repo_id, session[t].user_id, kOwner)
      BY <3>2, <1>a, OwnedRepoIsGiven
    <3>3. CASE CheckRepoRole(t) /\ ~ HasRole(req[t].repo_id, session[t].user_id, kOwner)
      <4>1. Return(t)
        BY <3>3, Zenon DEF CheckRepoRole
      <4>2. pc'[t] = "idle"
        BY <4>1, <1>a DEF Return, FrameOK
      <4>3. QED
        BY <2>1, <4>2
    <3>4. QED
      BY <3>1, <3>2, <3>3
  <2>3. Given' = Given
    BY DEF CheckRepoRole, CheckGroupOwner, dbVars, Given
  <2>4. SafeDelete(t)'
    BY <2>1, <2>2, <2>3 DEF SafeDelete
  <2>5. QED
    BY <1>2, <1>a, <2>4, GotoOther
<1>3. Goto(t, "act") \/ Return(t)
  <2>1. CASE CheckRepoRole(t)
    BY <2>1, Zenon DEF CheckRepoRole
  <2>2. CASE CheckGroupOwner(t)
    BY <2>2, Zenon DEF CheckGroupOwner
  <2>3. QED
    BY <2>1, <2>2
<1>4. QED
  BY <1>1, <1>2, <1>3

\* The row is deleted before the directory is, and the deletion is not refused.
LEMMA SafeRepoDelete ==
  ASSUME LInv, "sql" \notin Failures, NEW t \in Threads, RepoDelete(t)
  PROVE  SafeDelete(t)' /\ \A u \in Threads \ {t} : pc'[u] = pc[u] /\ req'[u] = req[u]
<1>a. FrameOK /\ SafeDelete(t)
  BY DEF LInv, IInv, TypeOK, FrameOK
<1>1. DeleteRepo(req[t].repo_id) /\ Goto(t, "rm")
  BY DEF RepoDelete, Exec
<1>2. req[t].repo_id \in Given
  BY <1>a DEF RepoDelete, Acts, SafeDelete
<1>3. pc'[t] = "rm" /\ req'[t] = req[t]
  BY <1>1, <1>a DEF Goto, FrameOK
<1>4. req[t].repo_id \in Gone'
  BY <1>1, <1>2 DEF DeleteRepo, Gone, Given, RepoIds
<1>5. QED
  BY <1>1, <1>3, <1>4, <1>a, GotoOther DEF SafeDelete

LEMMA SafeStep ==
  ASSUME LInv, "sql" \notin Failures, NEW t \in Threads, Begin(t) \/ Step(t)
  PROVE  SafeDelete(t)' /\ \A u \in Threads \ {t} : pc'[u] = pc[u] /\ req'[u] = req[u]
<1>a. FrameOK
  BY DEF LInv, IInv, TypeOK, FrameOK
<1>1. CASE Begin(t) \/ CheckStep(t)
  BY <1>1, <1>a, SafeBegin, SafeResolve, SafeCheck DEF CheckStep
<1>2. CASE RepoDelete(t)
  BY <1>2, SafeRepoDelete
<1>3. CASE \/ RepoUpdate(t) \/ RepoAddUser(t) \/ RepoRemoveUser(t) \/ RepoAddGroup(t)
           \/ RepoRemoveGroup(t) \/ RemoveDir(t) \/ UndoRepoRow(t) \/ UserCreate(t)
           \/ GroupDelete(t) \/ GroupAddUser(t) \/ GroupRemoveUser(t) \/ UndoGroupRow(t)
  <2>1. Return(t)
    BY <1>3 DEF RepoUpdate, RepoAddUser, RepoRemoveUser, RepoAddGroup, RepoRemoveGroup,
       RemoveDir, UndoRepoRow, UserCreate, GroupDelete, GroupAddUser, GroupRemoveUser,
       UndoGroupRow, Finish, Exec
  <2>2. QED
    BY <2>1, <1>a, SafeReturn, GotoOther
<1>4. CASE \/ CreateRepoRow(t) \/ ReadRowid(t) \/ InitDir(t) \/ SetRepoOwner(t)
           \/ CreateGroupRow(t) \/ GetGroupId(t) \/ SetGroupOwner(t)
  <2>1. \/ Return(t)
        \/ \E label \in Labels \ {"grpOwner", "act", "rm"} :
             Goto(t, label) \/ \E m : GotoWith(t, label, m)
    <3>1. {"rowid", "init", "own", "undo", "getId", "getIdAgain", "grpUndo"}
            \subseteq Labels \ {"grpOwner", "act", "rm"}
      BY DEF Labels
    <3>2. QED
      BY <1>4, <3>1 DEF CreateRepoRow, ReadRowid, InitDir, SetRepoOwner, CreateGroupRow,
         GetGroupId, SetGroupOwner, Exec
  <2>2. QED
    BY <2>1, <1>a, SafeReturn, SafeGoto, GotoOther
<1>5. QED
  BY <1>1, <1>2, <1>3, <1>4 DEF Step, RepoStep, GroupStep

LEMMA NextLInv ==
  ASSUME LInv, "sql" \notin Failures, [Next]_vars
  PROVE  LInv'
<1>1. \A u \in Threads : SafeDelete(u)'
  <2>1. ASSUME NEW t \in Threads, Begin(t) \/ Step(t)
        PROVE  \A u \in Threads : SafeDelete(u)'
    BY <2>1, SafeStep, SafeElsewhere
  <2>2. CASE MakeAdmin \/ UNCHANGED vars
    BY <2>2, SafeElsewhere DEF MakeAdmin, vars
  <2>3. CASE Restart
    BY <2>3 DEF Restart, SafeDelete
  <2>4. QED
    BY <2>1, <2>2, <2>3 DEF Next
<1>2. QED
  BY <1>1, GivenStep, NextIInv DEF LInv

LEMMA InitLInv == Init => LInv
<1>1. Init => sqlite_sequence.repos = 0
  BY DEF Init, DbInit, AutoTables
<1>2. QED
  BY <1>1, InitIInv, GivenAssumption DEF Init, LInv, SafeDelete

-----------------------------------------------------------------------------
(* Every step is one of the life cycle's. *)

phases == [i \in Ids |-> Phase(i)]

LEMMA IdsFacts ==
  ASSUME LInv
  PROVE  /\ sqlite_sequence.repos \in Nat /\ MaxId.repos \in Nat
         /\ RepoIds \subseteq Given /\ Given \subseteq Ids
<1>1. sqlite_sequence.repos \in Nat
  BY DEF LInv, IInv, TypeOK, DbTypeOK, AutoTables
<1>2. QED
  BY <1>1, GivenAssumption DEF LInv, IInv, Integrity, IdsBelowSequence, Given, Ids

LEMMA PhaseStep ==
  ASSUME LInv, [DbNext]_dbVars
  PROVE  \/ phases' = phases
         \/ \E i \in Ids :
              /\ phases[i] = "unborn"
              /\ \A j \in Ids : j < i => phases[j] # "unborn"
              /\ phases' = [phases EXCEPT ![i] = "live"]
         \/ \E i \in Ids : phases[i] = "live" /\ phases' = [phases EXCEPT ![i] = "dead"]
<1>a. /\ sqlite_sequence.repos \in Nat /\ MaxId.repos \in Nat
      /\ RepoIds \subseteq Given /\ Given \subseteq Ids
  BY IdsFacts
<1>b. phases' = [i \in Ids |-> Phase(i)']
  BY DEF phases, Ids
<1>1. CASE IdsStay
  <2>1. \A i \in Ids : Phase(i)' = Phase(i)
    BY <1>1 DEF IdsStay, Phase
  <2>2. QED
    BY <1>b, <2>1 DEF phases
<1>2. CASE IdBorn
  <2>a. sqlite_sequence.repos + 1 \in Ids
    BY <1>2, <1>a DEF IdBorn, Ids
  <2>b. PICK new \in Ids : new = sqlite_sequence.repos + 1
    BY <2>a
  <2>1. new \in Ids /\ new \notin RepoIds
    BY <1>a, <2>b DEF Given
  <2>2. Phase(new) = "unborn"
    BY <1>a, <2>1, <2>b DEF Phase
  <2>3. \A j \in Ids : j < new => Phase(j) # "unborn"
    BY <1>a, <2>b DEF Phase, Ids
  <2>4. Phase(new)' = "live"
    BY <1>2, <2>b DEF IdBorn, Phase
  <2>5. \A j \in Ids \ {new} : Phase(j)' = Phase(j)
    BY <1>2, <1>a, <2>b DEF IdBorn, Phase, Ids
  <2>6. phases' = [phases EXCEPT ![new] = "live"]
    BY <1>b, <2>1, <2>4, <2>5 DEF phases
  <2>7. QED
    BY <2>1, <2>2, <2>3, <2>6 DEF phases
<1>3. ASSUME NEW r \in RepoIds, IdDies(r)
      PROVE  phases[r] = "live" /\ phases' = [phases EXCEPT ![r] = "dead"]
  <2>1. r \in Ids /\ r <= sqlite_sequence.repos
    BY <1>a DEF Given
  <2>2. Phase(r) = "live" /\ Phase(r)' = "dead"
    BY <1>3, <2>1 DEF IdDies, Phase
  <2>3. \A j \in Ids \ {r} : Phase(j)' = Phase(j)
    BY <1>3 DEF IdDies, Phase
  <2>4. QED
    BY <1>b, <2>1, <2>2, <2>3 DEF phases
<1>4. QED
  <2>1. Inv
    BY IInvInv DEF LInv
  <2>2. QED
    BY <2>1, <1>1, <1>2, <1>3, <1>a, IdsStep

\* No step changes both a table and a directory, and two change directories.
LEMMA DirsStep ==
  ASSUME [Next]_vars
  PROVE  \/ repoDirs' = repoDirs
         \/ UNCHANGED dbVars /\ repoDirs \subseteq repoDirs'
         \/ \E t \in Threads : RemoveDir(t)
<1>1. ASSUME NEW t \in Threads, Begin(t) \/ CheckStep(t) \/ GroupStep(t) \/ UserCreate(t)
      PROVE  repoDirs' = repoDirs
  BY <1>1 DEF Begin, CheckStep, SetRepoId, SetGrpId, SetUserId, CheckRepoRole,
    CheckGroupOwner, GroupStep, GroupDelete, GroupAddUser, GroupRemoveUser,
    CreateGroupRow, GetGroupId, SetGroupOwner, UndoGroupRow, UserCreate, Finish
<1>2. ASSUME NEW t \in Threads, RepoStep(t), ~ RemoveDir(t)
      PROVE  repoDirs' = repoDirs \/ (UNCHANGED dbVars /\ repoDirs \subseteq repoDirs')
  BY <1>2 DEF RepoStep, RepoUpdate, RepoAddUser, RepoRemoveUser, RepoAddGroup,
    RepoRemoveGroup, RepoDelete, CreateRepoRow, ReadRowid, InitDir, SetRepoOwner,
    UndoRepoRow, Finish
<1>3. CASE MakeAdmin \/ Restart \/ UNCHANGED vars
  BY <1>3 DEF MakeAdmin, Restart, vars
<1>4. QED
  BY <1>1, <1>2, <1>3 DEF Next, Step

LEMMA LifecycleStep ==
  ASSUME LInv, [Next]_vars
  PROVE  Lifecycle!Next \/ UNCHANGED <<phases, repoDirs>>
<1>1. CASE repoDirs' = repoDirs
  <2>1. [DbNext]_dbVars
    BY NextDb DEF LInv
  <2>2. QED
    BY <1>1, <2>1, PhaseStep DEF Lifecycle!Next, Lifecycle!Born, Lifecycle!Dies, phases
<1>2. CASE UNCHANGED dbVars /\ repoDirs \subseteq repoDirs'
  BY <1>2 DEF Lifecycle!Next, Lifecycle!GainsDirs, dbVars, tables, Phase, RepoIds
<1>3. ASSUME NEW t \in Threads, RemoveDir(t)
      PROVE  Lifecycle!Next
  <2>1. req[t].repo_id \in Gone
    BY <1>3 DEF RemoveDir, LInv, SafeDelete
  <2>2. req[t].repo_id \in Ids /\ Phase(req[t].repo_id) = "dead"
    BY <2>1, IdsFacts DEF Phase, Gone, Given
  <2>3. UNCHANGED [i \in Ids |-> Phase(i)]
    BY <1>3 DEF RemoveDir, dbVars, tables, Phase, RepoIds
  <2>4. QED
    BY <1>3, <2>2, <2>3 DEF RemoveDir, Lifecycle!Next, Lifecycle!LosesDir
<1>4. QED
  BY <1>1, <1>2, <1>3, DirsStep

(***************************************************************************)
(* Ids of repositories are given in order and never again, and repoDelete  *)
(* takes a directory only from an id that is dead, for every interleaving  *)
(* and across restarts, as long as statements do not fail: without that,   *)
(* Repositories::remove removes the directory of a living repository.      *)
(***************************************************************************)
THEOREM ServiceIsLifecycle ==
  ASSUME "sql" \notin Failures
  PROVE  Spec => LifecycleSpec
<1>1. Init => Lifecycle!Init
  <2>1. ASSUME Init
        PROVE  \A i \in Ids : Phase(i) = "unborn"
    BY <2>1, GivenAssumption DEF Init, DbInit, AutoTables, Ids, Phase, RepoIds
  <2>2. QED
    BY <2>1 DEF Init, Lifecycle!Init
<1>2. LInv /\ [Next]_vars => LInv'
  BY NextLInv
<1>3. LInv /\ [Next]_vars => [Lifecycle!Next]_<<phases, repoDirs>>
  BY LifecycleStep
<1>4. QED
  BY <1>1, <1>2, <1>3, InitLInv, PTL DEF Spec, LifecycleSpec, Lifecycle!Spec, phases

-----------------------------------------------------------------------------
(***************************************************************************)
(* Where one thread serves, no statement fails and the process does not    *)
(* die, the directories are what doc.rst says, failures of                 *)
(* git_repository_init included.  A repository without a directory is then *)
(* the one whose creation or clean-up is under way, and it is found by the *)
(* name in the message, although the code looks for it by the rowid of the *)
(* connection and deletes it by name (repositories.cc:44-89).              *)
(***************************************************************************)
OneThread == \A t, u \in Threads : t = u

\* The row of this repoCreate has no directory yet, or none that it could make.
Unfinished(t) == pc[t] \in {"rowid", "init", "undo"}

DirsOK ==
  \A r \in repos :
    \/ r.repo_id \in repoDirs
    \/ \E t \in Threads : Unfinished(t) /\ r.name = req[t].name

PlaceOK(t) ==
  /\ pc[t] = "rowid" => \A r \in repos : r.name = req[t].name => r.repo_id = lastRowid
  /\ pc[t] = "init" => \A r \in repos : r.name = req[t].name => r.repo_id = req[t].repo_id
  /\ pc[t] = "rm" => req[t].repo_id \notin RepoIds

DInv == IInv /\ DirsOK /\ \A t \in Threads : PlaceOK(t)

\* A step that touches neither repositories nor directories.
LEMMA DirsUntouched ==
  ASSUME DInv, OneThread, NEW t \in Threads, ~ Unfinished(t), repos' = repos, repoDirs' = repoDirs,
         pc'[t] \notin {"rowid", "init", "rm"}
  PROVE  DirsOK' /\ PlaceOK(t)'
<1>1. \A r \in repos : r.repo_id \in repoDirs
  BY DEF DInv, DirsOK, OneThread
<1>2. DirsOK'
  BY <1>1 DEF DirsOK
<1>3. QED
  BY <1>2 DEF PlaceOK

LEMMA ChecksLeaveDirs ==
  ASSUME NEW t \in Threads, FrameOK, Begin(t) \/ CheckStep(t) \/ GroupStep(t) \/ UserCreate(t)
  PROVE  /\ ~ Unfinished(t) /\ repos' = repos /\ repoDirs' = repoDirs
         /\ pc'[t] \notin {"rowid", "init", "rm"}
<1> USE DEF Unfinished, FrameOK
<1>a. ASSUME Return(t) \/ (\E label \in {"act", "getId", "getIdAgain", "own", "grpUndo"} :
               Goto(t, label) \/ \E m : GotoWith(t, label, m))
      PROVE  pc'[t] \notin {"rowid", "init", "rm"}
  BY <1>a DEF Return, Goto, GotoWith
<1>b. ASSUME NEW op, NEW label \in {First(op), Check(op), AfterGrp(op), AfterRepo(op)},
             Goto(t, label) \/ (\E m : GotoWith(t, label, m)) \/ pc' = [pc EXCEPT ![t] = label]
      PROVE  pc'[t] \notin {"rowid", "init", "rm"}
  BY <1>b DEF First, Check, AfterGrp, AfterRepo, Goto, GotoWith
<1>1. CASE Begin(t)
  <2>1. pc'[t] \notin {"rowid", "init", "rm"}
    BY <1>1, <1>b DEF Begin
  <2>2. QED
    BY <1>1, <2>1 DEF Begin, dbVars, tables
<1>2. CASE SetRepoId(t)
  <2>1. pc'[t] \notin {"rowid", "init", "rm"}
    BY <1>2, <1>a, <1>b DEF SetRepoId
  <2>2. QED
    BY <1>2, <2>1 DEF SetRepoId, dbVars, tables
<1>3. CASE SetGrpId(t)
  <2>1. pc'[t] \notin {"rowid", "init", "rm"}
    BY <1>3, <1>a, <1>b DEF SetGrpId
  <2>2. QED
    BY <1>3, <2>1 DEF SetGrpId, dbVars, tables
<1>4. CASE SetUserId(t)
  <2>1. pc'[t] \notin {"rowid", "init", "rm"}
    BY <1>4, <1>a, <1>b DEF SetUserId
  <2>2. QED
    BY <1>4, <2>1 DEF SetUserId, dbVars, tables
<1>5. CASE CheckRepoRole(t) \/ CheckGroupOwner(t)
  <2>1. Goto(t, "act") \/ Return(t)
    BY <1>5, Zenon DEF CheckRepoRole, CheckGroupOwner
  <2>2. pc'[t] \notin {"rowid", "init", "rm"}
    BY <2>1, <1>a
  <2>3. QED
    BY <1>5, <2>2 DEF CheckRepoRole, CheckGroupOwner, dbVars, tables
<1>6. CASE GroupStep(t)
  <2>1. pc'[t] \notin {"rowid", "init", "rm"}
    BY <1>6, <1>a DEF GroupStep, GroupDelete, GroupAddUser, GroupRemoveUser, CreateGroupRow,
       GetGroupId, SetGroupOwner, UndoGroupRow, Finish, Exec
  <2>2. ~ Unfinished(t) /\ repoDirs' = repoDirs
    BY <1>6 DEF GroupStep, GroupDelete, GroupAddUser, GroupRemoveUser, CreateGroupRow,
       GetGroupId, SetGroupOwner, UndoGroupRow, Finish, Acts
  <2>3. repos' = repos
    BY <1>6 DEF GroupStep, GroupDelete, GroupAddUser, GroupRemoveUser, CreateGroupRow,
       GetGroupId, SetGroupOwner, UndoGroupRow, Finish, Exec, DeleteGroup, InsertGroupUser,
       DeleteGroupUser, InsertGroup, dbVars, tables
  <2>4. QED
    BY <2>1, <2>2, <2>3
<1>7. CASE UserCreate(t)
  <2>1. Return(t)
    BY <1>7 DEF UserCreate, Finish, Exec
  <2>2. pc'[t] \notin {"rowid", "init", "rm"}
    BY <2>1, <1>a
  <2>3. QED
    BY <1>7, <2>2 DEF UserCreate, Finish, Exec, InsertUser, Acts, dbVars, tables
<1>8. QED
  BY <1>1, <1>2, <1>3, <1>4, <1>5, <1>6, <1>7 DEF CheckStep

\* The rows and labels that a step of repoCreate or repoDelete leaves.
LEMMA CreationMakesDir ==
  ASSUME DInv, OneThread, "sql" \notin Failures, NEW t \in Threads,
         CreateRepoRow(t) \/ ReadRowid(t) \/ InitDir(t) \/ UndoRepoRow(t)
  PROVE  DirsOK' /\ PlaceOK(t)'
<1>a. FrameOK /\ Inv /\ PrimaryKeys
  BY IInvInv DEF DInv, IInv, TypeOK, FrameOK, Inv, Integrity
<1> USE DEF Unfinished, FrameOK
<1>b. /\ req[t] \in Message
      /\ \A r \in repos : r.repo_id \in repoDirs \/ (Unfinished(t) /\ r.name = req[t].name)
  BY <1>a DEF DInv, DirsOK, OneThread
<1>1. CASE CreateRepoRow(t) /\ Return(t) /\ repos' = repos
  <2>1. ~ Unfinished(t) /\ repoDirs' = repoDirs
    BY <1>1 DEF CreateRepoRow, Acts
  <2>2. pc'[t] = "idle"
    BY <1>1, <1>a DEF Return
  <2>3. QED
    BY <1>1, <2>1, <2>2, DirsUntouched
<1>2. CASE CreateRepoRow(t) /\ InsertRepo(req[t].name, req[t].is_public) /\ Goto(t, "rowid")
           /\ AcceptsRepo(req[t].name)
  <2>1. /\ pc'[t] = "rowid" /\ req'[t] = req[t] /\ repoDirs' = repoDirs
        /\ \A r \in repos : r.repo_id \in repoDirs /\ r.name # req[t].name
    BY <1>2, <1>a, <1>b DEF CreateRepoRow, Acts, Goto, AcceptsRepo
  <2>2. PICK id : /\ repos' = repos \cup {[repo_id |-> id, name |-> req[t].name,
                                           is_public |-> req[t].is_public]}
                  /\ lastRowid' = id
    BY <1>2 DEF InsertRepo
  <2>3. \A r \in repos' : r \in repos \/ (r.name = req[t].name /\ r.repo_id = lastRowid')
    BY <2>2
  <2>4. DirsOK'
    BY <2>1, <2>3 DEF DirsOK
  <2>5. QED
    BY <2>1, <2>3, <2>4 DEF PlaceOK
<1>3. CASE ReadRowid(t)
  <2>1. /\ pc[t] = "rowid" /\ pc'[t] = "init" /\ repos' = repos /\ repoDirs' = repoDirs
        /\ req'[t].name = req[t].name /\ req'[t].repo_id = lastRowid
    BY <1>3, <1>a, <1>b DEF ReadRowid, GotoWith, Message, dbVars, tables
  <2>2. DirsOK'
    BY <1>b, <2>1 DEF DirsOK
  <2>3. \A r \in repos : r.name = req[t].name => r.repo_id = lastRowid
    BY <2>1 DEF DInv, PlaceOK
  <2>4. QED
    BY <2>1, <2>2, <2>3 DEF PlaceOK
<1>4. CASE InitDir(t)
  <2>1. /\ pc[t] = "init" /\ repos' = repos /\ req'[t] = req[t]
        /\ \/ repoDirs' = repoDirs \cup {req[t].repo_id} /\ pc'[t] = "own"
           \/ repoDirs' = repoDirs /\ pc'[t] = "undo"
    BY <1>4, <1>a DEF InitDir, Goto, dbVars, tables
  <2>2. \A r \in repos : r.name = req[t].name => r.repo_id = req[t].repo_id
    BY <2>1 DEF DInv, PlaceOK
  <2>3. DirsOK'
    BY <1>b, <2>1, <2>2 DEF DirsOK
  <2>4. QED
    BY <2>1, <2>3 DEF PlaceOK
<1>5. CASE UndoRepoRow(t)
  <2>1. DeleteRepoNamed(req[t].name) /\ Return(t) /\ repoDirs' = repoDirs
    BY <1>5 DEF UndoRepoRow, Finish, Exec
  <2>2. pc'[t] = "idle"
    BY <1>a, <2>1 DEF Return
  <2>3. repos' \subseteq repos /\ \A r \in repos' : r.name # req[t].name
    <3>1. CASE \A r \in repos : r.name # req[t].name
      BY <2>1, <3>1 DEF DeleteRepoNamed, dbVars, tables
    <3>2. CASE \E r \in repos : r.name = req[t].name /\ DeleteRepo(r.repo_id)
      <4>1. PICK r \in repos : r.name = req[t].name /\ DeleteRepo(r.repo_id)
        BY <3>2
      <4>2. repos' = {q \in repos : q.repo_id # r.repo_id}
        BY <4>1 DEF DeleteRepo
      <4>3. \A q \in repos : q.name = req[t].name => q = r
        BY <1>a, <4>1 DEF PrimaryKeys
      <4>4. QED
        BY <4>2, <4>3
    <3>3. QED
      BY <2>1, <3>1, <3>2 DEF DeleteRepoNamed
  <2>4. \A r \in repos' : r.repo_id \in repoDirs'
    BY <1>b, <2>1, <2>3
  <2>5. DirsOK'
    BY <2>4 DEF DirsOK
  <2>6. QED
    BY <2>2, <2>5 DEF PlaceOK
<1>6. QED
  BY <1>1, <1>2, <1>3, <1>4, <1>5 DEF CreateRepoRow, Exec, dbVars, tables

LEMMA DeletionKeepsDirs ==
  ASSUME DInv, OneThread, "sql" \notin Failures, NEW t \in Threads,
         RepoDelete(t) \/ RemoveDir(t)
  PROVE  DirsOK' /\ PlaceOK(t)'
<1>a. FrameOK
  BY DEF DInv, IInv, TypeOK, FrameOK
<1> USE DEF Unfinished, FrameOK
<1>b. ~ Unfinished(t)
  BY DEF RepoDelete, RemoveDir, Acts
<1>c. \A r \in repos : r.repo_id \in repoDirs
  BY <1>b DEF DInv, DirsOK, OneThread
<1>1. CASE RepoDelete(t)
  <2>1. DeleteRepo(req[t].repo_id) /\ Goto(t, "rm") /\ repoDirs' = repoDirs
    BY <1>1 DEF RepoDelete, Exec
  <2>2. /\ pc'[t] = "rm" /\ req'[t] = req[t]
        /\ repos' = {r \in repos : r.repo_id # req[t].repo_id}
    BY <1>a, <2>1 DEF Goto, DeleteRepo
  <2>3. DirsOK'
    BY <1>c, <2>1, <2>2 DEF DirsOK
  <2>4. req'[t].repo_id \notin {r.repo_id : r \in repos'}
    BY <2>2
  <2>5. QED
    BY <2>2, <2>3, <2>4 DEF PlaceOK, RepoIds
<1>2. CASE RemoveDir(t)
  <2>1. /\ pc[t] = "rm" /\ repoDirs' = repoDirs \ {req[t].repo_id} /\ repos' = repos
        /\ pc'[t] = "idle"
    BY <1>2, <1>a DEF RemoveDir, Return, dbVars, tables
  <2>2. \A r \in repos : r.repo_id # req[t].repo_id
    BY <2>1 DEF DInv, PlaceOK, RepoIds
  <2>3. DirsOK'
    BY <1>c, <2>1, <2>2 DEF DirsOK
  <2>4. QED
    BY <2>1, <2>3 DEF PlaceOK
<1>3. QED
  BY <1>1, <1>2

LEMMA RepoStepDirs ==
  ASSUME DInv, OneThread, "sql" \notin Failures, NEW t \in Threads, RepoStep(t)
  PROVE  DirsOK' /\ PlaceOK(t)'
<1>a. FrameOK /\ Inv
  BY IInvInv DEF DInv, IInv, TypeOK, FrameOK
<1>1. CASE RepoUpdate(t)
  <2>1. ~ Unfinished(t) /\ repoDirs' = repoDirs /\ Return(t)
    BY <1>1 DEF RepoUpdate, Finish, Exec, Acts, Unfinished
  <2>2. pc'[t] = "idle"
    BY <1>a, <2>1 DEF Return, FrameOK
  <2>3. \A r \in repos : r.repo_id \in repoDirs
    BY <2>1 DEF DInv, DirsOK, OneThread
  <2>4. \A r \in repos' : \E q \in repos : r.repo_id = q.repo_id
    <3>1. CASE UpdateRepo(req[t].repo_id, req[t].name, req[t].is_public)
      <4>1. ASSUME NEW q \in repos, NEW n, NEW p
            PROVE  [q EXCEPT !.name = n, !.is_public = p].repo_id = q.repo_id
        BY <1>a DEF Inv, DbTypeOK, Repo
      <4> SUFFICES ASSUME NEW r \in repos'
                   PROVE  \E q \in repos : r.repo_id = q.repo_id
        OBVIOUS
      <4>2. PICK q \in repos :
              r = IF q.repo_id = req[t].repo_id
                    THEN [q EXCEPT !.name = req[t].name, !.is_public = req[t].is_public] ELSE q
        BY <3>1, Zenon DEF UpdateRepo
      <4>3. r.repo_id = q.repo_id
        BY <4>1, <4>2
      <4>4. QED
        BY <4>3
    <3>2. CASE UNCHANGED dbVars
      BY <3>2 DEF dbVars, tables
    <3>3. QED
      BY <1>1, <3>1, <3>2 DEF RepoUpdate, Finish, Exec
  <2>5. DirsOK'
    BY <2>1, <2>3, <2>4 DEF DirsOK
  <2>6. QED
    BY <2>2, <2>5 DEF PlaceOK
<1>2. CASE RepoAddUser(t) \/ RepoRemoveUser(t) \/ RepoAddGroup(t) \/ RepoRemoveGroup(t)
  <2>1. ~ Unfinished(t) /\ repoDirs' = repoDirs /\ Return(t)
    BY <1>2 DEF RepoAddUser, RepoRemoveUser, RepoAddGroup, RepoRemoveGroup, Finish, Exec, Acts,
       Unfinished
  <2>2. repos' = repos
    BY <1>2 DEF RepoAddUser, RepoRemoveUser, RepoAddGroup, RepoRemoveGroup, Finish, Exec,
       InsertRepoUser, DeleteRepoUser, InsertRepoGroup, DeleteRepoGroup, dbVars, tables
  <2>3. pc'[t] = "idle"
    BY <1>a, <2>1 DEF Return, FrameOK
  <2>4. QED
    BY <2>1, <2>2, <2>3, DirsUntouched
<1>3. CASE SetRepoOwner(t)
  <2>1. /\ ~ Unfinished(t) /\ repoDirs' = repoDirs
        /\ Return(t) \/ Goto(t, "undo")
    BY <1>3 DEF SetRepoOwner, Exec, Unfinished
  <2>2. repos' = repos
    BY <1>3 DEF SetRepoOwner, Exec, InsertRepoUser, dbVars, tables
  <2>3. pc'[t] \in {"idle", "undo"}
    BY <1>a, <2>1 DEF Return, Goto, FrameOK
  <2>4. QED
    BY <2>1, <2>2, <2>3, DirsUntouched
<1>4. QED
  BY <1>1, <1>2, <1>3, CreationMakesDir, DeletionKeepsDirs DEF RepoStep

LEMMA NextDInv ==
  ASSUME DInv, OneThread, Failures \subseteq {"git"}, [Next]_vars
  PROVE  DInv'
<1>a. FrameOK /\ "sql" \notin Failures
  BY DEF DInv, IInv, TypeOK, FrameOK
<1>1. ASSUME NEW t \in Threads, Begin(t) \/ Step(t)
      PROVE  DirsOK' /\ \A u \in Threads : PlaceOK(u)'
  <2>1. DirsOK' /\ PlaceOK(t)'
    <3>1. CASE Begin(t) \/ CheckStep(t) \/ GroupStep(t) \/ UserCreate(t)
      BY <3>1, <1>a, ChecksLeaveDirs, DirsUntouched
    <3>2. CASE RepoStep(t)
      BY <3>2, <1>a, RepoStepDirs
    <3>3. QED
      BY <1>1, <3>1, <3>2 DEF Step
  <2>2. QED
    BY <2>1 DEF OneThread
<1>2. CASE MakeAdmin \/ UNCHANGED vars
  <2>1. UNCHANGED <<repos, lastRowid, pc, req, repoDirs>>
    BY <1>2 DEF MakeAdmin, SetAdmin, vars, dbVars, tables
  <2>2. QED
    BY <2>1, NextIInv DEF DInv, DirsOK, PlaceOK, Unfinished, RepoIds
<1>3. ~ Restart
  BY DEF Restart
<1>4. QED
  BY <1>1, <1>2, <1>3, NextIInv DEF DInv, Next

LEMMA InitDInv == Init => DInv
<1>1. Init => repos = {} /\ pc = [t \in Threads |-> "idle"]
  BY DEF Init, DbInit
<1>2. QED
  BY <1>1, InitIInv DEF DInv, DirsOK, PlaceOK

(***************************************************************************)
(* With one serving thread, and where statements do not fail and the       *)
(* process does not die, every repository has its directory when no        *)
(* repoCreate is under way, however requests follow each other and         *)
(* whatever git_repository_init does (repositories.cc:44-89): what two     *)
(* threads break is the rowid they share.                                  *)
(***************************************************************************)
THEOREM OneThreadKeepsDirs ==
  ASSUME OneThread, Failures \subseteq {"git"}
  PROVE  Spec => []EveryRepoHasDir
<1>1. DInv => EveryRepoHasDir
  <2>1. DInv /\ (\A t \in Threads : ~ Creating(t)) => \A r \in repos : r.repo_id \in repoDirs
    BY DEF DInv, DirsOK, Creating, Unfinished
  <2>2. QED
    BY <2>1 DEF EveryRepoHasDir, RepoIds
<1>2. DInv /\ [Next]_vars => DInv'
  BY NextDInv
<1>3. QED
  BY <1>1, <1>2, InitDInv, PTL DEF Spec
=============================================================================
