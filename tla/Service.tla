------------------------------- MODULE Service -------------------------------
(***************************************************************************)
(* The management handlers of scissyd (src/scissy/service.cc), with the    *)
(* database statements and file-system calls they make.  main.cc starts    *)
(* one serving thread per listening port and serves the RPC socket on its  *)
(* own; a thread runs one handler at a time, and the handlers of several   *)
(* threads interleave between any two statements.  One action is one       *)
(* statement or one file-system call, with the local code that follows it. *)
(*                                                                         *)
(* Left out: answers to the client (no handler reads them back), message   *)
(* wording, and the handlers that change nothing (module Access).          *)
(***************************************************************************)
EXTENDS Database

CONSTANTS
  Threads,   \* the threads that run handlers
  Requests,  \* the messages clients may send
  NoName,    \* an optional name field that is not set
  Failures   \* what may go wrong besides the handlers' own checks

VARIABLES
  pc,        \* the next statement of each thread's handler
  req,       \* its message; SET_*_ID and the handlers' locals write into it
  session,   \* its pb::Session: a snapshot taken when the request arrived
  repoDirs   \* ids whose directory exists under Config::repos()

vars == <<dbVars, pc, req, session, repoDirs>>

-----------------------------------------------------------------------------
RepoOps  == {"repoUpdate", "repoDelete", "repoAddUser", "repoRemoveUser",
             "repoAddGroup", "repoRemoveGroup"}
GroupOps == {"groupDelete", "groupAddUser", "groupRemoveUser"}
Ops      == RepoOps \cup GroupOps \cup {"userCreate", "groupCreate", "repoCreate"}

NamesUser  == {"repoAddUser", "repoRemoveUser", "groupAddUser", "groupRemoveUser"}
NamesGroup == {"repoAddGroup", "repoRemoveGroup"} \cup GroupOps

NoId == 0   \* an optional id that is not set: ids start at 1

\* The union of the request messages of service.proto; `as' is the user whose
\* cookies are valid, NoName for a visitor, and `name' the new name of a thing.
Message ==
  [op : Ops \cup {"none"}, as : Logins \cup {NoName},
   repo : RepoNames \cup {NoName}, repo_id : Nat,
   grp : GroupNames \cup {NoName}, grp_id : Nat,
   user : Logins \cup {NoName}, user_id : Nat,
   role : Roles, name : RepoNames \cup GroupNames \cup Logins \cup {NoName},
   is_public : BOOLEAN]

NoRequest ==
  [op |-> "none", as |-> NoName, repo |-> NoName, repo_id |-> NoId,
   grp |-> NoName, grp_id |-> NoId, user |-> NoName, user_id |-> NoId,
   role |-> kNone, name |-> NoName, is_public |-> FALSE]

\* Variant: a visitor's session holds the unset id of a signed field.
AnonymousUnset == [user_id |-> -1, role |-> kNone]

Session   == [user_id : Nat, role : Roles]
Anonymous == [user_id |-> 0, role |-> kNone]

ASSUME RequestsAssumption ==
  /\ NoName \notin RepoNames \cup GroupNames \cup Logins
  /\ Requests \subseteq Message
  /\ \A q \in Requests :
       /\ q.op \in Ops
       /\ q.op \in {"repoCreate", "repoUpdate"} => q.name \in RepoNames
       /\ q.op = "groupCreate" => q.name \in GroupNames
       /\ q.op = "userCreate" => q.name \in Logins
ASSUME FailuresAssumption == Failures \subseteq {"sql", "git", "crash"}

Labels == {"idle", "repo", "user", "grp", "role", "grpOwner", "act", "rm",
           "rowid", "init", "own", "undo", "getId", "getIdAgain", "grpUndo"}

TypeOK ==
  /\ DbTypeOK
  /\ pc \in [Threads -> Labels]
  /\ req \in [Threads -> Message]
  /\ session \in [Threads -> Session]
  /\ repoDirs \subseteq Nat

Init ==
  /\ DbInit
  /\ pc = [t \in Threads |-> "idle"]
  /\ req = [t \in Threads |-> NoRequest]
  /\ session = [t \in Threads |-> Anonymous]
  /\ repoDirs = {}

-----------------------------------------------------------------------------
(* Control of one handler. *)

Goto(t, label) ==
  /\ pc' = [pc EXCEPT ![t] = label]
  /\ UNCHANGED <<req, session>>

\* Goes on with field `id' of the message set, as SET_*_ID does.
GotoWith(t, label, message) ==
  /\ pc' = [pc EXCEPT ![t] = label]
  /\ req' = [req EXCEPT ![t] = message]
  /\ UNCHANGED session

Return(t) ==
  /\ pc' = [pc EXCEPT ![t] = "idle"]
  /\ req' = [req EXCEPT ![t] = NoRequest]
  /\ session' = [session EXCEPT ![t] = Anonymous]

\* One writing statement: it succeeds where the schema accepts it, unless the
\* storage fails (any step() result other than SQLITE_DONE).
Exec(accepted, statement, done, failed) ==
  \/ accepted /\ statement /\ done
  \/ (accepted => "sql" \in Failures) /\ UNCHANGED dbVars /\ failed

\* The first label of each handler, and the one after each macro.
First(op) ==
  IF op \in RepoOps THEN "repo" ELSE IF op \in GroupOps THEN "grp" ELSE "act"

Check(op)     == IF op \in RepoOps THEN "role" ELSE "grpOwner"
AfterGrp(op)  == IF op \in NamesUser THEN "user" ELSE Check(op)
AfterRepo(op) == IF op \in NamesGroup THEN "grp" ELSE AfterGrp(op)

-----------------------------------------------------------------------------
(* A request arrives: SessionHandler builds the Session, which is one      *)
(* select; AUTHENTICATE_USER copies it and never refuses.                  *)

Authenticate(login) ==
  IF \E u \in users : u.login = login
    THEN LET u == CHOOSE u \in users : u.login = login
         IN  [user_id |-> u.user_id, role |-> u.role_id]
    ELSE Anonymous

Begin(t) ==
  /\ pc[t] = "idle"
  /\ \E q \in Requests :
       /\ pc' = [pc EXCEPT ![t] = First(q.op)]
       /\ req' = [req EXCEPT ![t] = q]
       /\ session' = [session EXCEPT ![t] = Authenticate(q.as)]
  /\ UNCHANGED <<dbVars, repoDirs>>

\* SET_REPO_ID, SET_GRP_ID and SET_USER_ID: keep the id of the message, or
\* look the name up once; a name that is absent or unknown ends the request.
SetRepoId(t) ==
  /\ pc[t] = "repo"
  /\ \/ /\ req[t].repo_id # NoId
        /\ Goto(t, AfterRepo(req[t].op))
     \/ /\ req[t].repo_id = NoId
        /\ \E r \in repos :
             /\ r.name = req[t].repo
             /\ GotoWith(t, AfterRepo(req[t].op),
                         [req[t] EXCEPT !.repo_id = r.repo_id])
     \/ /\ req[t].repo_id = NoId
        /\ \A r \in repos : r.name # req[t].repo
        /\ Return(t)
  /\ UNCHANGED <<dbVars, repoDirs>>

SetGrpId(t) ==
  /\ pc[t] = "grp"
  /\ \/ /\ req[t].grp_id # NoId
        /\ Goto(t, AfterGrp(req[t].op))
     \/ /\ req[t].grp_id = NoId
        /\ \E g \in groups :
             /\ g.name = req[t].grp
             /\ GotoWith(t, AfterGrp(req[t].op),
                         [req[t] EXCEPT !.grp_id = g.group_id])
     \/ /\ req[t].grp_id = NoId
        /\ \A g \in groups : g.name # req[t].grp
        /\ Return(t)
  /\ UNCHANGED <<dbVars, repoDirs>>

SetUserId(t) ==
  /\ pc[t] = "user"
  /\ \/ /\ req[t].user_id # NoId
        /\ Goto(t, Check(req[t].op))
     \/ /\ req[t].user_id = NoId
        /\ \E u \in users :
             /\ u.login = req[t].user
             /\ GotoWith(t, Check(req[t].op),
                         [req[t] EXCEPT !.user_id = u.user_id])
     \/ /\ req[t].user_id = NoId
        /\ \A u \in users : u.login # req[t].user
        /\ Return(t)
  /\ UNCHANGED <<dbVars, repoDirs>>

\* Variant: a writer passes.
CheckRepoWriter(t) ==
  /\ pc[t] = "role"
  /\ IF HasRole(req[t].repo_id, session[t].user_id, kWriter)
       THEN Goto(t, "act") ELSE Return(t)
  /\ UNCHANGED <<dbVars, repoDirs>>

\* Variant: an administrator passes, as with groups.
CheckRepoRoleOrAdmin(t) ==
  /\ pc[t] = "role"
  /\ IF \/ session[t].role = kOwner
        \/ HasRole(req[t].repo_id, session[t].user_id, kOwner)
       THEN Goto(t, "act") ELSE Return(t)
  /\ UNCHANGED <<dbVars, repoDirs>>

\* CHECK_REPO_ROLE with kOwner, the role every changing handler asks for.
CheckRepoRole(t) ==
  /\ pc[t] = "role"
  /\ IF HasRole(req[t].repo_id, session[t].user_id, kOwner)
       THEN Goto(t, "act") ELSE Return(t)
  /\ UNCHANGED <<dbVars, repoDirs>>

\* Variant: the query does not ask for the role.
IsGroupMember(t) ==
  \/ session[t].role = kOwner
  \/ \E m \in groups_users :
       m.group_id = req[t].grp_id /\ m.user_id = session[t].user_id

\* isGroupOwner: an administrator's session passes without a query.
IsGroupOwner(t) ==
  \/ session[t].role = kOwner
  \/ \E m \in groups_users :
       /\ m.group_id = req[t].grp_id /\ m.user_id = session[t].user_id
       /\ m.role_id = kOwner

CheckGroupOwner(t) ==
  /\ pc[t] = "grpOwner"
  /\ IF IsGroupOwner(t) THEN Goto(t, "act") ELSE Return(t)
  /\ UNCHANGED <<dbVars, repoDirs>>

-----------------------------------------------------------------------------
(* The last statement of the handlers that need no more than one. *)

Acts(t, op) == pc[t] = "act" /\ req[t].op = op

\* One statement, and whatever it answers the handler is over.
Finish(t, accepted, statement) ==
  /\ Exec(accepted, statement, Return(t), Return(t))
  /\ UNCHANGED repoDirs

UserCreate(t) ==
  /\ Acts(t, "userCreate")
  /\ Finish(t, AcceptsUser(req[t].name), InsertUser(req[t].name))

RepoUpdate(t) ==
  /\ Acts(t, "repoUpdate")
  /\ Finish(t, AcceptsRepoUpdate(req[t].repo_id, req[t].name),
            UpdateRepo(req[t].repo_id, req[t].name, req[t].is_public))

\* Variant: the connection does not enforce the constraints of repos_users.
RepoAddUserUnchecked(t) ==
  /\ Acts(t, "repoAddUser")
  /\ Finish(t, TRUE, InsertRepoUser(req[t].repo_id, req[t].user_id, req[t].role))

RepoAddUser(t) ==
  /\ Acts(t, "repoAddUser")
  /\ Finish(t, AcceptsRepoUser(req[t].repo_id, req[t].user_id),
            InsertRepoUser(req[t].repo_id, req[t].user_id, req[t].role))

RepoRemoveUser(t) ==
  /\ Acts(t, "repoRemoveUser")
  /\ Finish(t, TRUE, DeleteRepoUser(req[t].repo_id, req[t].user_id))

RepoAddGroup(t) ==
  /\ Acts(t, "repoAddGroup")
  /\ Finish(t, AcceptsRepoGroup(req[t].repo_id, req[t].grp_id),
            InsertRepoGroup(req[t].repo_id, req[t].grp_id, req[t].role))

RepoRemoveGroup(t) ==
  /\ Acts(t, "repoRemoveGroup")
  /\ Finish(t, TRUE, DeleteRepoGroup(req[t].repo_id, req[t].grp_id))

GroupDelete(t) ==
  /\ Acts(t, "groupDelete")
  /\ Finish(t, TRUE, DeleteGroup(req[t].grp_id))

GroupAddUser(t) ==
  /\ Acts(t, "groupAddUser")
  /\ Finish(t, AcceptsGroupUser(req[t].grp_id, req[t].user_id),
            InsertGroupUser(req[t].grp_id, req[t].user_id, req[t].role))

GroupRemoveUser(t) ==
  /\ Acts(t, "groupRemoveUser")
  /\ Finish(t, TRUE, DeleteGroupUser(req[t].grp_id, req[t].user_id))

-----------------------------------------------------------------------------
(* repoDelete: Repositories::remove deletes the row, ignores whether that  *)
(* worked, and removes the directory.                                      *)

RepoDelete(t) ==
  /\ Acts(t, "repoDelete")
  /\ Exec(TRUE, DeleteRepo(req[t].repo_id), Goto(t, "rm"), Goto(t, "rm"))
  /\ UNCHANGED repoDirs

RemoveDir(t) ==
  /\ pc[t] = "rm"
  /\ repoDirs' = repoDirs \ {req[t].repo_id}
  /\ Return(t)
  /\ UNCHANGED dbVars

-----------------------------------------------------------------------------
(* repoCreate: Repositories::create inserts the row, asks the shared       *)
(* connection for the rowid, initialises the directory, inserts the owner, *)
(* and on a failure of the last two deletes the row by its name; the       *)
(* directory stays.                                                        *)

CreateRepoRow(t) ==
  /\ Acts(t, "repoCreate")
  /\ Exec(AcceptsRepo(req[t].name), InsertRepo(req[t].name, req[t].is_public),
          Goto(t, "rowid"), Return(t))
  /\ UNCHANGED repoDirs

ReadRowid(t) ==
  /\ pc[t] = "rowid"
  /\ GotoWith(t, "init", [req[t] EXCEPT !.repo_id = lastRowid])
  /\ UNCHANGED <<dbVars, repoDirs>>

\* git_repository_init accepts a directory that is already a repository.
InitDir(t) ==
  /\ pc[t] = "init"
  /\ \/ repoDirs' = repoDirs \cup {req[t].repo_id} /\ Goto(t, "own")
     \/ "git" \in Failures /\ UNCHANGED repoDirs /\ Goto(t, "undo")
  /\ UNCHANGED dbVars

SetRepoOwner(t) ==
  /\ pc[t] = "own" /\ req[t].op = "repoCreate"
  /\ Exec(AcceptsRepoUser(req[t].repo_id, session[t].user_id),
          InsertRepoUser(req[t].repo_id, session[t].user_id, kOwner),
          Return(t), Goto(t, "undo"))
  /\ UNCHANGED repoDirs

\* Variant: the failure is answered and the row forgotten.
ForgetRepoRow(t) ==
  /\ pc[t] = "undo"
  /\ Return(t)
  /\ UNCHANGED <<dbVars, repoDirs>>

UndoRepoRow(t) ==
  /\ pc[t] = "undo"
  /\ Finish(t, TRUE, DeleteRepoNamed(req[t].name))

-----------------------------------------------------------------------------
(* groupCreate: the row, its id looked up by name (twice), the owner, and  *)
(* the deletion of that id when there is no owner to set.                  *)

CreateGroupRow(t) ==
  /\ Acts(t, "groupCreate")
  /\ Exec(AcceptsGroup(req[t].name), InsertGroup(req[t].name),
          Goto(t, "getId"), Return(t))
  /\ UNCHANGED repoDirs

\* Variant: a group that is not found is looked for again.
GetGroupIdRetrying(t) ==
  /\ pc[t] \in {"getId", "getIdAgain"}
  /\ \/ \E g \in groups :
          /\ g.name = req[t].name
          /\ GotoWith(t, IF pc[t] = "getId" THEN "getIdAgain" ELSE "own",
                      [req[t] EXCEPT !.grp_id = g.group_id])
     \/ (\A g \in groups : g.name # req[t].name) /\ Goto(t, "getId")
  /\ UNCHANGED <<dbVars, repoDirs>>

GetGroupId(t) ==
  /\ pc[t] \in {"getId", "getIdAgain"}
  /\ \/ \E g \in groups :
          /\ g.name = req[t].name
          /\ GotoWith(t, IF pc[t] = "getId" THEN "getIdAgain" ELSE "own",
                      [req[t] EXCEPT !.grp_id = g.group_id])
     \/ (\A g \in groups : g.name # req[t].name) /\ Return(t)
  /\ UNCHANGED <<dbVars, repoDirs>>

SetGroupOwner(t) ==
  /\ pc[t] = "own" /\ req[t].op = "groupCreate"
  /\ Exec(AcceptsGroupUser(req[t].grp_id, session[t].user_id),
          InsertGroupUser(req[t].grp_id, session[t].user_id, kOwner),
          Return(t), Goto(t, "grpUndo"))
  /\ UNCHANGED repoDirs

\* Variant: the failure is answered and the row forgotten.
ForgetGroupRow(t) ==
  /\ pc[t] = "grpUndo"
  /\ Return(t)
  /\ UNCHANGED <<dbVars, repoDirs>>

UndoGroupRow(t) ==
  /\ pc[t] = "grpUndo"
  /\ Finish(t, TRUE, DeleteGroup(req[t].grp_id))

-----------------------------------------------------------------------------
(* Outside the handlers. *)

\* scissy-set-admin, a process of its own with its own connection.
MakeAdmin ==
  /\ \E login \in Logins : SetAdmin(login)
  /\ UNCHANGED <<pc, req, session, repoDirs>>

\* The process dies and is started again: handlers are lost, files and
\* committed statements stay, the new connection has inserted nothing.
Restart ==
  /\ "crash" \in Failures
  /\ Reconnect
  /\ pc' = [t \in Threads |-> "idle"]
  /\ req' = [t \in Threads |-> NoRequest]
  /\ session' = [t \in Threads |-> Anonymous]
  /\ UNCHANGED repoDirs

RepoStep(t) ==
  \/ RepoUpdate(t) \/ RepoAddUser(t) \/ RepoRemoveUser(t)
  \/ RepoAddGroup(t) \/ RepoRemoveGroup(t) \/ RepoDelete(t) \/ RemoveDir(t)
  \/ CreateRepoRow(t) \/ ReadRowid(t) \/ InitDir(t) \/ SetRepoOwner(t)
  \/ UndoRepoRow(t)

GroupStep(t) ==
  \/ GroupDelete(t) \/ GroupAddUser(t) \/ GroupRemoveUser(t)
  \/ CreateGroupRow(t) \/ GetGroupId(t) \/ SetGroupOwner(t) \/ UndoGroupRow(t)

CheckStep(t) ==
  \/ SetRepoId(t) \/ SetGrpId(t) \/ SetUserId(t)
  \/ CheckRepoRole(t) \/ CheckGroupOwner(t)

Step(t) == CheckStep(t) \/ RepoStep(t) \/ GroupStep(t) \/ UserCreate(t)

Next == (\E t \in Threads : Begin(t) \/ Step(t)) \/ MakeAdmin \/ Restart

Spec == Init /\ [][Next]_vars
=============================================================================
