---------------------------- MODULE ServiceAudit ----------------------------
(***************************************************************************)
(* Module Service with history variables that no handler reads: what the   *)
(* caller of each running handler owned at any moment since its request    *)
(* arrived, and which groups ever had an owner.  They state what the       *)
(* checks of the handlers, made some statements before the change they     *)
(* allow, still guarantee at the change.  Two more note the accidents that *)
(* repoCreate does not survive.                                            *)
(***************************************************************************)
EXTENDS ServiceProps

VARIABLES
  held,      \* per thread, [repos, groups]: ids its caller owned meanwhile
  everOwned, \* ids of the groups that ever had an owner
  mixedUp,   \* whether a repoCreate ever took the rowid of another row for its own
  cutShort   \* whether a restart ever cut a repoCreate short

auditVars == <<vars, held, everOwned, mixedUp, cutShort>>

\* Ownership as the tables grant it, apart from the query of the code.
OwnsRepo(user_id, repo_id) ==
  \/ \E m \in repos_users :
       m.repo_id = repo_id /\ m.user_id = user_id /\ m.role_id = kOwner
  \/ \E p \in repos_groups, m \in groups_users :
       /\ p.repo_id = repo_id /\ p.role_id = kOwner
       /\ m.group_id = p.group_id /\ m.user_id = user_id /\ m.role_id = kOwner

OwnsGroup(user_id, grp_id) ==
  \E m \in groups_users :
    m.group_id = grp_id /\ m.user_id = user_id /\ m.role_id = kOwner

IsAdmin(user_id) == \E u \in users : u.user_id = user_id /\ u.role_id = kOwner

Holds(t) ==
  LET u == session[t].user_id IN
  [repos  |-> {r \in RepoIds : OwnsRepo(u, r)},
   groups |-> {g \in GroupIds : OwnsGroup(u, g) \/ IsAdmin(u)}]

Nothing == [repos |-> {}, groups |-> {}]

\* The connection answers with the rowid of something else than the new row.
MixesUp(t) ==
  /\ pc[t] = "rowid" /\ pc'[t] = "init"
  /\ \A r \in repos : r.name = req[t].name => r.repo_id # lastRowid

Interrupts == Restart /\ \E t \in Threads : Creating(t)

Record ==
  /\ mixedUp' = (mixedUp \/ \E t \in Threads : MixesUp(t))
  /\ cutShort' = (cutShort \/ Interrupts)
  /\ held' = [t \in Threads |->
       IF pc'[t] = "idle" THEN Nothing
       ELSE [repos  |-> held[t].repos \cup Holds(t)'.repos,
             groups |-> held[t].groups \cup Holds(t)'.groups]]
  /\ everOwned' = everOwned \cup {m.group_id : m \in {o \in groups_users' : o.role_id = kOwner}}

AuditInit ==
  /\ Init
  /\ held = [t \in Threads |-> Nothing] /\ everOwned = {}
  /\ mixedUp = FALSE /\ cutShort = FALSE

AuditSpec == AuditInit /\ [][Next /\ Record]_auditVars

-----------------------------------------------------------------------------
(* The rows that belong to a repository or a group. *)

RepoRows(r) == {x \in repos : x.repo_id = r}
RepoUserRows(r) == {m \in repos_users : m.repo_id = r}
RepoGroupRows(r) == {m \in repos_groups : m.repo_id = r}
GroupUserRows(g) == {m \in groups_users : m.group_id = g}

RepoChanges(r) ==
  \/ RepoRows(r)' # RepoRows(r)
  \/ RepoUserRows(r)' # RepoUserRows(r)
  \/ RepoGroupRows(r)' # {m \in RepoGroupRows(r) : m.group_id \in GroupIds'}

GroupChanges(g) == g \notin GroupIds' \/ GroupUserRows(g)' # GroupUserRows(g)

ActsFor(t, op) == pc'[t] # pc[t] /\ req[t].op = op
CreatesRepo(t, r) == \A x \in RepoRows(r) : x.name = req[t].name
CreatesGroup(t, g) == \A x \in groups : x.group_id = g => x.name = req[t].name

Memberless(r) == \A m \in repos_users \cup repos_groups : m.repo_id # r

\* The owner that a repoCreate with the wrong rowid sets (repositories.cc:72).
IntrudesOn(t, r) ==
  /\ RepoRows(r)' = RepoRows(r)
  /\ RepoGroupRows(r)' = RepoGroupRows(r)
  /\ RepoUserRows(r)' = RepoUserRows(r) \cup
       {[repo_id |-> r, user_id |-> session[t].user_id, role_id |-> kOwner]}

(***************************************************************************)
(* A repository is renamed, published, shared or deleted, and a group is   *)
(* deleted or gains or loses a member, only by a handler whose caller was  *)
(* an owner of that same repository, an owner of that same group or an     *)
(* administrator at some moment of the call.  Only the handlers that       *)
(* create act without: groupCreate on a group of the name it was given,    *)
(* repoCreate on the repository of its name as long as that has no member, *)
(* each to set the owner or to take it back.  What could go wrong: ids     *)
(* resolved by name, then checked, then used, by statements between which  *)
(* others rename, delete and create.                                       *)
(*                                                                         *)
(* The code keeps this of repoCreate only as long as no rowid was mixed up *)
(* (repositories.cc:54).  After that a repoCreate may make its caller an   *)
(* owner of another's repository, which has owners (repositories.cc:72),   *)
(* and one that fails may delete the repository of its name though it has  *)
(* an owner by then (repositories.cc:74).  Both are excepted by `mixedUp', *)
(* and nothing else is.                                                    *)
(***************************************************************************)
AuthorisedStep ==
  /\ \A r \in RepoIds : RepoChanges(r) =>
       \E t \in Threads :
         \/ pc'[t] # pc[t] /\ r \in held[t].repos
         \/ ActsFor(t, "repoCreate") /\ CreatesRepo(t, r) /\ Memberless(r)
         \/ ActsFor(t, "repoCreate") /\ mixedUp /\ (CreatesRepo(t, r) \/ IntrudesOn(t, r))
  /\ \A g \in GroupIds : GroupChanges(g) =>
       \E t \in Threads :
         \/ pc'[t] # pc[t] /\ g \in held[t].groups
         \/ ActsFor(t, "groupCreate") /\ CreatesGroup(t, g)

AuthorisedChanges == [][AuthorisedStep]_auditVars

(***************************************************************************)
(* groupCreate inserts the group, finds its id by name and sets the owner  *)
(* in separate statements, and undoes the first when the last fails.  Even *)
(* if others delete and create groups of that name meanwhile, no group     *)
(* stays behind that never had an owner (service.cc:486-509).              *)
(***************************************************************************)
NoOwnerlessGroup ==
  (\A t \in Threads : req[t].op # "groupCreate") => GroupIds \subseteq everOwned

(***************************************************************************)
(* doc/doc.rst:75: "~/repos/${repo_id}/ stores the bare git repository".   *)
(* Each repository has its directory, except the one a repoCreate is still *)
(* making or taking back, unless ever a rowid was mixed up or the process  *)
(* died in a repoCreate (repositories.cc:34-89): failures of git, undoing  *)
(* by name, deletions by an id resolved long before, renames and handlers  *)
(* that meet the half-made repository do no harm.                          *)
(***************************************************************************)
UndisturbedDirs ==
  ~ mixedUp /\ ~ cutShort =>
    \A r \in repos :
      \/ r.repo_id \in repoDirs
      \/ \E t \in Threads : Creating(t) /\ r.name = req[t].name

(***************************************************************************)
(* The clean-up of repoCreate deletes by name, statements after the row    *)
(* was inserted (repositories.cc:74).  It takes back that row and no       *)
(* other's work: unless ever a rowid was mixed up, the repository is there *)
(* under its name until the call ends and nobody is a member of it, for    *)
(* others find its name and id at once, but no check lets them pass - nor  *)
(* an administrator, whom the checks of groups let pass.                   *)
(***************************************************************************)
CreationIsAlone ==
  ~ mixedUp =>
    \A t \in Threads : Creating(t) /\ req[t].op = "repoCreate" =>
      \E r \in repos :
        r.name = req[t].name /\ Memberless(r.repo_id)
=============================================================================
