------------------------------ MODULE Listings ------------------------------
(***************************************************************************)
(* The pages of service.cc that show rows of the database: reposList,      *)
(* repoGetInfo, repoListMembers, groupsList, groupGetInfo and              *)
(* groupListMembers, after their access check (module Access).             *)
(*                                                                         *)
(* The shared connection has no read transaction: a page is made of the    *)
(* moments at which its statements, or the steps of one statement, read.   *)
(* A query that sorts or groups gives all its rows at its first step; one  *)
(* that follows an index (reposList that of repos.name, groupListMembers   *)
(* that of the group's members) reads one row per step, as it is then.     *)
(* One action is one such step.                                            *)
(*                                                                         *)
(* Left out: descriptions, and the time of the last commit, for which      *)
(* reposList opens the repository between two rows.                        *)
(***************************************************************************)
EXTENDS Database, SequencesExt

CONSTANTS
  EmptyName,   \* the value of a name that a message does not set
  GrantRoles,  \* bound: the roles others give meanwhile
  Requests     \* the messages

VARIABLES
  at,       \* next step of the page
  req,      \* [op, id, name]
  cursor,   \* the key of the row the scan read last
  rows,     \* the rows of the tables that were read so far
  status,
  existed,  \* history: the rows to list that were there at some moment
  lasted    \* history: and those that were there at every moment so far

pageVars    == <<at, req, cursor, rows, status>>
listingVars == <<dbVars, pageVars, existed, lasted>>

Ops == {"reposList", "repoGetInfo", "repoListMembers",
        "groupsList", "groupGetInfo", "groupListMembers"}

\* A group is selected by id or by name; the other field is 0 or EmptyName.
Message == [op : Ops, id : Nat, name : GroupNames \cup {EmptyName}]

ASSUME OrderAssumption == RepoNames \subseteq Nat \ {0}
\* No row has an id above the largest rowid.
ASSUME UsersFitAssumption == Cardinality(InitialUsers) <= MaxId.users
ASSUME GrantRolesAssumption == GrantRoles \subseteq Roles
ASSUME ListingRequestsAssumption == Requests \subseteq Message

GroupRow == [group_id : Nat, name : GroupNames \cup {EmptyName}, size : Nat]

ListingsTypeOK ==
  /\ DbTypeOK
  /\ at \in {"idle", "scan", "info", "groups", "users"}
  /\ req \in Requests
  /\ cursor \in Nat
  /\ rows \in Seq(Repo \cup RepoUser \cup RepoGroup \cup GroupUser \cup GroupRow)
  /\ status \in {"none", "kSucceed", "kNotFound"}

ListingsInit ==
  /\ DbInit
  /\ at = "idle"
  /\ req \in Requests
  /\ cursor = 0 /\ rows = <<>> /\ status = "none"
  /\ existed = {} /\ lasted = {}

-----------------------------------------------------------------------------
\* Pages of one kind, one after the other: which one is chosen at the start.
Begin ==
  /\ at = "idle"
  /\ at' = CASE req.op \in {"reposList", "groupListMembers"} -> "scan"
             [] req.op = "repoListMembers" -> "groups"
             [] OTHER -> "info"
  /\ rows' = <<>> /\ status' = "none"
  /\ UNCHANGED <<req, cursor, dbVars>>

Answer(list, result) ==
  /\ at' = "idle" /\ cursor' = 0
  /\ rows' = list /\ status' = result
  /\ UNCHANGED <<req, dbVars>>

Fetch(key, row) ==
  /\ cursor' = key /\ rows' = Append(rows, row)
  /\ UNCHANGED <<at, req, status, dbVars>>

\* The smallest key after the row read last, as the index is now.
NextKey(keys) == {k \in keys : k > cursor /\ \A j \in keys : j > cursor => k <= j}

\* Variant: the rows are counted off, as with limit and offset.
ReposListByCount ==
  /\ at = "scan" /\ req.op = "reposList"
  /\ \/ \E x \in repos :
          /\ Cardinality({y \in repos : y.name < x.name}) = Len(rows)
          /\ Fetch(x.name, x)
     \/ Len(rows) >= Cardinality(repos) /\ Answer(rows, "kSucceed")

\* Variant: the scan follows the ids.
ReposListById ==
  LET keys == NextKey(RepoIds) IN
  /\ at = "scan" /\ req.op = "reposList"
  /\ \/ \E x \in repos : x.repo_id \in keys /\ Fetch(x.repo_id, x)
     \/ keys = {} /\ Answer(rows, "kSucceed")

ReposList ==
  LET keys == NextKey({x.name : x \in repos}) IN
  /\ at = "scan" /\ req.op = "reposList"
  /\ \/ \E x \in repos : x.name \in keys /\ Fetch(x.name, x)
     \/ keys = {} /\ Answer(rows, "kSucceed")

\* Variant: whether there is a row is not looked at.
RepoGetInfoUnset ==
  /\ at = "info" /\ req.op = "repoGetInfo"
  /\ \/ \E r \in repos : r.repo_id = req.id /\ Answer(<<r>>, "kSucceed")
     \/ /\ req.id \notin RepoIds
        /\ Answer(<<[repo_id |-> req.id, name |-> 0, is_public |-> FALSE]>>, "kSucceed")

RepoGetInfo ==
  /\ at = "info" /\ req.op = "repoGetInfo"
  /\ \/ \E r \in repos : r.repo_id = req.id /\ Answer(<<r>>, "kSucceed")
     \/ req.id \notin RepoIds /\ Answer(<<>>, "kNotFound")

\* repoListMembers: two statements.
ListRepoGroups ==
  /\ at = "groups"
  /\ rows' = SetToSeq({m \in repos_groups : m.repo_id = req.id})
  /\ at' = "users"
  /\ UNCHANGED <<req, cursor, status, dbVars>>

ListRepoUsers ==
  /\ at = "users"
  /\ Answer(rows \o SetToSeq({m \in repos_users : m.repo_id = req.id}), "kSucceed")

-----------------------------------------------------------------------------
(* Groups: "where group_id = ? or name = ?", with both fields bound.       *)

Members(g) == {m \in groups_users : m.group_id = g.group_id}

AsRow(g, size) == [group_id |-> g.group_id, name |-> g.name, size |-> size]

GroupsList ==
  /\ at = "info" /\ req.op = "groupsList"
  /\ Answer(SetToSeq({AsRow(g, Cardinality(Members(g))) : g \in groups}), "kSucceed")

Selected == {g \in groups : g.group_id = req.id \/ g.name = req.name}

\* Variant: the tables are joined without a condition.
SelectedMembersOfAny == {m \in groups_users : Selected # {}}

\* Every member of every group that is selected, whichever group it is of.
SelectedMembers == UNION {Members(g) : g \in Selected}

\* count(*) without GROUP BY always gives a row: that of no group is empty.
NoGroup == [group_id |-> 0, name |-> EmptyName, size |-> 0]

GroupGetInfo ==
  /\ at = "info" /\ req.op = "groupGetInfo"
  /\ \/ \E g \in Selected :
          /\ Members(g) # {}
          /\ Answer(<<AsRow(g, Cardinality(SelectedMembers))>>, "kSucceed")
     \/ SelectedMembers = {} /\ Answer(<<NoGroup>>, "kSucceed")

\* The group of the id comes first, then that of the name, by user_id each.
ScanKey(m) == IF m.group_id = req.id THEN m.user_id ELSE MaxId.users + m.user_id

GroupListMembers ==
  LET keys == NextKey({ScanKey(m) : m \in SelectedMembers}) IN
  /\ at = "scan" /\ req.op = "groupListMembers"
  /\ \/ \E m \in SelectedMembers : ScanKey(m) \in keys /\ Fetch(ScanKey(m), m)
     \/ keys = {} /\ Answer(rows, "kSucceed")

PageStep ==
  \/ Begin \/ ReposList \/ RepoGetInfo \/ ListRepoGroups \/ ListRepoUsers
  \/ GroupsList \/ GroupGetInfo \/ GroupListMembers

-----------------------------------------------------------------------------
\* Statements of others, of those that the page can tell apart, before the first
\* page and while one is made (bound: none between an answer and the next page).
Others ==
  /\ status = "none"
  /\ DbNext
  /\ users' = users
  /\ UNCHANGED pageVars
  /\ \A m \in groups_users' \cup repos_users' \cup repos_groups' : m.role_id \in GrantRoles
  /\ CASE req.op \in {"reposList", "repoGetInfo"} ->
            <<groups, groups_users, repos_users, repos_groups>>' =
            <<groups, groups_users, repos_users, repos_groups>>
       [] req.op = "repoListMembers" ->
            /\ groups_users' = groups_users
            /\ \A m \in repos_groups' : m.repo_id = req.id
            /\ \A r \in repos' : r.name = r.repo_id /\ ~ r.is_public
       [] OTHER -> <<repos, repos_users, repos_groups>>' = <<repos, repos_users, repos_groups>>

\* The rows that answer the request now, a repository without its other columns.
Answers ==
  CASE req.op = "reposList" -> {<<r.repo_id, r.name>> : r \in repos}
    [] req.op = "repoListMembers" ->
         {m \in repos_groups \cup repos_users : m.repo_id = req.id}
    [] req.op = "groupListMembers" ->
         {m \in groups_users : \E g \in groups :
            /\ m.group_id = g.group_id
            /\ g.group_id = req.id \/ g.name = req.name}
    [] OTHER -> {}

Record ==
  IF at = "idle" /\ at' = "idle" THEN UNCHANGED <<existed, lasted>>
  ELSE IF at = "idle" THEN existed' = Answers /\ lasted' = Answers
  ELSE existed' = existed \cup Answers' /\ lasted' = lasted \cap Answers'

ListingsNext == (PageStep \/ Others) /\ Record
ListingsSpec == ListingsInit /\ [][ListingsNext]_listingVars

-----------------------------------------------------------------------------
\* What the answer says of a row: a MemberList has users and groups with their
\* roles, but not through which of the selected groups a user is a member.
Member(m) ==
  IF "user_id" \in DOMAIN m
    THEN [list |-> "users", id |-> m.user_id, role |-> m.role_id]
    ELSE [list |-> "groups", id |-> m.group_id, role |-> m.role_id]

MemberList == [k \in DOMAIN rows |-> Member(rows[k])]

-----------------------------------------------------------------------------
Shown(op) == status = "kSucceed" /\ req.op = op
Listed == {rows[k] : k \in DOMAIN rows}
SameMember(a, b) == a.list = b.list /\ a.id = b.id

(***************************************************************************)
(* Renames, insertions and deletions during the scan of reposList neither  *)
(* hide nor repeat another repository: one that keeps its name throughout  *)
(* is listed, and nothing that never existed under its name meanwhile      *)
(* (service.cc:838-842).                                                   *)
(***************************************************************************)
ReposListed ==
  Shown("reposList") =>
    LET names == {<<r.repo_id, r.name>> : r \in Listed} IN
    lasted \subseteq names /\ names \subseteq existed

(***************************************************************************)
(* The repositories are listed in the order of their names, each name once,*)
(* although the rows are read at different moments (service.cc:839).       *)
(***************************************************************************)
ReposInOrder ==
  req.op = "reposList" =>
    \A k \in 1 .. Len(rows), l \in 1 .. Len(rows) : k < l => rows[k].name < rows[l].name

(***************************************************************************)
(* A page of members shows the members of what was asked for, none who was *)
(* not one meanwhile, and each who was one throughout (service.cc:664-672, *)
(* 897-924).  What was asked for by id includes the group whose name is    *)
(* empty, if there is one.  Nobody is shown twice, with one exception: the *)
(* answer of groupListMembers names no group, and lists who is a member of *)
(* the group of the id and of one of the name once for each of the two, in *)
(* this order.  Nobody is listed three times, though the group of the name *)
(* may be replaced during the scan.                                        *)
(***************************************************************************)
MembersListed ==
  (Shown("repoListMembers") \/ Shown("groupListMembers")) =>
    /\ lasted \subseteq Listed /\ Listed \subseteq existed
    /\ \A k, l \in DOMAIN MemberList :
         k < l /\ SameMember(MemberList[k], MemberList[l]) =>
           /\ req.op = "groupListMembers"
           /\ rows[k].group_id = req.id /\ rows[l].group_id # req.id
=============================================================================
