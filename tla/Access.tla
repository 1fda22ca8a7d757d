------------------------------- MODULE Access -------------------------------
(***************************************************************************)
(* The decisions that let a caller read or write one repository, while     *)
(* other handlers execute statements of the database between theirs:       *)
(*   - a page of the web interface (CHECK_PUBLIC_REPO of service.cc);      *)
(*   - a tarball (archive-handler.cc and access.cc);                       *)
(*   - git over ssh (shell.cc asks shellControl of service.cc over RPC).   *)
(* One call is followed at a time: calls only read, so they do not act on  *)
(* each other.                                                             *)
(***************************************************************************)
EXTENDS Database

VARIABLES
  step,     \* next statement of the call, "idle" once it is decided
  call,     \* [kind, user_id, repo, repo_id]
  status,   \* the ShellStatus being filled in
  verdict   \* of the last call: "none", "granted" or "refused"

callVars == <<step, call, status, verdict>>
accessVars == <<dbVars, callVars>>

\* Actions of shell.cc: reading is git-upload-pack and git-upload-archive.
SshKinds == {"ssh read", "ssh write"}
Kinds    == SshKinds \cup {"view", "archive"}

ASSUME RepoNamesAssumption == RepoNames # {}

AnyName == CHOOSE n \in RepoNames : TRUE   \* where the name is not looked at

NoStatus == [is_admin |-> FALSE, role |-> kNone, is_public |-> FALSE]

CallType == [kind : Kinds, user_id : Nat, repo : RepoNames, repo_id : Nat]
StatusType == [is_admin : BOOLEAN, role : Roles, is_public : BOOLEAN]

AccessTypeOK ==
  /\ DbTypeOK
  /\ step \in {"idle", "id", "admin", "role", "public", "acl", "member"}
  /\ call \in CallType
  /\ status \in StatusType
  /\ verdict \in {"none", "granted", "refused"}

AccessInit ==
  /\ DbInit
  /\ step = "idle"
  /\ call = [kind |-> "view", user_id |-> 0, repo |-> AnyName, repo_id |-> 0]
  /\ status = NoStatus
  /\ verdict = "none"

-----------------------------------------------------------------------------
Goto(label) == step' = label /\ UNCHANGED <<call, status, verdict, dbVars>>

Decide(granted) ==
  /\ step' = "idle"
  /\ verdict' = IF granted THEN "granted" ELSE "refused"
  /\ status' = NoStatus
  /\ UNCHANGED <<call, dbVars>>

IsAdmin(user_id) == \E u \in users : u.user_id = user_id /\ u.role_id = kOwner
IsPublic(repo_id) == \E r \in repos : r.repo_id = repo_id /\ r.is_public

\* A call starts.  The archive URL holds an id, git a name, a page either.
Call ==
  /\ step = "idle"
  /\ \E kind \in Kinds, user_id \in UserIds \cup {0}, repo \in RepoNames,
        repo_id \in 0 .. MaxId.repos :
       /\ kind = "archive" => repo_id # 0
       /\ kind \in SshKinds => repo_id = 0 /\ user_id # 0
       /\ repo_id # 0 => repo = AnyName
       /\ call' = [kind |-> kind, user_id |-> user_id, repo |-> repo, repo_id |-> repo_id]
       /\ step' = IF repo_id # 0 THEN "public" ELSE "id"
  /\ verdict' = "none"
  /\ UNCHANGED <<status, dbVars>>

\* Db::repoGetId, in SET_REPO_ID and in shellControl.
GetRepoId ==
  /\ step = "id"
  /\ \/ \E r \in repos :
          /\ r.name = call.repo
          /\ call' = [call EXCEPT !.repo_id = r.repo_id]
          /\ step' = IF call.kind = "view" THEN "public" ELSE "admin"
          /\ UNCHANGED <<status, verdict, dbVars>>
     \/ (\A r \in repos : r.name # call.repo) /\ Decide(FALSE)

-----------------------------------------------------------------------------
(* shellControl: three more selects, each with a default when it finds no  *)
(* row; then checkAcl decides in the process of scissy-shell.              *)

ShellAdmin ==
  /\ step = "admin"
  /\ status' = [status EXCEPT !.is_admin = IsAdmin(call.user_id)]
  /\ step' = "role"
  /\ UNCHANGED <<call, verdict, dbVars>>

\* Variant: without a row the role stays unset.
ShellRoleUnset ==
  /\ step = "role"
  /\ status' = [status EXCEPT !.role =
       IF HasRole(call.repo_id, call.user_id, kReader) THEN kReader ELSE -1]
  /\ step' = "public"
  /\ UNCHANGED <<call, verdict, dbVars>>

ShellRole ==
  /\ step = "role"
  /\ \E role \in Roles :
       /\ HasRole(call.repo_id, call.user_id, role)
       /\ \A more \in Roles : HasRole(call.repo_id, call.user_id, more) => more <= role
       /\ status' = [status EXCEPT !.role = role]
  /\ step' = "public"
  /\ UNCHANGED <<call, verdict, dbVars>>

ShellPublic ==
  /\ step = "public" /\ call.kind \in SshKinds
  /\ status' = [status EXCEPT !.is_public = IsPublic(call.repo_id)]
  /\ step' = "acl"
  /\ UNCHANGED <<call, verdict, dbVars>>

\* Variant: a public repository passes before the action is looked at.
CheckAclPublicFirst ==
  /\ step = "acl"
  /\ Decide(\/ status.is_admin \/ status.is_public
            \/ call.kind = "ssh read" /\ status.role = kReader
            \/ status.role \in {kWriter, kOwner})

CheckAcl ==
  /\ step = "acl"
  /\ Decide(\/ status.is_admin
            \/ call.kind = "ssh read" /\ (status.is_public \/ status.role = kReader)
            \/ status.role \in {kWriter, kOwner})

-----------------------------------------------------------------------------
(* CHECK_PUBLIC_REPO. *)

ViewPublic ==
  /\ step = "public" /\ call.kind = "view"
  /\ \/ call.repo_id \notin RepoIds /\ Decide(FALSE)
     \/ IsPublic(call.repo_id) /\ Decide(TRUE)
     \/ call.repo_id \in RepoIds /\ ~ IsPublic(call.repo_id) /\ Goto("member")

ViewRole ==
  /\ step = "member" /\ call.kind = "view"
  /\ Decide(HasRole(call.repo_id, call.user_id, kReader))

-----------------------------------------------------------------------------
(* accessCheckRepo: the query for the caller's role is given the address   *)
(* of the parameter `role', the role that is required; user_role stays     *)
(* kNone, and what is compared with kNone is the role found.               *)

\* Variant: the test for a visitor is missing.
ArchivePublicAnyone ==
  /\ step = "public" /\ call.kind = "archive"
  /\ \/ call.repo_id \notin RepoIds /\ Decide(FALSE)
     \/ IsPublic(call.repo_id) /\ Decide(TRUE)
     \/ call.repo_id \in RepoIds /\ ~ IsPublic(call.repo_id) /\ Goto("member")

ArchivePublic ==
  /\ step = "public" /\ call.kind = "archive"
  /\ \/ call.repo_id \notin RepoIds /\ Decide(FALSE)
     \/ IsPublic(call.repo_id) /\ Decide(TRUE)
     \/ /\ call.repo_id \in RepoIds /\ ~ IsPublic(call.repo_id)
        /\ IF call.user_id < 1 THEN Decide(FALSE) ELSE Goto("member")

ArchiveRole ==
  /\ step = "member" /\ call.kind = "archive"
  /\ Decide(~ HasRole(call.repo_id, call.user_id, kReader))

-----------------------------------------------------------------------------
CallStep == Call \/ GetRepoId \/ ShellAdmin \/ ShellRole \/ ShellPublic \/ CheckAcl
            \/ ViewPublic \/ ViewRole \/ ArchivePublic \/ ArchiveRole

Others == DbNext /\ UNCHANGED callVars

AccessNext == CallStep \/ Others
=============================================================================
