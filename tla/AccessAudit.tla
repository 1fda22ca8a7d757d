---------------------------- MODULE AccessAudit ----------------------------
(***************************************************************************)
(* Module Access with the history that judges its verdicts: the            *)
(* repositories the caller was entitled to while the call was decided.     *)
(***************************************************************************)
EXTENDS Access

VARIABLES
  sometimes,  \* ids the caller was entitled to at some moment of the call
  always      \* ids it was entitled to at every moment of the call so far

auditVars == <<accessVars, sometimes, always>>

\* At least `role' on a repository, as the membership tables grant it.
Granted(user_id, repo_id, role) ==
  \/ \E m \in repos_users :
       m.repo_id = repo_id /\ m.user_id = user_id /\ m.role_id >= role
  \/ \E p \in repos_groups, m \in groups_users :
       /\ p.repo_id = repo_id /\ m.group_id = p.group_id /\ m.user_id = user_id
       /\ p.role_id >= role /\ m.role_id >= role

Entitled(repo_id) ==
  CASE call.kind = "ssh write" ->
         IsAdmin(call.user_id) \/ Granted(call.user_id, repo_id, kWriter)
    [] call.kind = "ssh read" ->
         \/ IsAdmin(call.user_id) \/ IsPublic(repo_id)
         \/ Granted(call.user_id, repo_id, kReader)
    [] OTHER -> IsPublic(repo_id) \/ Granted(call.user_id, repo_id, kReader)

EntitledIds == {r \in RepoIds : Entitled(r)}

Record ==
  LET now == EntitledIds' IN
  IF step = "idle" /\ step' # "idle"
    THEN sometimes' = now /\ always' = now
    ELSE IF step = "idle" THEN UNCHANGED <<sometimes, always>>
    ELSE sometimes' = sometimes \cup now /\ always' = always \cap now

AuditInit == AccessInit /\ sometimes = {} /\ always = {}
AuditSpec == AuditInit /\ [][AccessNext /\ Record]_auditVars

-----------------------------------------------------------------------------
(***************************************************************************)
(* The statements of one decision see the database at different moments;   *)
(* still, a page or a git command that is granted was one the caller was   *)
(* entitled to, on the very repository it reaches, at some moment of the   *)
(* call, or one deleted meanwhile, whose id no other repository gets: no   *)
(* mixture of moments grants what no moment allowed                        *)
(* (service.cc:1282-1292, shell.cc:109-121, service.cc:113-130).           *)
(* It is not so of tarballs: to a caller with a session access.cc:20-24    *)
(* grants those of a private repository if and only if it finds no role of *)
(* that user, kNone >= kNone.  So they are left out here, and are what     *)
(* ArchivesForReaders is about.                                            *)
(***************************************************************************)
GrantJustified ==
  (verdict = "granted" /\ call.kind # "archive") =>
    call.repo_id \in sometimes \/ call.repo_id \notin RepoIds

(***************************************************************************)
(* A visitor without a session gets a tarball only of a repository that    *)
(* was public at some moment of the call, and is never refused one that    *)
(* was public throughout (access.cc:10-18).  Nothing like it holds of      *)
(* callers with a session.                                                 *)
(***************************************************************************)
VisitorArchives ==
  (call.kind = "archive" /\ call.user_id = 0) =>
    /\ verdict = "granted" => call.repo_id \in sometimes
    /\ verdict = "refused" => call.repo_id \notin always

(***************************************************************************)
(* doc/doc.rst:25, 27: "download a tarball of a revision" is one of the    *)
(* ways to browse a repository, which has an ACL, and the handler asks for *)
(* kReader (archive-handler.cc:41).  So a tarball is granted to those who  *)
(* may read the repository at some moment of the call, and refused to none *)
(* who may throughout.  The code breaks both halves.                       *)
(***************************************************************************)
ArchivesForReaders ==
  call.kind = "archive" =>
    /\ verdict = "granted" => call.repo_id \in sometimes \/ call.repo_id \notin RepoIds
    /\ verdict = "refused" => call.repo_id \notin always
=============================================================================
