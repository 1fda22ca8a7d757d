---------------------------- MODULE AccessProofs ----------------------------
(***************************************************************************)
(* A decision takes up to four statements, and any statements of others    *)
(* may lie between them.  What carries the proof is that whatever a call   *)
(* has seen in favour of its caller is justified: the caller was entitled  *)
(* to the repository when it was seen, or the id was already gone, and     *)
(* both stay true, the second because ids are never given twice.           *)
(***************************************************************************)
EXTENDS AccessAudit, DatabaseProofs

Justified == call.repo_id \in sometimes \/ call.repo_id \in Gone

\* Which call may be where, and what it has not looked at yet.
Flow ==
  /\ step # "idle" => verdict = "none"
  /\ step \in {"idle", "id"} => status = NoStatus
  /\ step = "id" => call.kind # "archive"
  /\ step \in {"admin", "role", "acl"} => call.kind \in SshKinds
  /\ step \in {"admin", "role", "public", "acl"} /\ call.kind \in SshKinds =>
       call.repo_id \in Given
  /\ step = "member" /\ call.kind = "archive" => call.user_id # 0

\* What scissy-shell has been told so far in favour of the caller.
SeenIsJustified ==
  (step # "idle" /\ call.kind \in SshKinds) =>
    /\ status.is_admin => Justified
    /\ call.kind = "ssh read" /\ status.is_public => Justified
    /\ call.kind = "ssh read" /\ status.role >= kReader => Justified
    /\ status.role >= kWriter => Justified

VerdictIsJustified ==
  (verdict = "granted" /\ call.kind # "archive") => Justified

AInv == Inv /\ AccessTypeOK /\ Flow /\ SeenIsJustified /\ VerdictIsJustified /\ VisitorArchives

-----------------------------------------------------------------------------
(* The database below the calls, and the history beside them. *)

LEMMA AccessDb ==
  ASSUME AccessNext
  PROVE  [DbNext]_dbVars
  BY DEF AccessNext, CallStep, Call, GetRepoId, ShellAdmin, ShellRole, ShellPublic, CheckAcl,
     ViewPublic, ViewRole, ArchivePublic, ArchiveRole, Decide, Goto, Others

LEMMA CallStepQuiet ==
  ASSUME CallStep
  PROVE  UNCHANGED dbVars
  BY DEF CallStep, Call, GetRepoId, ShellAdmin, ShellRole, ShellPublic, CheckAcl,
     ViewPublic, ViewRole, ArchivePublic, ArchiveRole, Decide, Goto

LEMMA Recorded ==
  ASSUME Record, step # "idle"
  PROVE  /\ sometimes \subseteq sometimes' /\ EntitledIds' \subseteq sometimes'
         /\ always' \subseteq EntitledIds'
  BY DEF Record

\* While a call lasts, and after it, what was justified stays so.
LEMMA JustifiedStays ==
  ASSUME Inv, [DbNext]_dbVars, [Record]_auditVars, UNCHANGED call,
         step # "idle" \/ step' = "idle", Justified
  PROVE  Justified'
<1>1. Gone \subseteq Gone'
  BY GoneStep
<1>2. sometimes \subseteq sometimes'
  BY DEF Record, auditVars
<1>3. QED
  BY <1>1, <1>2 DEF Justified

\* What a statement of the call finds is true of the moment it runs.
LEMMA FoundIsJustified ==
  ASSUME Inv, Record, step # "idle", UNCHANGED <<call, dbVars>>,
         call.repo_id \in RepoIds, Entitled(call.repo_id)
  PROVE  Justified'
<1>1. Entitled(call.repo_id)'
  BY DEF Entitled, IsAdmin, IsPublic, Granted, dbVars, tables
<1>2. call'.repo_id \in EntitledIds'
  BY <1>1 DEF EntitledIds, RepoIds, dbVars, tables
<1>3. QED
  BY <1>2, Recorded DEF Justified

LEMMA GoneIsJustified ==
  ASSUME UNCHANGED <<call, dbVars>>, call.repo_id \in Given \ RepoIds
  PROVE  Justified'
  BY DEF Justified, Gone, Given, RepoIds, dbVars, tables

LEMMA RoleIsGranted ==
  ASSUME Inv, NEW r, NEW u, NEW role \in Roles \ {kNone}, HasRole(r, u, role)
  PROVE  r \in RepoIds /\ u \in UserIds /\ Granted(u, r, role)
<1>1. r \in RepoIds /\ u \in UserIds
  BY RoleHolders
<1>2. RoleWithinGrants
  BY RoleBounded DEF Inv
<1>3. QED
  BY <1>1, <1>2 DEF RoleWithinGrants, Granted

LEMMA PublicExists ==
  ASSUME NEW r, IsPublic(r)
  PROVE  r \in RepoIds
  BY DEF IsPublic, RepoIds

LEMMA VisitorHasNoRole ==
  ASSUME Inv, NEW r, NEW role \in Roles \ {kNone}
  PROVE  ~ Granted(0, r, role)
<1>1. 0 \notin UserIds
  BY DEF Inv, DbTypeOK, AutoTables, Integrity, IdsBelowSequence
<1>2. QED
  BY <1>1 DEF Granted, Inv, Integrity, ForeignKeys

-----------------------------------------------------------------------------
(* The invariant is inductive, conjunct by conjunct. *)

LEMMA NoStatusType == NoStatus \in StatusType
  BY DEF NoStatus, StatusType, Roles, kNone, kOwner

LEMMA NothingSeen ==
  /\ NoStatus.is_admin = FALSE /\ NoStatus.is_public = FALSE
  /\ ~ NoStatus.role >= kReader /\ ~ NoStatus.role >= kWriter
  BY DEF NoStatus, kNone, kReader, kWriter

\* The call is over, one way or the other.
Decided ==
  /\ step' = "idle" /\ verdict' \in {"granted", "refused"} /\ status' = NoStatus
  /\ UNCHANGED <<call, dbVars>>

LEMMA DecideEnds ==
  ASSUME NEW granted \in BOOLEAN, Decide(granted)
  PROVE  Decided
  BY DEF Decide, Decided

\* The answers of a page and of a tarball, and the checks of scissy-shell.
LEMMA CallEnds ==
  ASSUME AccessTypeOK
  PROVE  /\ ViewPublic \/ ArchivePublic => Decided \/ Goto("member")
         /\ ViewRole \/ ArchiveRole \/ CheckAcl => Decided
<1>1. /\ HasRole(call.repo_id, call.user_id, kReader) \in BOOLEAN
      /\ IsPublic(call.repo_id) \in BOOLEAN
  BY DEF HasRole, IsPublic
<1>2. ViewPublic \/ ArchivePublic => Decided \/ Goto("member")
  BY DecideEnds DEF ViewPublic, ArchivePublic
<1>3. ViewRole \/ ArchiveRole => Decided
  BY <1>1, DecideEnds DEF ViewRole, ArchiveRole
<1>4. CheckAcl => Decided
  BY DecideEnds DEF CheckAcl, AccessTypeOK, StatusType
<1>5. QED
  BY <1>2, <1>3, <1>4

LEMMA InitAInv == AuditInit => AInv
<1> SUFFICES ASSUME AuditInit
             PROVE  AInv
  OBVIOUS
<1>1. Inv
  BY InitInv DEF AuditInit, AccessInit
<1>a. AnyName \in RepoNames
  BY RepoNamesAssumption DEF AnyName
<1>2. AccessTypeOK
  BY <1>1, <1>a, NoStatusType
  DEF Inv, AuditInit, AccessInit, AccessTypeOK, CallType, Kinds, SshKinds
<1>3. Flow /\ SeenIsJustified /\ VerdictIsJustified /\ VisitorArchives
  BY DEF AuditInit, AccessInit, Flow, SeenIsJustified, VerdictIsJustified, VisitorArchives
<1>4. QED
  BY <1>1, <1>2, <1>3 DEF AInv

LEMMA TypeStep ==
  ASSUME AInv, AccessNext
  PROVE  AccessTypeOK'
<1>1. DbTypeOK'
  BY AccessDb, StatementInv DEF AInv, Inv
<1>a. step \in {"idle", "id", "admin", "role", "public", "acl", "member"} /\ AccessTypeOK
  BY DEF AInv, AccessTypeOK
<1>2. CASE Call
  <2>1. PICK kind \in Kinds, user_id \in UserIds \cup {0}, repo \in RepoNames,
             repo_id \in 0 .. MaxId.repos :
          /\ call' = [kind |-> kind, user_id |-> user_id, repo |-> repo, repo_id |-> repo_id]
          /\ step' = IF repo_id # 0 THEN "public" ELSE "id"
    BY <1>2 DEF Call
  <2>2. user_id \in Nat /\ repo_id \in Nat
    BY MaxIdAssumption DEF AutoTables, AInv, AccessTypeOK, DbTypeOK, User, UserIds
  <2>3. call' \in CallType
    BY <2>1, <2>2 DEF CallType
  <2>4. QED
    BY <1>1, <1>a, <1>2, <2>1, <2>3 DEF Call, AccessTypeOK
<1>3. CASE GetRepoId
  <2>1. CASE Decide(FALSE)
    BY <1>1, <1>a, <2>1, NoStatusType DEF Decide, AccessTypeOK
  <2>2. ASSUME NEW r \in repos, call' = [call EXCEPT !.repo_id = r.repo_id],
               step' = IF call.kind = "view" THEN "public" ELSE "admin",
               UNCHANGED <<status, verdict>>
        PROVE  AccessTypeOK'
    <3>1. r.repo_id \in Nat
      BY <1>a DEF AccessTypeOK, DbTypeOK, Repo
    <3>2. QED
      BY <1>1, <1>a, <2>2, <3>1 DEF AccessTypeOK, CallType
  <2>3. QED
    BY <1>3, <2>1, <2>2 DEF GetRepoId
<1>4. CASE ShellAdmin
  BY <1>1, <1>a, <1>4 DEF ShellAdmin, AccessTypeOK, StatusType, IsAdmin
<1>5. CASE ShellRole
  BY <1>1, <1>a, <1>5 DEF ShellRole, AccessTypeOK, StatusType
<1>6. CASE ShellPublic
  BY <1>1, <1>a, <1>6 DEF ShellPublic, AccessTypeOK, StatusType, IsPublic
<1>7. CASE CheckAcl \/ ViewPublic \/ ViewRole \/ ArchivePublic \/ ArchiveRole
  <2>1. Goto("member") \/ Decided
    BY <1>7, <1>a, CallEnds
  <2>2. CASE Goto("member")
    BY <1>1, <1>a, <2>2 DEF Goto, AccessTypeOK
  <2>3. CASE Decided
    BY <1>1, <1>a, <2>3, NoStatusType DEF Decided, AccessTypeOK
  <2>4. QED
    BY <2>1, <2>2, <2>3
<1>8. CASE Others
  BY <1>1, <1>a, <1>8 DEF Others, callVars, AccessTypeOK
<1>9. QED
  BY <1>2, <1>3, <1>4, <1>5, <1>6, <1>7, <1>8 DEF AccessNext, CallStep

LEMMA FlowStep ==
  ASSUME AInv, AccessNext
  PROVE  Flow'
<1>a. Given \subseteq Given' /\ Flow /\ AccessTypeOK
  BY AccessDb, GoneStep DEF AInv
<1>1. CASE Decided
  BY <1>1 DEF Decided, Flow
<1>2. CASE Call
  <2>1. PICK kind \in Kinds, user_id \in UserIds \cup {0}, repo \in RepoNames,
             repo_id \in 0 .. MaxId.repos :
          /\ kind = "archive" => repo_id # 0
          /\ kind \in SshKinds => repo_id = 0
          /\ call' = [kind |-> kind, user_id |-> user_id, repo |-> repo, repo_id |-> repo_id]
          /\ step' = IF repo_id # 0 THEN "public" ELSE "id"
    BY <1>2 DEF Call
  <2>2. call'.kind = kind
    BY <2>1
  <2>3. QED
    BY <1>2, <1>a, <2>1, <2>2 DEF Call, Flow
<1>3. ASSUME NEW r \in repos, step = "id", call' = [call EXCEPT !.repo_id = r.repo_id],
             step' = IF call.kind = "view" THEN "public" ELSE "admin",
             UNCHANGED <<status, verdict>>
      PROVE  Flow'
  <2>1. r.repo_id \in Given
    BY DEF AInv, Inv, Integrity, IdsBelowSequence, RepoIds, Given
  <2>2. call'.repo_id = r.repo_id /\ call'.kind = call.kind /\ call.kind \in Kinds
    BY <1>3, <1>a DEF AccessTypeOK, CallType
  <2>3. QED
    BY <1>3, <1>a, <2>1, <2>2 DEF Flow, Kinds, SshKinds
<1>4. CASE ShellAdmin \/ ShellRole \/ ShellPublic
  BY <1>4, <1>a DEF ShellAdmin, ShellRole, ShellPublic, Flow
<1>5. ASSUME step = "public", call.kind = "archive" => call.user_id # 0,
             call.kind \notin SshKinds, Goto("member")
      PROVE  Flow'
  BY <1>5, <1>a DEF Goto, Flow
<1>6. CASE Others
  BY <1>6, <1>a DEF Others, callVars, Flow
<1>7. CASE GetRepoId
  BY <1>7, <1>1, <1>3, DecideEnds DEF GetRepoId
<1>8. CASE ViewPublic \/ ArchivePublic
  <2>1. Decided \/ Goto("member")
    BY <1>8, <1>a, CallEnds
  <2>2. step = "public" /\ call.kind \notin SshKinds
    BY <1>8 DEF ViewPublic, ArchivePublic, SshKinds
  <2>3. (call.kind = "archive" /\ call.user_id = 0) => Decided
    <3>1. call.user_id < 1 <=> call.user_id = 0
      BY <1>a DEF AccessTypeOK, CallType
    <3>2. QED
      BY <1>8, <3>1, DecideEnds DEF ViewPublic, ArchivePublic
  <2>4. QED
    BY <1>1, <1>5, <2>1, <2>2, <2>3
<1>9. CASE CheckAcl \/ ViewRole \/ ArchiveRole
  BY <1>9, <1>1, <1>a, CallEnds
<1>10. QED
  BY <1>2, <1>4, <1>6, <1>7, <1>8, <1>9 DEF AccessNext, CallStep

\* Each statement of scissy-shell adds one thing to what was seen.
LEMMA SeenStep ==
  ASSUME AInv, AccessNext, Record
  PROVE  SeenIsJustified'
<1>a. /\ Inv /\ AccessTypeOK /\ Flow /\ SeenIsJustified /\ [DbNext]_dbVars
      /\ call.kind \in Kinds /\ call.user_id \in Nat /\ status.role \in Roles
  BY AccessDb DEF AInv, AccessTypeOK, CallType, StatusType
<1>b. ASSUME UNCHANGED call, step # "idle", Justified
      PROVE  Justified'
  BY <1>b, <1>a, JustifiedStays
<1>c. ASSUME UNCHANGED <<call, dbVars>>, step # "idle", call.repo_id \in Given,
             call.repo_id \in RepoIds => Entitled(call.repo_id)
      PROVE  Justified'
  BY <1>c, <1>a, FoundIsJustified, GoneIsJustified
<1>1. CASE Call
  <2>1. PICK kind \in Kinds, repo_id \in 0 .. MaxId.repos :
          /\ kind \in SshKinds => repo_id = 0
          /\ call'.kind = kind /\ step' = IF repo_id # 0 THEN "public" ELSE "id"
    BY <1>1 DEF Call
  <2>2. call'.kind \in SshKinds => status' = NoStatus
    BY <1>1, <1>a, <2>1 DEF Call, Flow
  <2>3. QED
    BY <2>2, NothingSeen DEF SeenIsJustified
<1>2. CASE GetRepoId
  <2>1. step' = "idle" \/ status' = NoStatus
    BY <1>2, <1>a DEF GetRepoId, Decide, Flow
  <2>2. QED
    BY <2>1, NothingSeen DEF SeenIsJustified
<1>3. CASE ShellAdmin
  <2>1. call.kind \in SshKinds /\ call.repo_id \in Given /\ UNCHANGED <<call, dbVars>>
    BY <1>3, <1>a DEF ShellAdmin, Flow
  <2>2. IsAdmin(call.user_id) => Entitled(call.repo_id)
    BY <2>1 DEF Entitled, SshKinds
  <2>3. status'.is_admin => Justified'
    BY <1>3, <1>a, <1>c, <2>1, <2>2 DEF ShellAdmin, AccessTypeOK, StatusType
  <2>4. status'.role = status.role /\ status'.is_public = status.is_public
    BY <1>3, <1>a DEF ShellAdmin, AccessTypeOK, StatusType
  <2>5. QED
    BY <1>3, <1>a, <1>b, <2>1, <2>3, <2>4 DEF ShellAdmin, SeenIsJustified
<1>4. CASE ShellRole
  <2>1. call.kind \in SshKinds /\ call.repo_id \in Given /\ UNCHANGED <<call, dbVars>>
    BY <1>4, <1>a DEF ShellRole, Flow
  <2>2. HasRole(call.repo_id, call.user_id, status'.role) /\ status'.role \in Roles
    BY <1>4, <1>a DEF ShellRole, AccessTypeOK, StatusType
  <2>3. status'.role # kNone => Granted(call.user_id, call.repo_id, status'.role)
    BY <1>a, <2>2, RoleIsGranted
  <2>4. /\ status'.role >= kReader => Granted(call.user_id, call.repo_id, kReader)
        /\ status'.role >= kWriter => Granted(call.user_id, call.repo_id, kWriter)
    BY <1>a, <2>2, <2>3
    DEF Granted, Inv, DbTypeOK, RepoUser, RepoGroup, GroupUser, Roles, kNone, kReader, kWriter, kOwner
  <2>a. /\ call.kind = "ssh read" /\ status'.role >= kReader => Entitled(call.repo_id)
        /\ status'.role >= kWriter => Entitled(call.repo_id)
    <3>1. status'.role >= kWriter => status'.role >= kReader
      BY <2>2 DEF Roles, kNone, kReader, kWriter, kOwner
    <3>2. QED
      BY <2>1, <2>4, <3>1 DEF Entitled, SshKinds
  <2>5. /\ call.kind = "ssh read" /\ status'.role >= kReader => Justified'
        /\ status'.role >= kWriter => Justified'
    BY <1>4, <1>c, <2>1, <2>a DEF ShellRole
  <2>6. status'.is_admin = status.is_admin /\ status'.is_public = status.is_public
    BY <1>4, <1>a DEF ShellRole, AccessTypeOK, StatusType
  <2>7. QED
    BY <1>4, <1>a, <1>b, <2>1, <2>5, <2>6 DEF ShellRole, SeenIsJustified
<1>5. CASE ShellPublic
  <2>1. call.kind \in SshKinds /\ call.repo_id \in Given /\ UNCHANGED <<call, dbVars>>
    BY <1>5, <1>a DEF ShellPublic, Flow
  <2>2. call.kind = "ssh read" /\ IsPublic(call.repo_id) => Entitled(call.repo_id)
    BY DEF Entitled
  <2>3. call.kind = "ssh read" /\ status'.is_public => Justified'
    BY <1>5, <1>a, <1>c, <2>1, <2>2 DEF ShellPublic, AccessTypeOK, StatusType
  <2>4. status'.is_admin = status.is_admin /\ status'.role = status.role
    BY <1>5, <1>a DEF ShellPublic, AccessTypeOK, StatusType
  <2>5. QED
    BY <1>5, <1>a, <1>b, <2>1, <2>3, <2>4 DEF ShellPublic, SeenIsJustified
<1>6. CASE CheckAcl \/ ViewPublic \/ ViewRole \/ ArchivePublic \/ ArchiveRole
  <2>1. step' = "idle" \/ call'.kind \notin SshKinds
    BY <1>6, <1>a, CallEnds DEF Decided, Goto, ViewPublic, ArchivePublic, SshKinds
  <2>2. QED
    BY <2>1 DEF SeenIsJustified
<1>7. CASE Others
  BY <1>7, <1>a, <1>b DEF Others, callVars, SeenIsJustified
<1>8. QED
  BY <1>1, <1>2, <1>3, <1>4, <1>5, <1>6, <1>7 DEF AccessNext, CallStep

LEMMA VerdictStep ==
  ASSUME AInv, AccessNext, Record
  PROVE  VerdictIsJustified'
<1>a. /\ Inv /\ AccessTypeOK /\ Flow /\ SeenIsJustified /\ VerdictIsJustified /\ [DbNext]_dbVars
      /\ call.kind \in Kinds /\ status.role \in Roles
  BY AccessDb DEF AInv, AccessTypeOK, CallType, StatusType
<1>b. ASSUME UNCHANGED <<call, dbVars>>, step # "idle", call.kind = "view",
             \/ IsPublic(call.repo_id)
             \/ HasRole(call.repo_id, call.user_id, kReader)
      PROVE  Justified'
  <2>1. HasRole(call.repo_id, call.user_id, kReader) =>
          call.repo_id \in RepoIds /\ Granted(call.user_id, call.repo_id, kReader)
    BY <1>a, RoleIsGranted DEF Roles, kNone, kReader, kOwner
  <2>2. call.repo_id \in RepoIds /\ Entitled(call.repo_id)
    BY <1>b, <2>1, PublicExists DEF Entitled
  <2>3. QED
    BY <1>a, <1>b, <2>2, FoundIsJustified
<1>1. CASE Call \/ GetRepoId \/ ShellAdmin \/ ShellRole \/ ShellPublic
  <2>1. verdict' # "granted"
    BY <1>1, <1>a DEF Call, GetRepoId, ShellAdmin, ShellRole, ShellPublic, Decide, Flow
  <2>2. QED
    BY <2>1 DEF VerdictIsJustified
<1>2. CASE CheckAcl
  <2>1. step = "acl" /\ call.kind \in SshKinds /\ UNCHANGED call /\ step' = "idle"
    BY <1>2, <1>a DEF CheckAcl, Decide, Flow
  <2>2. verdict' = "granted" =>
          \/ status.is_admin
          \/ call.kind = "ssh read" /\ (status.is_public \/ status.role = kReader)
          \/ status.role \in {kWriter, kOwner}
    BY <1>2, <1>a DEF CheckAcl, Decide, AccessTypeOK, StatusType
  <2>3. verdict' = "granted" => Justified
    <3>1. /\ status.role = kReader => status.role >= kReader
          /\ status.role \in {kWriter, kOwner} => status.role >= kWriter
      BY DEF kReader, kWriter, kOwner
    <3>2. step # "idle"
      BY <2>1
    <3>3. QED
      BY <1>a, <2>1, <2>2, <3>1, <3>2, Zenon DEF SeenIsJustified
  <2>4. verdict' = "granted" => Justified'
    BY <1>a, <2>1, <2>3, JustifiedStays
  <2>5. QED
    BY <2>4 DEF VerdictIsJustified
<1>3. CASE ViewPublic
  BY <1>3, <1>a, <1>b DEF ViewPublic, Decide, Goto, Flow, VerdictIsJustified
<1>4. CASE ViewRole
  BY <1>4, <1>a, <1>b DEF ViewRole, Decide, VerdictIsJustified
<1>5. CASE ArchivePublic \/ ArchiveRole
  <2>1. call'.kind = "archive"
    BY <1>5, <1>a, CallEnds DEF ArchivePublic, ArchiveRole, Decided, Goto
  <2>2. QED
    BY <2>1 DEF VerdictIsJustified
<1>6. CASE Others
  BY <1>6, <1>a, JustifiedStays DEF Others, callVars, VerdictIsJustified, Flow
<1>7. QED
  BY <1>1, <1>2, <1>3, <1>4, <1>5, <1>6 DEF AccessNext, CallStep

LEMMA VisitorStep ==
  ASSUME AInv, AccessNext, Record
  PROVE  VisitorArchives'
<1>a. Inv /\ AccessTypeOK /\ Flow /\ VisitorArchives
  BY DEF AInv
<1>1. CASE Call \/ ShellAdmin \/ ShellRole \/ ShellPublic
  <2>1. verdict' = "none"
    BY <1>1, <1>a DEF Call, ShellAdmin, ShellRole, ShellPublic, Flow
  <2>2. QED
    BY <2>1 DEF VisitorArchives
<1>2. CASE GetRepoId \/ CheckAcl \/ ViewPublic \/ ViewRole
  <2>1. call'.kind # "archive"
    BY <1>2, <1>a, CallEnds
    DEF GetRepoId, CheckAcl, ViewPublic, ViewRole, Decide, Decided, Goto, Flow, SshKinds,
        AccessTypeOK, CallType
  <2>2. QED
    BY <2>1 DEF VisitorArchives
<1>3. CASE ArchiveRole
  BY <1>3, <1>a, CallEnds DEF ArchiveRole, Decided, Flow, VisitorArchives
<1>4. CASE ArchivePublic
  <2>a. /\ step # "idle" /\ call.kind = "archive" /\ UNCHANGED <<call, dbVars>>
        /\ verdict = "none"
    BY <1>4, <1>a DEF ArchivePublic, Decide, Goto, Flow
  <2>b. EntitledIds' = EntitledIds
    BY <2>a DEF EntitledIds, Entitled, IsAdmin, IsPublic, Granted, RepoIds, dbVars, tables
  <2>1. CASE call.repo_id \notin RepoIds /\ Decide(FALSE)
    BY <2>1, <2>a, <2>b, Recorded DEF Decide, VisitorArchives, EntitledIds
  <2>2. CASE IsPublic(call.repo_id) /\ Decide(TRUE)
    <3>1. call.repo_id \in EntitledIds
      BY <2>a, <2>2, PublicExists DEF EntitledIds, Entitled
    <3>2. QED
      BY <2>2, <2>a, <2>b, <3>1, Recorded DEF Decide, VisitorArchives
  <2>3. CASE ~ IsPublic(call.repo_id) /\ Decide(FALSE)
    <3>1. call.user_id = 0 => call.repo_id \notin EntitledIds
      <4>1. ~ Granted(0, call.repo_id, kReader)
        BY <1>a, VisitorHasNoRole DEF Roles, kNone, kReader, kOwner
      <4>2. QED
        BY <2>a, <2>3, <4>1 DEF EntitledIds, Entitled
    <3>2. QED
      BY <2>3, <2>a, <2>b, <3>1, Recorded DEF Decide, VisitorArchives
  <2>4. CASE Goto("member")
    BY <2>4, <2>a DEF Goto, VisitorArchives
  <2>5. QED
    BY <1>4, <2>1, <2>2, <2>3, <2>4 DEF ArchivePublic
<1>5. CASE Others
  <2>1. CASE step = "idle"
    BY <1>5, <1>a, <2>1 DEF Others, callVars, Record, VisitorArchives
  <2>2. CASE step # "idle"
    BY <1>5, <1>a, <2>2 DEF Others, callVars, Flow, VisitorArchives
  <2>3. QED
    BY <2>1, <2>2
<1>6. QED
  BY <1>1, <1>2, <1>3, <1>4, <1>5 DEF AccessNext, CallStep

LEMMA NextAInv ==
  ASSUME AInv, [AccessNext /\ Record]_auditVars
  PROVE  AInv'
<1>1. CASE AccessNext /\ Record
  <2>1. Inv'
    BY <1>1, AccessDb, StatementInv DEF AInv
  <2>2. QED
    BY <1>1, <2>1, TypeStep, FlowStep, SeenStep, VerdictStep, VisitorStep DEF AInv
<1>2. CASE UNCHANGED auditVars
  BY <1>2 DEF auditVars, accessVars, callVars, dbVars, tables, AInv, Inv, DbTypeOK, Integrity,
     ForeignKeys, PrimaryKeys, IdsBelowSequence, UserIds, GroupIds, RepoIds, AccessTypeOK,
     Flow, SeenIsJustified, VerdictIsJustified, VisitorArchives, Justified, Given, Gone
<1>3. QED
  BY <1>1, <1>2

LEMMA AuditAInv == AuditSpec => []AInv
  BY InitAInv, NextAInv, PTL DEF AuditSpec

-----------------------------------------------------------------------------
(***************************************************************************)
(* Calls and rows keep their types, whatever statements run between those  *)
(* of a call.                                                              *)
(***************************************************************************)
THEOREM AccessTyped == AuditSpec => []AccessTypeOK
<1>1. AInv => AccessTypeOK
  BY DEF AInv
<1>2. QED
  BY <1>1, AuditAInv, PTL

(***************************************************************************)
(* No mixture of moments grants a page or a git command that no moment     *)
(* allowed: for any number of users, groups and repositories, and any      *)
(* statements between those of the call.                                   *)
(***************************************************************************)
THEOREM GrantsAreJustified == AuditSpec => []GrantJustified
<1>1. AInv => GrantJustified
  BY DEF AInv, VerdictIsJustified, Justified, Gone, GrantJustified
<1>2. QED
  BY <1>1, AuditAInv, PTL

(***************************************************************************)
(* Whoever has no session gets a tarball only of what was public, and is   *)
(* not refused what was public throughout.                                 *)
(***************************************************************************)
THEOREM VisitorsGetPublicArchives == AuditSpec => []VisitorArchives
<1>1. AInv => VisitorArchives
  BY DEF AInv
<1>2. QED
  BY <1>1, AuditAInv, PTL

(***************************************************************************)
(* Decisions only read: with everything others do meanwhile, what happens  *)
(* to the tables is a history of the database (access.cc,                  *)
(* service.cc:113-130 and 1282-1292 select only).                          *)
(***************************************************************************)
THEOREM DecisionsOnlyRead == AuditSpec => DbSpec
<1>1. AuditInit => DbInit
  BY DEF AuditInit, AccessInit
<1>2. [AccessNext /\ Record]_auditVars => [DbNext]_dbVars
  <2>1. CASE AccessNext
    BY <2>1, AccessDb
  <2>2. CASE UNCHANGED auditVars
    BY <2>2 DEF auditVars, accessVars
  <2>3. QED
    BY <2>1, <2>2
<1>3. QED
  BY <1>1, <1>2, PTL DEF AuditSpec, DbSpec
=============================================================================
