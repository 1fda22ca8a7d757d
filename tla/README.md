# A TLA+ verification of scissy

scissy hosts git repositories. `scissyd` (src/scissy) keeps users, groups,
repositories and access lists in one SQLite database, serves an HTTP API and a
web client, and answers the `scissy-shell` processes that sshd starts for git
over ssh. This directory models the parts of it that decide who may do what and
that keep database, directories and `authorized_keys` in step, checks them with
TLC and proves the central ones with TLAPS.

    tlc -config MCLifecycle.cfg MCLifecycle      # one run
    tlapm ListingsProofs.tla                     # one module of proofs

`PROJECT.json` lists the runs, the line of code each definition models, the
theorems, the hazards, and for every checked property a variant of the code
that violates it.

## 1. Inventory

| component | state | operations | works with |
|---|---|---|---|
| database (`sql/model.sql`, `db.cc`) | tables, `sqlite_sequence`, last rowid of the one connection | one SQL statement at a time, autocommit, foreign keys on | everything |
| management handlers (`service.cc`, `repositories.cc`) | the message and the session snapshot of each running handler; the directories under `repos/` | userCreate, group*, repo* | database, libgit2 |
| access decisions (`CHECK_PUBLIC_REPO`, `access.cc`, `archive-handler.cc`, `shellControl`, `shell.cc`) | ids, roles and flags read so far by one decision | view a page, get a tarball, read or write by git | database |
| authorized keys (`gen-authorized-keys.cc`, the two ssh-key handlers, `main.cc`) | `users_ssh_keys`, the file, the position of each writer | add, remove, regenerate, start | sshd |
| git shell (`shell.cc`) | the command line, the id of the user | parse, ask the server, run git | sshd, which starts it from the file; access decisions |
| sessions (`session.cc`, `userAuth`, `logout-handler.cc`) | `users_auths`, cookies | log in, log out, identify a request | all HTTP handlers |
| listings (`service.cc`) | the cursor of a select | repositories, groups, members, one of them | database |
| repository browsing (`service.cc`, `archive-handler.cc`) | the commit, tree or iterator a page holds | branches, tags, commit, log, tree, blob, patch, archive | libgit2, pushes of git, repoDelete |
| start-up (`main.cc`), configuration | threads, options | start, listen | |
| scripts (`scissy-init`, `-upgrade`, `-set-admin`, `-auth-ldap`) | database file | run by the administrator in other processes | database |
| web client (`www/js/scissy.js`) | the session a page shows | API calls, callbacks | HTTP API |

Who runs concurrently. `main.cc` starts one thread per listening port and
serves the RPC socket of scissy-shell in the main thread. A thread runs one handler to its end.
All threads share one connection opened with `SQLITE_OPEN_FULLMUTEX`; no code
opens a transaction and nothing is locked between two statements. So the unit
of interleaving is one statement or one file-system call, and this is the unit of an
action in every module here.

What is hard, per component (the full list, with lines, is `hazards` in
PROJECT.json):

* handlers: names are resolved, then roles checked, then something is changed,
  with other handlers in between; multi-statement creations that are undone
  when a later statement fails; a rowid read from a shared connection; a directory
  removed by an id resolved earlier; crashes between any two statements.
  Correct means: nobody changes what he never owned, nothing half-made stays
  behind, no directory of a living repository goes, ids do not return, requests end.
* database: cascades, uniqueness and references under any sequence; the natural
  join of the role query. Correct means: no dangling membership, no role above
  what the rows grant.
* access: several selects per decision while grants and names change. Correct
  means: what is granted was allowed at some moment, to the very repository
  reached, and visitors get the tarballs of the public ones only.
* authorized keys: a file rewritten in place, by any thread, interrupted by a
  crash, and read meanwhile by sshd. Correct means: it follows the table, and so does
  who gets in.
* git shell: a command line quoted by the client and parsed by hand. Correct means: what was
  asked for is what runs.
* sessions: token and cookie lifetimes, logout in the middle of other requests.
  Correct means: a request runs as somebody who proved his password from this browser, and a
  logout ends one session for good.
* listings: one statement read row by row while others change the rows. Correct
  means: what stays is listed, in order, once (members of two selected groups once for each),
  and what never was is not listed.
* browsing: a revision resolved, looked up and read in steps, while pushes move the
  references and repoDelete removes the directory; unsigned paging arithmetic. Correct means:
  a page shows one commit its revision named, and fails only for a reason.
* scripts: the version loop against the version main() requires.
* web client: responses in another order than requests. Correct means: the
  header names a user who logged in here.

## 2. Modules

    Database ----- Service ----- ServiceProps ----- ServiceAudit --- MCLifecycle, MCGroups
       |  |           (tables,       | INSTANCE          (history)
       |  |            handlers)     | RepoLifecycle
       |  |                          +--- MCFaults, MCDirs
       |  +----- Access ----- AccessAudit ----- MCAccess
       +-------- Listings ----- MCListings

    AuthorizedKeys ----+---- MCKeys         Browse ----- BrowseAudit ----- MCBrowse
    ShellCommand ------+---- SshLogin ----- MCSsh

    Sessions ----- SessionsAudit ----- WebClient ----- MCSessions      Upgrade

    DatabaseProofs <--- ServiceProofs <--- AuditProofs       SessionsProofs  (with WebClient)
          |  |                                               KeysProofs      (with SshLogin)
          |  +--------- AccessProofs                         BrowseProofs
          +------------ ListingsProofs

**Database** - tables as sets of rows. `AcceptsX` says when the schema accepts a
statement (UNIQUE, PRIMARY KEY, FOREIGN KEY, a full id sequence), `InsertX`,
`UpdateRepo`, `DeleteX` are its effects, cascades included. `RolesFound`/`HasRole` are the
query of `Db::repoGetUserRole`. `DbSpec` allows every accepted statement in any
order: it is the promise of the database to its users, and the abstract
specification of Service. Left out: columns no decision reads; the e-mail's own
UNIQUE constraint (an e-mail stands with its login).

**Service** - each thread has `pc` (the next statement), `req` (the message, into
which SET_REPO_ID, SET_GRP_ID and SET_USER_ID write the ids they find, and which
also holds the handler's locals) and `session`. A handler is a path through

    Begin -> SetRepoId/SetGrpId/SetUserId -> CheckRepoRole/CheckGroupOwner -> its statements -> idle

`Exec` is one writing statement: it takes effect where the schema accepts it,
and fails otherwise, or, with "sql" in `Failures`, at any time. `repoCreate` is CreateRepoRow, ReadRowid,
InitDir, SetRepoOwner and, on a failure, UndoRepoRow (by name, as the code does);
`repoDelete` is RepoDelete, RemoveDir; `groupCreate` is CreateGroupRow,
GetGroupId (twice), SetGroupOwner, UndoGroupRow. `MakeAdmin` is the script scissy-set-admin,
`Restart` the death and new start of the process ("crash" in `Failures`). A
message has the user whose valid cookies come with it in `as`, NoName for a visitor.
Answers to the client are left out: nothing reads them back. userCreate's checks
of form happen before its first statement; a message that fails them has no effect and is not sent.

**RepoLifecycle** - the abstract life of repository ids: unborn, live, dead, and
which have a directory. No living id loses its directory, no id returns.

**ServiceProps** - the refinement mappings (`LifecycleSpec`, `DatabaseSpec`),
`EveryRepoHasDir`, the fairness and `HandlersEnd`, and the part of it that is not
temporal: `HandlersAdvance`, each step of a handler leaves it fewer statements (`Left`).

**ServiceAudit** - four history variables no handler reads: what the caller of
each running handler owned since its request arrived (`held`), which groups ever had
an owner, whether a rowid was ever mixed up (`mixedUp`), and whether a restart ever cut a
repoCreate short (`cutShort`). The first states what checks made some statements before a change still
guarantee at the change: only who owned it during the call changes it, or who creates it, that is,
a groupCreate of that very name, or a repoCreate of that very name as long as nobody is a member
(`AuthorisedChanges`). The code breaks this once a rowid was mixed up: a repoCreate then makes its
caller an owner of whatever repository its rowid names, which may have owners (repositories.cc:54,
72), and its clean-up may delete a repository that has got an owner (repositories.cc:74). The
property excepts these two, with `mixedUp`, and nothing else. The last two variables state what
repoCreate and repoDelete keep in spite of all else that happens between their statements:
every repository has its directory (`UndisturbedDirs`, without either accident), and the row that the clean-up
deletes by name is the row of its own call (`CreationIsAlone`, without a mixed-up rowid).

**Access** - one decision at a time, statement by statement, while `Others`
executes any accepted statement of Database between two of its own; a decision writes
nothing, so one at a time is general. **AccessAudit** records what the caller was entitled to
at some moment of the call and at every moment of it.

**AuthorizedKeys** - the table, the file as a sequence of lines, and per thread
the row and the offset of its running `genAuthorizedKeys`. Lines count as
equally long, so offsets are line numbers; `Hole` is a gap left by writing past the
end of a file another thread truncated. The scan steps through rows as
the table is at that moment.

**ShellCommand** - `parseCmd` as a function from the characters of a command line to
a program and a name, and, external, the quoting that git clients do. **SshLogin** composes it
with AuthorizedKeys: sshd reads the file line by line, with no lock, while handlers
regenerate it, and the line it finds starts scissy-shell. What scissy-shell then asks
the server is Access. Its history says whether the last regeneration began alone (`clean`)
and whether the file was in order throughout a login (`settled`).

**Listings** - the pages that list rows. A query that sorts or groups gives its
rows at its first step and is one action; one that follows an index reads one row per action, the
next in the order of the index as the table is at that moment. `rows` are the rows read, `MemberList`
what a page of members says of them: for groupListMembers that is the user and the role but not the group, so
who is a member of both the group of the id and the group of the name is listed twice, as
`MembersListed` says. `existed` and
`lasted` are history: the rows that belonged in the answer at some moment of the
page, and at all of them. The `bind` inside the loop of groupListMembers (service.cc:667) is
refused by SQLite on a running statement and is ignored, so it is no action.

**Browse** - one page at a time (pages write nothing), lookup by lookup: `at` is the next lookup of
the handler, `oid`, `base`, `names` and `i` its locals. Pushes move references between two
lookups and repoDelete takes the directory away file by file (`torn`: a lookup may miss). Commits are a constant
graph with the order of a walk (`History`); offset, limit and
their sum are uint32_t, here modulo `Modulus`. External, modelled from how it is used: libgit2, where
`git_tag_foreach` may give up at a tag deleted since its names were read, and
`git_branch_next` goes on. **BrowseAudit** records what the revisions of the
message named, and which references existed, over the call; `PagesAdvance` says that
each step of a page leaves it less to do (`Ahead`).

**Sessions** - who a request runs as. A call goes from `Send`, with the cookies
its browser has then, over `BuildSession` (`Session::auth`: the row of the token
and the login, or nobody), to the statements of its handler: Authenticate,
FindAccount and InsertToken for userAuth, RevokeToken for /logout, UserCreate, or
RunHandler for every other. Its answer is delivered or lost, in any order; cookies
expire, the process restarts. **SessionsAudit** records whose passwords each
browser sent, which credentials came to /logout and which logouts were answered.
Service's `as` is the user that BuildSession finds. Whether a
password is accepted is an input of the call (`right`), drawn tokens never repeat.

**WebClient** adds the page in each browser to Sessions: whom its header shows
(`shown`), what each answer names (`told`), and which calls still have a page
to call back (`open`). Answers are taken in the order they come.

**Upgrade** - the version loop of scissy-upgrade, with the unassigned variable it adds
to, the migrations that are installed, and main()'s test of the version.

Definitions whose comment starts with "Variant:" are plausible bugs next to the
definition they vary. No specification uses them; they serve to confirm that
each property can be violated by a change of the code.

## 3. What the runs check

| run | question | bounds | result |
|---|---|---|---|
| lifecycle | do concurrent repository handlers implement RepoLifecycle, change repositories only for who owned them during the call and, unless a rowid was mixed up, create only what is nobody's; do they keep every directory, and take back only what they made? | 2 threads, 2 users, 1 group, 2 names, 2 ids, git failures, restarts | holds, 854 k states |
| groups | does groupCreate leave ownerless groups; are groups changed only by their owners; do handlers go forward? | 2 threads, 3 users, 1 name, 2 group ids | holds, 906 k |
| faults | is every step an accepted statement, does every request end, when anything may fail? | 2 threads, 2 users, 1 group, 1 repository, all failures | holds, 390 k |
| access | do the tables stay consistent and the role query bounded under any sequence of statements, and are the grants of pages and of git decided meanwhile justified; do visitors get the tarballs of public repositories, and only those? | visitors and 1 user, 1 name, 2 repository ids, 1 group, all roles, all kinds of call | holds, 581 k |
| ssh | does the file follow the table, over crashes, unless regenerations overlap; does sshd let in who is in the table, and run what was asked? | 2 threads, 2 keys, 2 starts, all names of up to 1 character, two of 2 | holds, 187 k |
| sessions | who do requests run as, whom does a page show, and which cookies are good, when requests, answers and restarts overlap? | 2 users, 1 browser, 2 calls, 2 tokens, restarts | holds, 2.2 M |
| listings | do pages list what was there, repositories once and in order, members once per selected group? | 2 repositories over 3 names, 2 users, 2 groups | holds, 195 k |
| browse | do pages of a repository show what was meant, fail for a reason, go forward and end? | 3 commits, 2 branches, 2 tags, every kind of page | holds, 292 k |
| dirs_race | does every repository have its directory? | 2 concurrent repoCreate | violated |
| archive | is a tarball granted to those who may read the repository, and to no others? | as access | violated |
| keys_two | does the file follow the table with two serving threads? | 3 keys, 2 threads | violated |
| upgrade | does the server start after scissy-upgrade? | versions 0 to 2 | violated |

Why these bounds are enough to be interesting. Two threads suffice for every
race named in the hazards, all of which are between one handler and another.
In `lifecycle` two repositories over two names swap names, are deleted and created while
the other handler holds an id; both users own, lose and regain them directly and
through the group. In `access` one name passes from a deleted repository to
its successor while a decision holds the old id. In `groups` two group ids do the
same for groups; visitors and a user that does not exist yet
make SetGroupOwner fail, so the undo is taken. `MaxId` bounds the ids a table can give:
SQLite's own limit is 2^63-1 and then the insert fails with SQLITE_FULL, which
is what the model does at the bound, so the bound changes no transition.
`RowIds` are the implicit rowids of the membership tables, which
overwrite last_insert_rowid; one or two values are enough because a thread only compares them
with repository ids. `MaxStarts` bounds restarts in AuthorizedKeys. In `ssh` the names
over a letter, an exclamation mark, a quote and a backslash reach every mode of the parser and
every pair of modes in sequence; longer names are proved (`NameRead`). In `sessions` two
tokens are two successful logins, of one user or of two; drawing a token may fail
in the code, so running out of them adds no behaviour. With one browser the cookies of
two users and of overlapping logins meet in one jar, which is where they can get lost; that no
credential reaches another browser is proved for any number of them (section 4).
In `listings` a third name lets a repository be renamed over the cursor and back;
`GrantRoles` is one role, since no page looks at it, and one of the two groups may have
the empty name, which an unset field of the message selects. Others act only
on what the page reads. In `browse` two roots and their merge
give a patch without a parent, one with two, and a log of three commits, against a
`GitLogLimit` of two, so that there is a second page. `Modulus` is 8: offset 7 and
limit 7 wrap around.
`lifecycle` leaves "sql" out of `Failures` because `LifecycleSpec` fails with it:
`remove` ignores whether the row was deleted and removes the directory
(repositories.cc:86). `sessions` leaves it out because /logout ignores a
failed delete (logout-handler.cc:17): the answer takes the cookies back, and the
credential stays good; `LogoutRevokes` holds only where the delete succeeds.

Symmetry is used in runs without liveness: on threads in `lifecycle` and `groups`, and in
`sessions` on calls, tokens and users, none of which the specification tells apart.
No run disables the deadlock check: an idle thread or page may always take a request,
and the databases can always change.

Fairness. `FairSpec` of ServiceProps has weak fairness of the steps of each
thread's running handler: between two statements a handler waits for nothing
but the connection's mutex, which is held for one statement. Requests are not fair
(nobody has to send one), nor are crashes, nor the administrator.
`LoginSpec` of SshLogin has it for running regenerations, including the one of
main(), and not for clients. `Fairness` of Browse has it for the steps of the page:
libgit2 waits for no other process, and nobody has to push or to open a page.

### What the violated runs show

* **dirs_race** (repositories.cc:54): the rowid of a new repository is read
  in a second statement from the connection all threads share. If another
  insert comes between, the directory and the owner go to the other repository, and
  the first has neither. Where the other repository has members, the caller of repoCreate becomes a
  further owner of it: a kOwner of what others own. Run `lifecycle` reaches that too, and
  `AuthorisedChanges` passes there because it excepts it by name (`IntrudesOn`, once `mixedUp`).
* **archive** (access.cc:21): the role found is stored over the role required, and what is compared
  with it is still kNone. So of the users with a session exactly those for whom no role is found are
  granted the tarball of a private repository: any user who has nothing to do with it gets it (the trace of the
  run), and its members are refused (the other conjunct of `ArchivesForReaders`, violated as well when
  checked alone). What does hold of tarballs is in run `access`: visitors without a session are
  served exactly those of public repositories (`VisitorArchives`). `GrantJustified` is about pages and
  git commands, and leaves tarballs out for this reason.
* **keys_two** (gen-authorized-keys.cc:15): nothing orders two regenerations;
  a key can be missing from the file, or be there twice.
* **upgrade** (scissy-upgrade:3, 12): LAST_VERSION is 1, and the next version is
  computed from a misspelt variable; main() requires version 2 and tells the administrator to
  upgrade, but no run of the script gets there.

## 4. What is proved

TLAPS proves the theorems below for every value of the constants, under assumptions that
are named where the constants are declared and that TLC evaluates in the runs. What they say:
ids are naturals, and no initial row has an id above the largest rowid; initial users
have distinct ids and logins; messages have the fields their handler needs; there is a name a
repository can have; main() starts at least once; names are ordered; the graph of commits has its
parents in it; an absent cookie is no login and no token. Theorems that assume more say so.
Every type and safety invariant, every action property and every refinement of a passing run is proved.

**Database and handlers.**

* `DatabaseIntegrity` (DatabaseProofs): `DbSpec => [](DbTypeOK /\ Integrity)`.
  The formula is inductive as it stands; the argument is one lemma
  per statement, each split into references, keys and ids. IdsBelowSequence is what makes
  a new id different from every other: without it the primary keys are not inductive.
* `RolesAreGranted` (DatabaseProofs): `DbSpec => []RoleWithinGrants`. Whatever the natural
  join of the role query finds is bounded by a row (`RoleBounded`), in every typed state.
* `ServiceIntegrity` (ServiceProofs): `Spec => [](TypeOK /\ Integrity)`, any
  number of threads, any failures. Every step of a handler is a step of `DbNext`
  or leaves the tables alone (`NextDb`), so the lemmas of DatabaseProofs apply and are not
  repeated. For this, requests must name things of the right kind while a
  handler runs; the invariant `IInv` adds that to TypeOK.
* `ServiceIsDatabase` (ServiceProofs): `Spec => DatabaseSpec`, the refinement
  that makes every property of Database a property of the running server.
* `ServiceIsLifecycle` (ServiceProofs): with "sql" not in `Failures`,
  `Spec => LifecycleSpec`. The strengthening is `LInv`: a repoDelete that has passed its check
  (or is about to remove the directory) holds an id that was given out (or is
  given out and no longer in the table). It follows because owning a repository needs a row,
  rows refer to repositories that exist, and ids never return. A repository
  id is born by InsertRepo, dies by DeleteRepo, and no other statement touches it (`IdsStep`).
* `ChangesAreAuthorised` (AuditProofs): `AuditSpec => AuthorisedChanges`, with every failure.
  `HInv` says three things of each thread: which operations may be at which statement (`Placed`), that
  the history has all the caller owns now (`Watched`), and that behind the check the id in the request
  is in the history (`Checked`). The change itself is then authorised by what was recorded at the check,
  whatever has happened to the row since. Ids and names of groups bind once (`Bound`), which is why
  groupCreate may find its group by name. For repoCreate it uses `CInv` of `CleanUpIsOwn` below: while
  no rowid was mixed up, the row it gives an owner or takes back is the one it made, and nobody's. The theorem
  excepts what the property excepts: after a mixed-up rowid nothing is claimed of the owner a repoCreate sets.
* `GroupsGetOwners` (AuditProofs): with neither "sql" nor "crash" in `Failures`,
  `AuditSpec => []NoOwnerlessGroup`. `OInv`: for each group that never had an owner some running
  groupCreate is `Responsible`, that is, will find it by name or holds its id. The assumption is needed: a
  process that dies after the insert, or an undo that the storage refuses, leaves the group behind.
* `DirsAreKept` (AuditProofs): with "sql" not in `Failures`, `AuditSpec => []UndisturbedDirs`, over
  restarts, failures of git and any number of threads. `MInv` adds to `HInv` and `LInv`, before either accident,
  `NInv`: a row without its directory has a repoCreate that is about to make the one or delete
  the other (`Minds`), and whatever is in a membership, was ever owned during a call under way or is about to get its
  owner has its directory as long as it lives (`Kept`). So the two accidents that `mixedUp` and `cutShort` record are all that
  may cost a repository its directory. `OneThreadKeepsDirs` (ServiceProofs): with one thread, and neither
  "sql" nor "crash" in `Failures`, `Spec => []EveryRepoHasDir`, which run dirs_race refutes for two.
* `CleanUpIsOwn` (AuditProofs): `AuditSpec => []CreationIsAlone`, with every failure and restarts. `CInv`, as long as no
  rowid was mixed up: a repository
  being made is nobody's, so no check lets another handler at it; names are unique, so two calls under way
  never have the same; and what the table holds under the name is the row that the call inserted.
* `HandlersGoForward` (ServiceProofs): `Spec => HandlersAdvance`. No handler does anything twice,
  so of `HandlersEnd` only the scheduling is left to TLC.

**Access.**

* `GrantsAreJustified` and `VisitorsGetPublicArchives` (AccessProofs):
  `AuditSpec => []GrantJustified`, `AuditSpec => []VisitorArchives`, for any tables and any
  statements between two of a decision's own. The inductive part is `SeenIsJustified`: every answer a
  statement gave in favour of the caller was true at a recorded moment, or the id is
  gone (`GoneStep`: for good). `RoleBounded` ties what the query found to rows.
* `AccessTyped`, `DecisionsOnlyRead` (AccessProofs): `AuditSpec => []AccessTypeOK`, and
  `AuditSpec => DbSpec`: decisions write nothing, so the theorems on the tables hold around them.

**Keys** (KeysProofs), for any number of threads where nothing else is said.

* `KeysTyped`: `Spec => []TypeOK`, holes in the file included.
* `SettledFile`: `LoginSpec => []SettledFileIsTable`. `KInv` says, while the last regeneration has run
  alone (`clean`), what its scan has written: the keys up to the row it fetched last, each on one line, and
  that its offset is the end of the file (`Undisturbed`). While main() scans no handler is up
  (`Phases`). A thread that changes the table owes a regeneration afterwards, which truncates the file: if it
  does so alone, whatever overlapped before is repaired; if not, nothing is claimed.
* `LoginFollows`: `LoginSpec => []LoginFollowsTable`. `LoginInv`: as long as the file was settled,
  the lines sshd has read are not its key's, of a file that is the table.
* `LoginKeepsFile`: with one handler thread (`OneHandler`), `LoginSpec => []FileIsTable`, because then every
  regeneration is alone. Run keys_two shows it false of two. `LoginsReadOnly` is `LoginSpec => Spec`: sshd
  and the shell write nothing.
* `NameRead`: for a name of any length and any characters, `RepoName(SqQuote(name)) = name`. The quoted
  command and the parser are recursive functions over positions. The theorem that would give
  induction takes an operator, so it is argued by a least counterexample: a set of naturals
  with 0 and with successors is all of them (`SetInduction`), applied to the set of positions
  where the parser, after what was written for k characters, has read k characters and is in quotes.
* `AskedRuns`, `LoginTyped`: `LoginSpec => []AskedIsRun` and `LoginSpec => []LoginTypeOK`, from it.

**Sessions and the page.**

* `RequestsAreProved`, `CookiesAreRows` (SessionsProofs): `AuditSpec => []IdentityProved`
  and `AuditSpec => []CookiesStayGood`, with every failure. The invariant follows a credential through
  the request, the row, the answer and the jar (`Known`): wherever it is, its user's
  password was sent by this browser, and it is in a row unless it was presented to /logout. Neither
  property is inductive alone: a late answer carries a credential that no cookie holds yet.
* `LogoutIsFinal` (SessionsProofs): with "sql" not in `Failures`,
  `AuditSpec => []LogoutRevokes`. The strengthening `RInv` adds that every credential of a row or of a
  logout has a token that is drawn, so a new one is different from all that were revoked.
* `PagesAreClients` (SessionsProofs): `WebSpec => AuditSpec`, so all of the above holds of browsers
  with their page. `PagesAreProved` and `PagesTyped`: `WebSpec => []ShownProved`, `WebSpec => []WebTypeOK`.
  `WInv` adds to the invariant of sessions what each answer under way tells (`ToldOK`): a user its
  browser has proved.

**Listings** (ListingsProofs): `ReposAreListed`, `ReposAreInOrder`, `MembersAreListed`, `ListingsTyped`,
each `ListingsSpec => []` the property of that name. Both scans are one argument over the key
that orders the rows. `ScanOK`: keys grow from row to row up to the cursor; each row listed was in the
answer at some moment; and what has been in it throughout is listed already or has its key in front of
the cursor. A step of others cannot spoil this, since what stays in the answer keeps its key
(`EntryOrdersKey`); the step that reads a row cannot, since at any moment a key belongs to one row
(`KeyIsUnique`, from the primary keys and, for members of two groups, from the bound on ids); and when no
key is in front of the cursor (`Smallest`: a set of numbers has a least one) the list is complete.
Two rows of one user have different keys, so one is of the group of the id and the other, behind it, of
the group of the name: that is the only way `MemberList` names anybody twice.
`PagesOnlyRead` is `ListingsSpec => DbSpec`.

**Browsing** (BrowseProofs): `PagesShowWhatWasMeant`, `PagesFailForAReason`, `LogsAreSlices`,
`ReferencesAreListed`, `PagesTyped`, each `AuditSpec => []` the property. `BInv` says of every lookup
which commits the page's locals may be: `Found`, one the repository has and the revision named at some
moment. Commits are never taken away, so a later lookup of it finds it, or the directory is being
removed. Of a log, the items are the slice from `offset` up to the walk's position, which never passes the sum as
the code computes it; a sum that wraps means an offset past the end of every history
(LimitAssumption: histories are shorter than 2^32 by a page), and the slice is empty either way. Of references, the items are the names before the
position that were there when they were visited, each once.
`PagesGoForward`: `AuditSpec => PagesAdvance`; for the log it needs that the walk's history stays what it
was, and that the position is a proper one in it.

Only model-checked, and why:

* `HandlersEnd`, `KeysReachFile` and `PagesEnd`: liveness under fairness is out of the prover's reach.
  That no step of a handler or a page leads backwards is proved (`HandlersAdvance`, `PagesAdvance`),
  and that a regeneration that has run alone leaves the table in the file (`SettledFileIsTable`).
* The properties the code violates (section 3). With one thread two of them hold
  and are proved: `OneThreadKeepsDirs` and `LoginKeepsFile`.

Proving showed assumptions that the bounds of the runs had hidden, now named: in Listings user ids
must not exceed the largest rowid, or members of two groups could share a place in the
scan; in Access there is a name to ask for; in AuthorizedKeys main() starts at least once.

## 5. Not modelled

* The answers of the handlers that write: no code reads them back. repoUpdate answers
  kSucceed also where the name is taken (service.cc:718), userAddSshKey where SQLite
  refused the key (service.cc:415); nothing says what the answers promise.
* userGetSshKeys (one select over the caller's own rows), userSetPassword
  (service.cc:290-312 changes nothing), descriptions and dates.
* Formats: highlighting, diffs, tar and zip streams; sockets, TLS, the drop of privileges.
* Configuration and the form of logins, e-mails and passwords: read once at start, or checked
  before the first statement.
* The authenticators' own checks and scissy-auth-ldap: one call of PAM, LDAP or a hash;
  its result is the input `right` of Sessions.
* `groups.cc` and the caches of role.cc: no handler calls them.
* What a migration does to the tables, scissy-init: SQL run once while no server runs.
* The controllers of the web client other than the session: each shows one answer and keeps nothing.
* Logging, vendored web code.

External and modelled from their use: libgit2 (`git_repository_init`
creates the directory, or accepts the one that is there, or fails; lookups as in
Browse), sshd, the quoting of git clients, SQLite's scans.

## 6. Plan

Done: Database, Service with its properties and RepoLifecycle, Access,
AuthorizedKeys with ShellCommand and SshLogin, Sessions with WebClient, Listings, Browse,
Upgrade, and the theorems of section 4, which state every safety property of the passing runs. Next:

1. Browse as a reader: that it implements the specification of a repository under pushes, as
   Access and Listings do Database and WebClient does Sessions.
2. `DirsAreKept` where statements fail: which failures cost a directory is known (repositories.cc:86 removes
   it after a delete that was refused), and a third accident beside `mixedUp` and `cutShort` would account for it.
3. The answers of the handlers that write, once something relies on them.
