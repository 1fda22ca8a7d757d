--------------------------- MODULE ListingsProofs ---------------------------
(***************************************************************************)
(* The pages list what was there.  Both scans, of repositories by name and *)
(* of members by group and user, are the same argument, made once over the *)
(* key that orders the rows (Key) and what a row stands for in the answer  *)
(* (Entry): keys grow from row to row, and what has been there throughout  *)
(* is listed already or has its key still in front of the cursor.          *)
(***************************************************************************)
EXTENDS Listings, DatabaseProofs, SequenceTheorems, WellFoundedInduction

AnyRow  == Repo \cup RepoUser \cup RepoGroup \cup GroupUser \cup GroupRow
ScanOps == {"reposList", "groupListMembers"}

Scanned     == IF req.op = "reposList" THEN repos ELSE SelectedMembers
ScanType(r) == IF r.op = "reposList" THEN Repo ELSE GroupUser
Key(r, x)   == IF r.op = "reposList" THEN x.name
               ELSE IF x.group_id = r.id THEN x.user_id
               ELSE MaxId.users + x.user_id
Entry(r, x) == IF r.op = "reposList" THEN <<x.repo_id, x.name>> ELSE x

Finite ==
  /\ IsFiniteSet(groups) /\ IsFiniteSet(groups_users)
  /\ IsFiniteSet(repos_users) /\ IsFiniteSet(repos_groups)

PageOK ==
  /\ req \in Requests /\ cursor \in Nat /\ rows \in Seq(AnyRow)
  /\ at \in {"idle", "scan", "info", "groups", "users"}
  /\ status \in {"none", "kSucceed", "kNotFound"}
  /\ at # "idle" => status = "none"
  /\ at = "idle" /\ status = "none" => rows = <<>>
  /\ at = "scan" => req.op \in ScanOps
  /\ at \in {"groups", "users"} => req.op = "repoListMembers"
  /\ at = "info" => req.op \notin ScanOps \cup {"repoListMembers"}
  /\ at # "scan" => cursor = 0

Watched ==
  at # "idle" => lasted \subseteq Answers /\ Answers \subseteq existed

ScanOK ==
  req.op \in ScanOps =>
    /\ rows \in Seq(ScanType(req))
    /\ \A k, l \in 1 .. Len(rows) : k < l => Key(req, rows[k]) < Key(req, rows[l])
    /\ at = "scan" =>
         /\ \A k \in 1 .. Len(rows) :
              Key(req, rows[k]) <= cursor /\ Entry(req, rows[k]) \in existed
         /\ \A p \in lasted :
              \/ \E k \in 1 .. Len(rows) : Entry(req, rows[k]) = p
              \/ \A x \in Scanned : Entry(req, x) = p => Key(req, x) > cursor

\* Between the two statements of repoListMembers.
HalfListed ==
  at = "users" =>
    /\ rows \in Seq(RepoGroup)
    /\ \A k, l \in 1 .. Len(rows) : rows[k].group_id = rows[l].group_id => k = l
    /\ \A k \in 1 .. Len(rows) : rows[k] \in existed
    /\ \A m \in lasted : m \in RepoGroup => \E k \in 1 .. Len(rows) : rows[k] = m

PInv ==
  /\ Inv /\ Finite /\ PageOK /\ Watched /\ ScanOK /\ HalfListed
  /\ sqlite_sequence.users <= MaxId.users /\ users = InitialUsers
  /\ ReposListed /\ MembersListed

-----------------------------------------------------------------------------
(* Facts about sets, numbers and sequences. *)

LEMMA Smallest ==
  ASSUME NEW T \in SUBSET Nat, T # {}
  PROVE  \E x \in T : \A y \in T : x <= y
<1>1. PICK x \in T : \A y \in T : ~ (<<y, x>> \in OpToRel(<, Nat))
  BY NatLessThanWellFounded, WFMin, Zenon
<1>2. \A y \in T : ~ (y < x)
  BY <1>1 DEF OpToRel
<1>3. QED
  BY <1>2

\* What SetToSeq gives of a finite set: each element once.
LEMMA SetAsSequence ==
  ASSUME NEW S, IsFiniteSet(S)
  PROVE  /\ Cardinality(S) \in Nat
         /\ SetToSeq(S) \in [1 .. Cardinality(S) -> S]
         /\ \A k, l \in 1 .. Cardinality(S) : SetToSeq(S)[k] = SetToSeq(S)[l] => k = l
         /\ \A m \in S : \E k \in 1 .. Cardinality(S) : SetToSeq(S)[k] = m
<1> DEFINE n == Cardinality(S)
           f == SetToSeq(S)
<1>1. n \in Nat /\ ExistsBijection(1 .. n, S)
  BY FS_CardinalityType
<1>2. f \in [1 .. n -> S] /\ IsInjective(f)
  BY <1>1 DEF SetToSeq, ExistsBijection, Bijection, Injection
<1>3. f \in Injection(1 .. n, S)
  BY <1>2 DEF Injection
<1>4. Cardinality(1 .. n) = n
  BY <1>1, FS_Interval
<1>5. f \in Surjection(1 .. n, S)
  BY <1>1, <1>3, <1>4, FS_Injection
<1>6. QED
  BY <1>1, <1>2, <1>5 DEF IsInjective, Surjection

LEMMA SequenceOfSet ==
  ASSUME NEW S, IsFiniteSet(S)
  PROVE  /\ SetToSeq(S) \in Seq(S)
         /\ \A k, l \in 1 .. Len(SetToSeq(S)) : SetToSeq(S)[k] = SetToSeq(S)[l] => k = l
         /\ \A k \in 1 .. Len(SetToSeq(S)) : SetToSeq(S)[k] \in S
         /\ \A m \in S : \E k \in 1 .. Len(SetToSeq(S)) : SetToSeq(S)[k] = m
<1>1. /\ Cardinality(S) \in Nat
      /\ SetToSeq(S) \in [1 .. Cardinality(S) -> S]
  BY SetAsSequence
<1>2. SetToSeq(S) \in Seq(S)
  BY <1>1, SeqDef
<1>3. Len(SetToSeq(S)) = Cardinality(S)
  BY <1>1, <1>2, LenProperties
<1>4. QED
  BY <1>1, <1>2, <1>3, SetAsSequence

\* The entries of an answer, by the kind of row they show.
LEMMA UserEntry ==
  ASSUME NEW m \in RepoUser \cup GroupUser
  PROVE  Member(m).list = "users" /\ Member(m).id = m.user_id
BY DEF Member, RepoUser, GroupUser

LEMMA GroupEntry ==
  ASSUME NEW m \in RepoGroup
  PROVE  Member(m).list = "groups" /\ Member(m).id = m.group_id
BY DEF Member, RepoGroup

-----------------------------------------------------------------------------
(* Statements of the database. *)

\* The rows of a table after a statement: some of them, or one more.
Changes(old, new) == new \subseteq old \/ \E row : new = old \cup {row}

LEMMA ChangesFinite ==
  ASSUME NEW old, NEW new, IsFiniteSet(old), Changes(old, new)
  PROVE  IsFiniteSet(new)
BY FS_Subset, FS_AddElement DEF Changes

LEMMA FiniteStep ==
  ASSUME Finite, [DbNext]_dbVars
  PROVE  Finite'
<1>1. /\ Changes(groups, groups') /\ Changes(groups_users, groups_users')
      /\ Changes(repos_users, repos_users') /\ Changes(repos_groups, repos_groups')
  <2>1. CASE UserStatement
    BY <2>1 DEF UserStatement, InsertUser, SetAdmin, Changes
  <2>2. CASE GroupStatement
    BY <2>2 DEF GroupStatement, InsertGroup, DeleteGroup, InsertGroupUser,
                DeleteGroupUser, Changes
  <2>3. CASE RepoStatement
    BY <2>3 DEF RepoStatement, InsertRepo, UpdateRepo, DeleteRepo, InsertRepoUser,
                DeleteRepoUser, InsertRepoGroup, DeleteRepoGroup, Changes
  <2>4. CASE Reconnect \/ UNCHANGED dbVars
    BY <2>4 DEF Reconnect, dbVars, tables, Changes
  <2>5. QED
    BY <2>1, <2>2, <2>3, <2>4 DEF DbNext
<1>2. QED
  BY <1>1, ChangesFinite DEF Finite

\* Nobody registers or is deleted while a page is made.
LEMMA UsersStay ==
  ASSUME Inv, [DbNext]_dbVars, users' = users,
         sqlite_sequence.users <= MaxId.users
  PROVE  sqlite_sequence'.users <= MaxId.users
<1>a. sqlite_sequence \in [AutoTables -> Nat] /\ MaxId.users \in Nat
  BY MaxIdAssumption DEF Inv, DbTypeOK, AutoTables
<1>1. CASE UserStatement
  BY <1>1, <1>a DEF UserStatement, InsertUser, AcceptsUser, SetAdmin, AutoTables
<1>2. CASE GroupStatement
  BY <1>2, <1>a DEF GroupStatement, InsertGroup, DeleteGroup, InsertGroupUser,
                    DeleteGroupUser, AutoTables
<1>3. CASE RepoStatement
  BY <1>3, <1>a DEF RepoStatement, InsertRepo, UpdateRepo, DeleteRepo, InsertRepoUser,
                    DeleteRepoUser, InsertRepoGroup, DeleteRepoGroup, AutoTables
<1>4. CASE Reconnect \/ UNCHANGED dbVars
  BY <1>4 DEF Reconnect, dbVars, tables
<1>5. QED
  BY <1>1, <1>2, <1>3, <1>4 DEF DbNext

\* A page writes nothing; what others do are statements of the database.
LEMMA PageReads ==
  ASSUME [ListingsNext]_listingVars
  PROVE  [DbNext]_dbVars /\ req' = req /\ users' = users
<1>1. CASE PageStep
  BY <1>1 DEF PageStep, Begin, ReposList, RepoGetInfo, ListRepoGroups, ListRepoUsers,
              GroupsList, GroupGetInfo, GroupListMembers, Answer, Fetch, dbVars, tables
<1>2. CASE Others
  BY <1>2 DEF Others, pageVars
<1>3. CASE UNCHANGED listingVars
  BY <1>3 DEF listingVars, pageVars, dbVars, tables
<1>4. QED
  BY <1>1, <1>2, <1>3 DEF ListingsNext

\* Every step keeps the tables in order, and the message.
LEMMA PageFrame ==
  ASSUME PInv, [ListingsNext]_listingVars
  PROVE  /\ Inv' /\ Finite' /\ req' = req
         /\ sqlite_sequence'.users <= MaxId.users /\ users' = InitialUsers
<1>1. [DbNext]_dbVars /\ req' = req /\ users' = users
  BY PageReads
<1>2. QED
  BY <1>1, StatementInv, FiniteStep, UsersStay DEF PInv

-----------------------------------------------------------------------------
(* The rows of a scan, their keys, and what they are in the answer. *)

LEMMA RequestTyped ==
  ASSUME PInv
  PROVE  req.id \in Nat /\ req.op \in Ops
BY ListingRequestsAssumption DEF PInv, PageOK, Message

LEMMA MemberOf ==
  ASSUME NEW m
  PROVE  m \in SelectedMembers <=>
           m \in groups_users /\ \E g \in Selected : m.group_id = g.group_id
BY DEF SelectedMembers, Members

LEMMA EntryOrdersKey ==
  ASSUME NEW x, NEW y, Entry(req, x) = Entry(req, y)
  PROVE  Key(req, x) = Key(req, y)
BY DEF Entry, Key

LEMMA AnswersAreScanned ==
  ASSUME req.op \in ScanOps
  PROVE  Answers = {Entry(req, x) : x \in Scanned}
<1>1. CASE req.op = "reposList"
  BY <1>1 DEF Answers, Entry, Scanned
<1>2. CASE req.op = "groupListMembers"
  <2>1. Answers = {m \in groups_users : \E g \in groups :
            /\ m.group_id = g.group_id
            /\ g.group_id = req.id \/ g.name = req.name}
    BY <1>2 DEF Answers
  <2>2. \A m : m \in Answers <=> m \in SelectedMembers
    BY <2>1, MemberOf DEF Selected
  <2>3. QED
    BY <1>2, <2>2 DEF Entry, Scanned
<1>3. QED
  BY <1>1, <1>2 DEF ScanOps

LEMMA ScannedTyped ==
  ASSUME PInv, NEW x \in Scanned
  PROVE  /\ x \in ScanType(req) /\ Key(req, x) \in Nat \ {0}
         /\ req.op # "reposList" =>
              /\ x.user_id \in 1 .. MaxId.users
              /\ Key(req, x) = IF x.group_id = req.id THEN x.user_id
                                                 ELSE MaxId.users + x.user_id
<1>a. MaxId.users \in Nat /\ req.id \in Nat
  BY MaxIdAssumption, RequestTyped DEF AutoTables
<1>1. CASE req.op = "reposList"
  BY <1>1, OrderAssumption DEF PInv, Inv, DbTypeOK, Repo, Scanned, ScanType, Key
<1>2. CASE req.op # "reposList"
  <2>1. x \in groups_users
    BY <1>2, MemberOf DEF Scanned
  <2>2. x \in GroupUser /\ x.user_id \in UserIds
    BY <2>1 DEF PInv, Inv, DbTypeOK, Integrity, ForeignKeys
  <2>3. sqlite_sequence.users \in Nat /\ sqlite_sequence.users <= MaxId.users
    BY DEF PInv, Inv, DbTypeOK, AutoTables
  <2>4. x.user_id \in 1 .. sqlite_sequence.users
    BY <2>2 DEF PInv, Inv, Integrity, IdsBelowSequence
  <2>5. x.user_id \in 1 .. MaxId.users
    BY <2>3, <2>4, <1>a
  <2>6. QED
    BY <1>a, <1>2, <2>2, <2>5 DEF ScanType, Key, ScanKey
<1>3. QED
  BY <1>1, <1>2

LEMMA Offsets ==
  ASSUME NEW n \in Nat, NEW i \in 1 .. n, NEW j \in 1 .. n
  PROVE  i # n + j /\ j # n + i /\ (n + i = n + j => i = j)
OBVIOUS

\* At any moment a key belongs to one row.
LEMMA KeyIsUnique ==
  ASSUME PInv, NEW x \in Scanned, NEW y \in Scanned, Key(req, x) = Key(req, y)
  PROVE  x = y
<1>1. CASE req.op = "reposList"
  BY <1>1 DEF PInv, Inv, Integrity, PrimaryKeys, Scanned, Key
<1>2. CASE req.op # "reposList"
  <2>a. MaxId.users \in Nat
    BY MaxIdAssumption DEF AutoTables
  <2>b. x.user_id \in 1 .. MaxId.users /\ y.user_id \in 1 .. MaxId.users
    BY <1>2, ScannedTyped
  <2>c. /\ Key(req, x) = IF x.group_id = req.id THEN x.user_id ELSE MaxId.users + x.user_id
        /\ Key(req, y) = IF y.group_id = req.id THEN y.user_id ELSE MaxId.users + y.user_id
    BY <1>2, ScannedTyped
  <2>d. /\ x.user_id # MaxId.users + y.user_id
        /\ y.user_id # MaxId.users + x.user_id
        /\ MaxId.users + x.user_id = MaxId.users + y.user_id => x.user_id = y.user_id
    BY <2>a, <2>b, Offsets
  <2>1. /\ x.user_id = y.user_id
        /\ x.group_id = req.id => y.group_id = req.id
        /\ y.group_id = req.id => x.group_id = req.id
    BY <2>c, <2>d, Zenon
  <2>2. PICK g \in Selected : x.group_id = g.group_id
    BY <1>2, MemberOf DEF Scanned
  <2>3. PICK h \in Selected : y.group_id = h.group_id
    BY <1>2, MemberOf DEF Scanned
  <2>4. x.group_id = y.group_id
    BY <2>1, <2>2, <2>3 DEF Selected, PInv, Inv, Integrity, PrimaryKeys
  <2>5. x \in groups_users /\ y \in groups_users
    BY <1>2, MemberOf DEF Scanned
  <2>6. QED
    BY <2>1, <2>4, <2>5 DEF PInv, Inv, Integrity, PrimaryKeys
<1>3. QED
  BY <1>1, <1>2

-----------------------------------------------------------------------------
(* The steps of a scan. *)

LEMMA WatchedStep ==
  ASSUME PInv, [ListingsNext]_listingVars
  PROVE  Watched'
<1>1. CASE at = "idle" /\ at' # "idle"
  <2>1. Begin /\ Record
    BY <1>1 DEF ListingsNext, Others, pageVars, listingVars, PageStep, ReposList, RepoGetInfo,
                ListRepoGroups, ListRepoUsers, GroupsList, GroupGetInfo, GroupListMembers
  <2>2. Answers' = Answers
    BY <2>1 DEF Begin, Answers, dbVars, tables
  <2>3. existed' = Answers /\ lasted' = Answers
    BY <1>1, <2>1 DEF Record
  <2>4. QED
    BY <2>2, <2>3 DEF Watched
<1>2. CASE at # "idle" /\ ListingsNext
  BY <1>2 DEF ListingsNext, Record, Watched
<1>3. CASE at' = "idle"
  BY <1>3 DEF Watched
<1>4. CASE UNCHANGED listingVars
  BY <1>4 DEF PInv, Watched, Answers, listingVars, pageVars, dbVars, tables
<1>5. QED
  BY <1>1, <1>2, <1>3, <1>4

\* A scan reads the row with the next key, or has none to read.
LEMMA ScanMoves ==
  ASSUME PInv, ReposList \/ GroupListMembers
  PROVE  /\ at = "scan" /\ req.op \in ScanOps
         /\ \/ \E x \in Scanned :
                 /\ Key(req, x) > cursor
                 /\ \A y \in Scanned : Key(req, y) > cursor => Key(req, x) <= Key(req, y)
                 /\ Fetch(Key(req, x), x)
            \/ /\ \A y \in Scanned : ~ (Key(req, y) > cursor)
               /\ Answer(rows, "kSucceed")
<1> DEFINE keys == {Key(req, y) : y \in Scanned}
<1>1. /\ at = "scan" /\ req.op \in ScanOps
      /\ \/ \E x \in Scanned : Key(req, x) \in NextKey(keys) /\ Fetch(Key(req, x), x)
         \/ NextKey(keys) = {} /\ Answer(rows, "kSucceed")
  <2>1. CASE ReposList
    BY <2>1 DEF ReposList, ScanOps, Scanned, Key
  <2>2. CASE GroupListMembers
    <3>1. req.op = "groupListMembers" /\ Scanned = SelectedMembers
      BY <2>2 DEF GroupListMembers, Scanned
    <3>2. \A m : Key(req, m) = ScanKey(m)
      BY <3>1 DEF Key, ScanKey
    <3>3. keys = {ScanKey(m) : m \in SelectedMembers}
      BY <3>1, <3>2
    <3>4. QED
      BY <2>2, <3>1, <3>2, <3>3 DEF GroupListMembers, ScanOps
  <2>3. QED
    BY <2>1, <2>2
<1>2. ASSUME NEW x \in Scanned, Key(req, x) \in NextKey(keys)
      PROVE  /\ Key(req, x) > cursor
             /\ \A y \in Scanned : Key(req, y) > cursor => Key(req, x) <= Key(req, y)
  BY <1>2 DEF NextKey
<1>3. ASSUME NextKey(keys) = {}, NEW z \in Scanned, Key(req, z) > cursor
      PROVE  FALSE
  <2> DEFINE T == {k \in keys : k > cursor}
  <2>1. T \in SUBSET Nat /\ T # {}
    BY <1>3, ScannedTyped
  <2>2. PICK k \in T : \A j \in T : k <= j
    BY <2>1, Smallest
  <2>3. k \in NextKey(keys)
    BY <2>2 DEF NextKey
  <2>4. QED
    BY <1>3, <2>3
<1>4. QED
  BY <1>1, <1>2, <1>3

PageInv == PageOK /\ ScanOK /\ HalfListed /\ ReposListed /\ MembersListed

LEMMA KeyTyped ==
  ASSUME PInv, NEW x \in ScanType(req)
  PROVE  Key(req, x) \in Nat /\ x \in AnyRow
<1>1. MaxId.users \in Nat
  BY MaxIdAssumption DEF AutoTables
<1>2. CASE req.op = "reposList"
  BY <1>2, OrderAssumption DEF ScanType, Repo, Key, AnyRow
<1>3. CASE req.op # "reposList"
  <2>1. x \in GroupUser /\ x.user_id \in Nat
    BY <1>3 DEF ScanType, GroupUser
  <2>2. QED
    BY <1>1, <1>3, <2>1 DEF Key, ScanKey, AnyRow
<1>4. QED
  BY <1>2, <1>3

\* The page's steps leave the tables, and so the answers, alone.
LEMMA SameTables ==
  ASSUME req' = req, UNCHANGED dbVars
  PROVE  Answers' = Answers /\ Scanned' = Scanned
BY DEF Answers, Scanned, SelectedMembers, Selected, Members, dbVars, tables

LEMMA FetchStep ==
  ASSUME PInv, Record, at = "scan", req.op \in ScanOps, NEW x \in Scanned, Key(req, x) > cursor,
         \A y \in Scanned : Key(req, y) > cursor => Key(req, x) <= Key(req, y),
         Fetch(Key(req, x), x)
  PROVE  PageInv'
<1> DEFINE n == Len(rows)
<1>a. at' = at /\ req' = req /\ status' = status /\ UNCHANGED dbVars /\ cursor' = Key(req, x)
  BY DEF Fetch
<1>b. /\ rows \in Seq(ScanType(req)) /\ x \in ScanType(req)
      /\ Key(req, x) \in Nat /\ cursor \in Nat /\ status = "none"
  BY ScannedTyped DEF PInv, PageOK, ScanOK
<1>c. /\ n \in Nat /\ rows' \in Seq(ScanType(req)) /\ Len(rows') = n + 1
      /\ rows'[n + 1] = x
      /\ \A k \in 1 .. n : rows'[k] = rows[k] /\ rows[k] \in ScanType(req)
  BY <1>b, AppendProperties, LenProperties, ElementOfSeq DEF Fetch
<1>d. Scanned' = Scanned /\ Answers' = Answers
  BY <1>a, SameTables
<1>e. /\ existed' = existed \cup Answers /\ lasted' = lasted \cap Answers
      /\ Answers = {Entry(req, y) : y \in Scanned}
  BY <1>d, AnswersAreScanned DEF Record
<1>f. /\ \A k, l \in 1 .. n : k < l => Key(req, rows[k]) < Key(req, rows[l])
      /\ \A k \in 1 .. n : Key(req, rows[k]) <= cursor /\ Entry(req, rows[k]) \in existed
      /\ \A p \in lasted :
           \/ \E k \in 1 .. n : Entry(req, rows[k]) = p
           \/ \A y \in Scanned : Entry(req, y) = p => Key(req, y) > cursor
  BY DEF PInv, ScanOK
<1>g. \A k \in 1 .. n : Key(req, rows[k]) \in Nat
  BY <1>c, KeyTyped
<1>1. PageOK'
  <2>1. rows' \in Seq(AnyRow)
    <3>1. \A k \in 1 .. Len(rows') : rows'[k] \in ScanType(req)
      BY <1>c, ElementOfSeq
    <3>2. \A k \in 1 .. Len(rows') : rows'[k] \in AnyRow
      BY <3>1, KeyTyped
    <3>3. rows' \in [1 .. Len(rows') -> AnyRow] /\ Len(rows') \in Nat
      BY <1>c, <3>2, LenProperties
    <3>4. QED
      BY <3>3, SeqDef
  <2>2. QED
    BY <1>a, <1>b, <2>1 DEF PInv, PageOK
<1>2. \A k, l \in 1 .. Len(rows') : k < l => Key(req, rows'[k]) < Key(req, rows'[l])
  <2>1. SUFFICES ASSUME NEW k \in 1 .. n + 1, NEW l \in 1 .. n + 1, k < l
                 PROVE  Key(req, rows'[k]) < Key(req, rows'[l])
    BY <1>c
  <2>2. k \in 1 .. n
    BY <2>1, <1>c
  <2>3. CASE l = n + 1
    <3>1. rows'[k] = rows[k] /\ rows'[l] = x
      BY <1>c, <2>2, <2>3
    <3>2. Key(req, rows[k]) <= cursor /\ Key(req, rows[k]) \in Nat
      BY <1>f, <1>g, <2>2
    <3>3. QED
      BY <1>b, <3>1, <3>2
  <2>4. CASE l # n + 1
    <3>1. l \in 1 .. n
      BY <2>1, <2>4, <1>c
    <3>2. QED
      BY <1>c, <1>f, <2>1, <2>2, <3>1
  <2>5. QED
    BY <2>3, <2>4
<1>3. \A k \in 1 .. Len(rows') :
        Key(req, rows'[k]) <= Key(req, x) /\ Entry(req, rows'[k]) \in existed'
  <2>1. SUFFICES ASSUME NEW k \in 1 .. n + 1
                 PROVE  Key(req, rows'[k]) <= Key(req, x) /\ Entry(req, rows'[k]) \in existed'
    BY <1>c
  <2>2. CASE k = n + 1
    BY <1>b, <1>c, <1>e, <2>2
  <2>3. CASE k # n + 1
    <3>1. k \in 1 .. n
      BY <1>c, <2>3
    <3>2. Key(req, rows[k]) <= cursor /\ Key(req, rows[k]) \in Nat /\ Entry(req, rows[k]) \in existed
      BY <1>f, <1>g, <3>1
    <3>3. rows'[k] = rows[k]
      BY <1>c, <3>1
    <3>4. Key(req, rows'[k]) <= Key(req, x)
      BY <1>b, <3>2, <3>3
    <3>5. QED
      BY <1>e, <3>2, <3>3, <3>4
  <2>4. QED
    BY <2>2, <2>3
<1>4. \A p \in lasted' :
        \/ \E k \in 1 .. Len(rows') : Entry(req, rows'[k]) = p
        \/ \A y \in Scanned : Entry(req, y) = p => Key(req, y) > Key(req, x)
  <2>1. SUFFICES ASSUME NEW p \in lasted, NEW y \in Scanned,
                        Entry(req, y) = p, ~ (Key(req, y) > Key(req, x))
                 PROVE  \E k \in 1 .. n + 1 : Entry(req, rows'[k]) = p
    BY <1>c, <1>e
  <2>2. CASE \E k \in 1 .. n : Entry(req, rows[k]) = p
    <3>1. PICK k \in 1 .. n : Entry(req, rows[k]) = p
      BY <2>2
    <3>2. k \in 1 .. n + 1
      BY <1>c
    <3>3. QED
      BY <1>c, <3>1, <3>2
  <2>3. CASE Key(req, y) > cursor
    <3>1. Key(req, y) = Key(req, x)
      <4>1. Key(req, x) <= Key(req, y) /\ Key(req, y) \in Nat
        BY <2>3, ScannedTyped
      <4>2. QED
        BY <1>b, <2>1, <4>1
    <3>2. y = x
      BY <3>1, KeyIsUnique
    <3>3. n + 1 \in 1 .. n + 1
      BY <1>c
    <3>4. QED
      BY <1>c, <2>1, <3>2, <3>3
  <2>4. QED
    BY <1>f, <2>1, <2>2, <2>3
<1>5. ScanOK'
  BY <1>a, <1>c, <1>d, <1>2, <1>3, <1>4 DEF ScanOK
<1>6. HalfListed' /\ ReposListed' /\ MembersListed'
  BY <1>a, <1>b DEF HalfListed, ReposListed, MembersListed, Shown
<1>7. QED
  BY <1>1, <1>5, <1>6 DEF PageInv

\* When no key is left in front of the cursor, the list is complete.
LEMMA EndScanStep ==
  ASSUME PInv, Record, at = "scan", req.op \in ScanOps,
         \A y \in Scanned : ~ (Key(req, y) > cursor),
         Answer(rows, "kSucceed")
  PROVE  PageInv'
<1>a. /\ at' = "idle" /\ req' = req /\ UNCHANGED dbVars
      /\ cursor' = 0 /\ rows' = rows /\ status' = "kSucceed"
  BY DEF Answer
<1>b. Answers' = Answers
  BY <1>a, SameTables
<1>c. existed' = existed \cup Answers /\ lasted' = lasted \cap Answers
  BY <1>b DEF Record
<1>d. /\ rows \in Seq(ScanType(req))
      /\ \A k, l \in 1 .. Len(rows) : k < l => Key(req, rows[k]) < Key(req, rows[l])
      /\ \A k \in 1 .. Len(rows) : Entry(req, rows[k]) \in existed
      /\ \A p \in lasted :
           \/ \E k \in 1 .. Len(rows) : Entry(req, rows[k]) = p
           \/ \A x \in Scanned : Entry(req, x) = p => Key(req, x) > cursor
  BY DEF PInv, ScanOK
<1>e. \A p \in lasted' : \E k \in 1 .. Len(rows) : Entry(req, rows[k]) = p
  BY <1>c, <1>d, AnswersAreScanned
<1>f. Len(rows) \in Nat /\ DOMAIN rows = 1 .. Len(rows)
  BY <1>d, LenProperties
<1>1. PageOK' /\ ScanOK' /\ HalfListed'
  BY <1>a, <1>d DEF PInv, PageOK, ScanOK, HalfListed
<1>2. ReposListed'
  <2>1. SUFFICES ASSUME req.op = "reposList"
                 PROVE  LET names == {<<r.repo_id, r.name>> : r \in {rows[k] : k \in DOMAIN rows}}
                        IN  lasted' \subseteq names /\ names \subseteq existed'
    BY <1>a DEF ReposListed, Shown, Listed
  <2>2. \A k \in 1 .. Len(rows) : Entry(req, rows[k]) = <<rows[k].repo_id, rows[k].name>>
    BY <2>1 DEF Entry
  <2>3. QED
    BY <1>c, <1>d, <1>e, <1>f, <2>2
<1>3. MembersListed'
  <2>1. SUFFICES ASSUME req.op # "reposList"
                 PROVE  LET list == {rows[k] : k \in DOMAIN rows} IN
                        /\ lasted' \subseteq list /\ list \subseteq existed'
                        /\ \A k, l \in DOMAIN MemberList :
                             k < l /\ SameMember(MemberList[k], MemberList[l]) =>
                               rows[k].group_id = req.id /\ rows[l].group_id # req.id
    BY <1>a DEF MembersListed, Shown, Listed, MemberList, PInv, PageOK, ScanOps
  <2>2. \A k \in 1 .. Len(rows) : Entry(req, rows[k]) = rows[k]
    BY <2>1 DEF Entry
  <2>3. ASSUME NEW k \in 1 .. Len(rows), NEW l \in 1 .. Len(rows), k < l,
               SameMember(Member(rows[k]), Member(rows[l]))
        PROVE  rows[k].group_id = req.id /\ rows[l].group_id # req.id
    <3>1. rows[k] \in GroupUser /\ rows[l] \in GroupUser
      BY <1>d, <2>1, ElementOfSeq DEF ScanType
    <3>2. rows[k].user_id = rows[l].user_id /\ rows[k].user_id \in Nat
      BY <2>3, <3>1, UserEntry DEF SameMember, GroupUser
    <3>3. Key(req, rows[k]) < Key(req, rows[l])
      BY <1>d, <2>3
    <3>4. MaxId.users \in Nat
      BY MaxIdAssumption DEF AutoTables
    <3>5. QED
      BY <2>1, <3>2, <3>3, <3>4 DEF Key
  <2>4. DOMAIN MemberList = 1 .. Len(rows)
    BY <1>f DEF MemberList
  <2>5. \A k \in 1 .. Len(rows) : MemberList[k] = Member(rows[k])
    BY <1>f DEF MemberList
  <2>6. QED
    BY <1>c, <1>d, <1>e, <1>f, <2>2, <2>3, <2>4, <2>5
<1>4. QED
  BY <1>1, <1>2, <1>3 DEF PageInv

-----------------------------------------------------------------------------
(* The other steps. *)

LEMMA BeginStep ==
  ASSUME PInv, Record, Begin
  PROVE  PageInv'
<1>a. /\ at = "idle" /\ rows' = <<>> /\ status' = "none"
      /\ req' = req /\ UNCHANGED dbVars
      /\ cursor' = cursor /\ cursor = 0
  BY DEF Begin, PInv, PageOK
<1>b. /\ at' \in {"scan", "groups", "info"}
      /\ at' = "scan" => req.op \in ScanOps
      /\ at' = "groups" => req.op = "repoListMembers"
      /\ at' = "info" => req.op \notin ScanOps \cup {"repoListMembers"}
  <2>1. CASE req.op \in ScanOps
    BY <2>1 DEF Begin, ScanOps
  <2>2. CASE req.op = "repoListMembers"
    BY <2>2 DEF Begin, ScanOps
  <2>3. CASE req.op \notin ScanOps \cup {"repoListMembers"}
    BY <2>3 DEF Begin, ScanOps
  <2>4. QED
    BY <2>1, <2>2, <2>3
<1>c. Len(<<>>) = 0 /\ <<>> \in Seq(ScanType(req)) /\ <<>> \in Seq(AnyRow)
  OBVIOUS
<1>1. PageOK'
  BY <1>a, <1>b, <1>c DEF PInv, PageOK
<1>2. ScanOK'
  <2>1. Scanned' = Scanned
    BY <1>a, SameTables
  <2>2. \A x \in Scanned : Key(req, x) > 0
    BY ScannedTyped
  <2>3. QED
    BY <1>a, <1>c, <2>1, <2>2 DEF ScanOK
<1>3. HalfListed' /\ ReposListed' /\ MembersListed'
  BY <1>a, <1>b DEF HalfListed, ReposListed, MembersListed, Shown
<1>4. QED
  BY <1>1, <1>2, <1>3 DEF PageInv

\* A page that is no scan and no list of members.
LEMMA AnswerStep ==
  ASSUME PInv, at = "info", NEW list \in Seq(AnyRow), NEW result \in {"kSucceed", "kNotFound"},
         Answer(list, result)
  PROVE  PageInv'
<1>1. req.op \notin ScanOps /\ req.op # "repoListMembers"
  BY DEF PInv, PageOK
<1>2. PageOK'
  BY DEF PInv, PageOK, Answer
<1>3. ScanOK' /\ HalfListed' /\ ReposListed' /\ MembersListed'
  BY <1>1 DEF Answer, ScanOK, HalfListed, ReposListed, MembersListed, Shown, ScanOps
<1>4. QED
  BY <1>2, <1>3 DEF PageInv

\* A group as a row of an answer; the members it counts are finitely many.
LEMMA AsRowTyped ==
  ASSUME PInv, NEW g \in groups, NEW S \in SUBSET groups_users
  PROVE  AsRow(g, Cardinality(S)) \in GroupRow /\ Cardinality(S) \in Nat
<1>1. IsFiniteSet(S)
  BY FS_Subset DEF PInv, Finite
<1>2. Cardinality(S) \in Nat
  BY <1>1, FS_CardinalityType
<1>3. QED
  BY <1>2 DEF PInv, Inv, DbTypeOK, Group, GroupRow, AsRow

LEMMA InfoStep ==
  ASSUME PInv, RepoGetInfo \/ GroupsList \/ GroupGetInfo
  PROVE  PageInv'
<1>1. CASE RepoGetInfo
  <2>1. \A r \in repos : <<r>> \in Seq(AnyRow)
    BY DEF PInv, Inv, DbTypeOK, AnyRow
  <2>2. <<>> \in Seq(AnyRow)
    OBVIOUS
  <2>3. QED
    BY <1>1, <2>1, <2>2, AnswerStep DEF RepoGetInfo
<1>2. CASE GroupsList
  <2> DEFINE row(g) == AsRow(g, Cardinality(Members(g)))
             list == {row(g) : g \in groups}
  <2>1. IsFiniteSet(list)
    <3>1. [g \in groups |-> row(g)] \in Surjection(groups, list)
      BY DEF Surjection
    <3>2. QED
      BY <3>1, FS_Surjection DEF PInv, Finite
  <2>2. SetToSeq(list) \in Seq(list)
    BY <2>1, SequenceOfSet
  <2>3. list \subseteq AnyRow
    BY AsRowTyped DEF Members, AnyRow
  <2>4. SetToSeq(list) \in Seq(AnyRow)
    BY <2>2, <2>3
  <2>5. QED
    BY <1>2, <2>4, AnswerStep DEF GroupsList
<1>3. CASE GroupGetInfo
  <2>1. SelectedMembers \in SUBSET groups_users
    BY MemberOf
  <2>2. \A g \in Selected : <<AsRow(g, Cardinality(SelectedMembers))>> \in Seq(AnyRow)
    BY <2>1, AsRowTyped DEF Selected, AnyRow
  <2>3. <<NoGroup>> \in Seq(AnyRow)
    BY DEF NoGroup, GroupRow, AnyRow
  <2>4. QED
    BY <1>3, <2>2, <2>3, AnswerStep DEF GroupGetInfo
<1>4. QED
  BY <1>1, <1>2, <1>3

LEMMA GroupRowsAreNotUserRows ==
  ASSUME NEW m \in RepoGroup
  PROVE  m \notin RepoUser
<1>1. DOMAIN m = {"repo_id", "group_id", "role_id"}
  BY DEF RepoGroup
<1>2. ASSUME m \in RepoUser
      PROVE  DOMAIN m = {"repo_id", "user_id", "role_id"}
  BY <1>2 DEF RepoUser
<1>3. QED
  BY <1>1, <1>2

\* The two statements of repoListMembers.
LEMMA RepoGroupsStep ==
  ASSUME PInv, Record, ListRepoGroups
  PROVE  PageInv'
<1> DEFINE S == {m \in repos_groups : m.repo_id = req.id}
<1>a. /\ at = "groups" /\ at' = "users" /\ req' = req /\ UNCHANGED dbVars
      /\ cursor' = cursor /\ status' = status /\ rows' = SetToSeq(S)
      /\ req.op = "repoListMembers" /\ cursor = 0 /\ status = "none"
  BY DEF ListRepoGroups, PInv, PageOK
<1>b. /\ Answers' = Answers
      /\ Answers = {m \in repos_groups \cup repos_users : m.repo_id = req.id}
  BY <1>a, SameTables DEF Answers
<1>c. existed' = existed \cup Answers /\ lasted' = lasted \cap Answers
  BY <1>a, <1>b DEF Record
<1>d. S \subseteq RepoGroup /\ IsFiniteSet(S)
  BY FS_Subset DEF PInv, Finite, Inv, DbTypeOK
<1>e. /\ SetToSeq(S) \in Seq(S)
      /\ \A k, l \in 1 .. Len(SetToSeq(S)) : SetToSeq(S)[k] = SetToSeq(S)[l] => k = l
      /\ \A k \in 1 .. Len(SetToSeq(S)) : SetToSeq(S)[k] \in S
      /\ \A m \in S : \E k \in 1 .. Len(SetToSeq(S)) : SetToSeq(S)[k] = m
  BY <1>d, SequenceOfSet
<1>1. rows' \in Seq(RepoGroup) /\ rows' \in Seq(AnyRow)
  BY <1>a, <1>d, <1>e DEF AnyRow
<1>2. PageOK'
  BY <1>a, <1>1 DEF PInv, PageOK
<1>3. HalfListed'
  <2>1. ASSUME NEW m \in lasted', m \in RepoGroup
        PROVE  m \in S
    BY <1>b, <1>c, <2>1, GroupRowsAreNotUserRows DEF PInv, Inv, DbTypeOK
  <2>2. S \subseteq existed'
    BY <1>b, <1>c
  <2>3. \A m, n \in S : m.group_id = n.group_id => m = n
    BY DEF PInv, Inv, Integrity, PrimaryKeys
  <2>4. \A k, l \in 1 .. Len(SetToSeq(S)) :
          SetToSeq(S)[k].group_id = SetToSeq(S)[l].group_id => k = l
    BY <1>e, <2>3
  <2>5. QED
    BY <1>a, <1>e, <1>1, <2>1, <2>2, <2>4 DEF HalfListed
<1>4. ScanOK' /\ ReposListed' /\ MembersListed'
  BY <1>a DEF ScanOK, ReposListed, MembersListed, Shown, ScanOps
<1>5. QED
  BY <1>2, <1>3, <1>4 DEF PageInv

LEMMA RepoUsersStep ==
  ASSUME PInv, Record, ListRepoUsers
  PROVE  PageInv'
<1> DEFINE S == {m \in repos_users : m.repo_id = req.id}
           s == SetToSeq(S)
           list == rows \o s
<1>a. /\ at = "users" /\ req.op = "repoListMembers"
      /\ at' = "idle" /\ req' = req /\ UNCHANGED dbVars
      /\ cursor' = 0 /\ status' = "kSucceed" /\ rows' = list
  BY DEF ListRepoUsers, Answer, PInv, PageOK
<1>b. /\ Answers' = Answers
      /\ Answers = {m \in repos_groups \cup repos_users : m.repo_id = req.id}
  BY <1>a, SameTables DEF Answers
<1>c. existed' = existed \cup Answers /\ lasted' = lasted \cap Answers
  BY <1>a, <1>b DEF Record
<1>d. S \subseteq RepoUser /\ IsFiniteSet(S)
  BY FS_Subset DEF PInv, Finite, Inv, DbTypeOK
<1>e. /\ s \in Seq(S)
      /\ \A k, l \in 1 .. Len(s) : s[k] = s[l] => k = l
      /\ \A k \in 1 .. Len(s) : s[k] \in S
      /\ \A m \in S : \E k \in 1 .. Len(s) : s[k] = m
  BY <1>d, SequenceOfSet
<1>f. /\ rows \in Seq(RepoGroup)
      /\ \A k, l \in 1 .. Len(rows) : rows[k].group_id = rows[l].group_id => k = l
      /\ \A k \in 1 .. Len(rows) : rows[k] \in existed /\ rows[k] \in RepoGroup
      /\ \A m \in lasted : m \in RepoGroup => \E k \in 1 .. Len(rows) : rows[k] = m
  BY <1>a, ElementOfSeq DEF PInv, HalfListed
<1>g. /\ Len(rows) \in Nat /\ Len(s) \in Nat
      /\ list \in Seq(AnyRow) /\ Len(list) = Len(rows) + Len(s)
      /\ \A k \in 1 .. Len(rows) : list[k] = rows[k]
      /\ \A k \in 1 .. Len(s) : list[Len(rows) + k] = s[k]
  <2>1. rows \in Seq(AnyRow) /\ s \in Seq(AnyRow)
    BY <1>d, <1>e, <1>f DEF AnyRow
  <2>2. Len(rows) \in Nat /\ Len(s) \in Nat
    BY <2>1, LenProperties
  <2>3. /\ list \in Seq(AnyRow) /\ Len(list) = Len(rows) + Len(s)
        /\ \A i \in 1 .. Len(rows) + Len(s) :
             list[i] = IF i <= Len(rows) THEN rows[i] ELSE s[i - Len(rows)]
    BY <2>1, ConcatProperties
  <2>4. QED
    BY <2>2, <2>3
<1>h. \A k \in 1 .. Len(list) :
        (k \in 1 .. Len(rows)) \/ \E j \in 1 .. Len(s) : k = Len(rows) + j
  <2>1. SUFFICES ASSUME NEW k \in 1 .. Len(list), k \notin 1 .. Len(rows)
                 PROVE  \E j \in 1 .. Len(s) : k = Len(rows) + j
    OBVIOUS
  <2>2. k - Len(rows) \in 1 .. Len(s) /\ k = Len(rows) + (k - Len(rows))
    BY <1>g, <2>1
  <2>3. QED
    BY <2>2
<1>i. \A k \in 1 .. Len(rows) : k \in 1 .. Len(list)
  BY <1>g
<1>j. \A j \in 1 .. Len(s) : Len(rows) + j \in 1 .. Len(list)
  BY <1>g
<1>1. ASSUME NEW k \in 1 .. Len(list), NEW l \in 1 .. Len(list),
             SameMember(Member(list[k]), Member(list[l]))
      PROVE  k = l
  <2>1. \A i \in 1 .. Len(rows) : /\ list[i] = rows[i]
                                  /\ Member(list[i]).list = "groups"
                                  /\ Member(list[i]).id = rows[i].group_id
    BY <1>f, <1>g, GroupEntry
  <2>2. \A j \in 1 .. Len(s) : s[j] \in S /\ s[j] \in RepoUser
    BY <1>d, <1>e
  <2>3. \A j \in 1 .. Len(s) : /\ Member(list[Len(rows) + j]).list = "users"
                               /\ Member(list[Len(rows) + j]).id = s[j].user_id
    BY <1>g, <2>2, UserEntry
  <2>4. CASE k \in 1 .. Len(rows) /\ l \in 1 .. Len(rows)
    BY <1>1, <1>f, <2>1, <2>4 DEF SameMember
  <2>5. CASE k \in 1 .. Len(rows) /\ l \notin 1 .. Len(rows)
    BY <1>1, <1>h, <2>1, <2>3, <2>5 DEF SameMember
  <2>6. CASE k \notin 1 .. Len(rows) /\ l \in 1 .. Len(rows)
    BY <1>1, <1>h, <2>1, <2>3, <2>6 DEF SameMember
  <2>7. CASE k \notin 1 .. Len(rows) /\ l \notin 1 .. Len(rows)
    <3>1. PICK j \in 1 .. Len(s) : k = Len(rows) + j
      BY <1>h, <2>7
    <3>2. PICK i \in 1 .. Len(s) : l = Len(rows) + i
      BY <1>h, <2>7
    <3>3. s[j].user_id = s[i].user_id
      BY <1>1, <2>3, <3>1, <3>2 DEF SameMember
    <3>4. s[j] = s[i]
      BY <2>2, <3>3 DEF PInv, Inv, Integrity, PrimaryKeys
    <3>5. QED
      BY <1>e, <3>1, <3>2, <3>4
  <2>8. QED
    BY <2>4, <2>5, <2>6, <2>7
<1>2. \A k \in 1 .. Len(list) : list[k] \in existed'
  <2>1. \A j \in 1 .. Len(s) : s[j] \in Answers
    BY <1>b, <1>e
  <2>2. SUFFICES ASSUME NEW k \in 1 .. Len(list)
                 PROVE  list[k] \in existed \cup Answers
    BY <1>c
  <2>3. CASE k \in 1 .. Len(rows)
    BY <1>f, <1>g, <2>3
  <2>4. CASE k \notin 1 .. Len(rows)
    <3>1. PICK j \in 1 .. Len(s) : k = Len(rows) + j
      BY <1>h, <2>4
    <3>2. list[k] = s[j]
      BY <1>g, <3>1
    <3>3. QED
      BY <2>1, <3>2
  <2>5. QED
    BY <2>3, <2>4
<1>3. \A m \in lasted' : \E k \in 1 .. Len(list) : list[k] = m
  <2>1. SUFFICES ASSUME NEW m \in lasted'
                 PROVE  \E k \in 1 .. Len(list) : list[k] = m
    OBVIOUS
  <2>2. m \in lasted /\ (m \in repos_groups \/ m \in S)
    BY <1>b, <1>c
  <2>3. CASE m \in repos_groups
    <3>1. m \in RepoGroup
      BY <2>3 DEF PInv, Inv, DbTypeOK
    <3>2. QED
      BY <1>f, <1>g, <1>i, <2>2, <3>1
  <2>4. CASE m \in S
    <3>1. PICK j \in 1 .. Len(s) : s[j] = m
      BY <1>e, <2>4
    <3>2. list[Len(rows) + j] = m
      BY <1>g, <3>1
    <3>3. QED
      BY <1>j, <3>2
  <2>5. QED
    BY <2>2, <2>3, <2>4
<1>4. MembersListed'
  <2>1. DOMAIN list = 1 .. Len(list)
    BY <1>g, LenProperties
  <2>2. rows' = list /\ Listed' = {list[k] : k \in DOMAIN list}
    BY <1>a DEF Listed
  <2>3. lasted' \subseteq Listed' /\ Listed' \subseteq existed'
    BY <1>2, <1>3, <2>1, <2>2
  <2>4. MemberList' = [k \in 1 .. Len(list) |-> Member(list[k])]
    BY <2>1, <2>2 DEF MemberList
  <2>5. \A k, l \in DOMAIN MemberList' :
          SameMember(MemberList'[k], MemberList'[l]) => k = l
    BY <1>1, <2>4
  <2>6. \A k, l \in DOMAIN MemberList' : k = l => ~ (k < l)
    BY <1>g, <2>4
  <2>7. QED
    BY <2>3, <2>5, <2>6 DEF MembersListed
<1>5. PageOK' /\ ScanOK' /\ HalfListed' /\ ReposListed'
  BY <1>a, <1>g DEF PInv, PageOK, ScanOK, HalfListed, ReposListed, Shown, ScanOps
<1>6. QED
  BY <1>4, <1>5 DEF PageInv

\* Statements of others: a row that stays keeps its key, and so its side of the cursor.
LEMMA OthersStep ==
  ASSUME PInv, Record, Others
  PROVE  PageInv'
<1>a. /\ at' = at /\ req' = req /\ cursor' = cursor /\ rows' = rows /\ status' = status
      /\ status = "none"
  BY DEF Others, pageVars
<1>b. /\ at # "idle" => existed \subseteq existed' /\ lasted' \subseteq lasted
      /\ lasted \subseteq Answers \/ at = "idle"
  BY <1>a DEF Record, PInv, Watched
<1>1. PageOK'
  BY <1>a DEF PInv, PageOK
<1>2. ScanOK'
  <2>1. CASE at = "scan"
    <3>1. req.op \in ScanOps
      BY <2>1 DEF PInv, PageOK
    <3>2. /\ rows \in Seq(ScanType(req))
          /\ \A k, l \in 1 .. Len(rows) : k < l => Key(req, rows[k]) < Key(req, rows[l])
          /\ \A k \in 1 .. Len(rows) :
               Key(req, rows[k]) <= cursor /\ Entry(req, rows[k]) \in existed
          /\ \A p \in lasted :
               \/ \E k \in 1 .. Len(rows) : Entry(req, rows[k]) = p
               \/ \A x \in Scanned : Entry(req, x) = p => Key(req, x) > cursor
      BY <2>1, <3>1 DEF PInv, ScanOK
    <3>3. ASSUME NEW p \in lasted', NEW y \in Scanned', Entry(req, y) = p,
                 ~ \E k \in 1 .. Len(rows) : Entry(req, rows[k]) = p
          PROVE  Key(req, y) > cursor
      <4>1. PICK x \in Scanned : Entry(req, x) = p
        BY <1>b, <2>1, <3>1, <3>3, AnswersAreScanned
      <4>2. Key(req, x) > cursor
        BY <1>b, <2>1, <3>2, <3>3, <4>1
      <4>3. Key(req, x) = Key(req, y)
        BY <3>3, <4>1, EntryOrdersKey
      <4>4. QED
        BY <4>2, <4>3
    <3>4. \A k \in 1 .. Len(rows) : Entry(req, rows[k]) \in existed'
      BY <1>b, <2>1, <3>2
    <3>5. QED
      BY <1>a, <3>2, <3>3, <3>4 DEF ScanOK
  <2>2. CASE at # "scan"
    BY <1>a, <2>2 DEF PInv, ScanOK
  <2>3. QED
    BY <2>1, <2>2
<1>3. HalfListed'
  BY <1>a, <1>b DEF PInv, HalfListed
<1>4. ReposListed' /\ MembersListed'
  BY <1>a DEF ReposListed, MembersListed, Shown
<1>5. QED
  BY <1>1, <1>2, <1>3, <1>4 DEF PageInv

-----------------------------------------------------------------------------
(* The invariant, and what follows from it. *)

LEMMA InitPages == ListingsInit => PInv
<1>1. SUFFICES ASSUME ListingsInit
               PROVE  PInv
  OBVIOUS
<1>2. Inv
  BY <1>1, InitInv DEF ListingsInit
<1>3. Finite
  BY <1>1, FS_EmptySet DEF ListingsInit, DbInit, Finite
<1>4. sqlite_sequence.users <= MaxId.users /\ users = InitialUsers
  BY <1>1, UsersFitAssumption DEF ListingsInit, DbInit, AutoTables
<1>5. PageOK /\ Watched /\ ScanOK /\ HalfListed /\ ReposListed /\ MembersListed
  BY <1>1 DEF ListingsInit, PageOK, Watched, ScanOK, HalfListed, ReposListed, MembersListed, Shown
<1>6. QED
  BY <1>2, <1>3, <1>4, <1>5 DEF PInv

LEMMA PagesKept == PInv /\ [ListingsNext]_listingVars => PInv'
<1>1. SUFFICES ASSUME PInv, [ListingsNext]_listingVars
               PROVE  PInv'
  OBVIOUS
<1>2. PageInv'
  <2>1. CASE ListingsNext /\ (ReposList \/ GroupListMembers)
    BY <1>1, <2>1, ScanMoves, FetchStep, EndScanStep DEF ListingsNext
  <2>2. CASE ListingsNext /\ (RepoGetInfo \/ GroupsList \/ GroupGetInfo)
    BY <1>1, <2>2, InfoStep
  <2>3. CASE ListingsNext /\ (Begin \/ ListRepoGroups \/ ListRepoUsers)
    BY <1>1, <2>3, BeginStep, RepoGroupsStep, RepoUsersStep DEF ListingsNext
  <2>4. CASE ListingsNext /\ Others
    BY <1>1, <2>4, OthersStep DEF ListingsNext
  <2>5. CASE UNCHANGED listingVars
    <3>1. UNCHANGED <<at, req, cursor, rows, status, existed, lasted>> /\ UNCHANGED dbVars
      BY <2>5 DEF listingVars, pageVars
    <3>2. Scanned' = Scanned
      BY <3>1, SameTables
    <3>3. QED
      BY <1>1, <3>1, <3>2 DEF PInv, PageInv, PageOK, ScanOK, HalfListed, ReposListed,
                              MembersListed, Shown, Listed, MemberList
  <2>6. QED
    BY <1>1, <2>1, <2>2, <2>3, <2>4, <2>5 DEF ListingsNext, PageStep
<1>3. QED
  BY <1>1, <1>2, PageFrame, WatchedStep DEF PInv, PageInv

(***************************************************************************)
(* The tables and the page stay well typed: counts of members are numbers, *)
(* and an answer holds rows of the kinds the pages show (service.cc:601-   *)
(* 680, 829-925).                                                          *)
(***************************************************************************)
THEOREM ListingsTyped == ListingsSpec => []ListingsTypeOK
<1>1. PInv => ListingsTypeOK
  BY DEF PInv, Inv, PageOK, ListingsTypeOK, AnyRow
<1>2. QED
  BY InitPages, PagesKept, <1>1, PTL DEF ListingsSpec

(***************************************************************************)
(* Whatever is renamed, inserted and deleted between two rows of the scan, *)
(* reposList lists each repository that keeps its name throughout, and     *)
(* none that never existed under its name meanwhile (service.cc:838-842).  *)
(***************************************************************************)
THEOREM ReposAreListed == ListingsSpec => []ReposListed
<1>1. PInv => ReposListed
  BY DEF PInv
<1>2. QED
  BY InitPages, PagesKept, <1>1, PTL DEF ListingsSpec

(***************************************************************************)
(* Each name is listed at most once, and in order, although the rows are   *)
(* read at different moments (service.cc:839).                             *)
(***************************************************************************)
THEOREM ReposAreInOrder == ListingsSpec => []ReposInOrder
<1>1. PInv => ReposInOrder
  BY DEF PInv, ScanOK, ScanOps, Key, ReposInOrder
<1>2. QED
  BY InitPages, PagesKept, <1>1, PTL DEF ListingsSpec

(***************************************************************************)
(* A page of members lists those who are members throughout, and nobody    *)
(* who was none meanwhile, also where a group of the name that was asked   *)
(* for is deleted and another created.  Nobody is listed twice, but by     *)
(* groupListMembers who is a member of the group of the id and of that of  *)
(* the name: once for each, never more (service.cc:664-672, 897-924).      *)
(***************************************************************************)
THEOREM MembersAreListed == ListingsSpec => []MembersListed
<1>1. PInv => MembersListed
  BY DEF PInv
<1>2. QED
  BY InitPages, PagesKept, <1>1, PTL DEF ListingsSpec

(***************************************************************************)
(* Pages only read: with everything others do meanwhile, what happens to   *)
(* the tables is a history of the database, whose theorems hold of it      *)
(* (every handler of service.cc:601-680 and 829-925 is a select).          *)
(***************************************************************************)
THEOREM PagesOnlyRead == ListingsSpec => DbSpec
<1>1. ListingsInit => DbInit
  BY DEF ListingsInit
<1>2. [ListingsNext]_listingVars => [DbNext]_dbVars
  BY PageReads
<1>3. QED
  BY <1>1, <1>2, PTL DEF ListingsSpec, DbSpec
=============================================================================
