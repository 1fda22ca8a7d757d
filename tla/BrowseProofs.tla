----------------------------- MODULE BrowseProofs -----------------------------
(***************************************************************************)
(* A page shows what its message names, for any graph of commits, any      *)
(* references and any 32-bit offset and limit, while pushes move the       *)
(* references under it and its repository may be removed.                  *)
(*                                                                         *)
(* The argument: what a page has found is a commit of the repository       *)
(* (commits are never taken away) that the revision named at some moment   *)
(* of the page; at every later step, either it still says so, or the       *)
(* message itself holds an id that is looked up next.                      *)
(***************************************************************************)
EXTENDS BrowseAudit, FiniteSetTheorems, SequenceTheorems, TLAPS

\* A reference points at a commit the repository has.
RefsOK == \A r \in Refs : refs[r] \in objects \cup {None}

\* What Record keeps of a page under way.
Kept ==
  at # "idle" =>
    /\ status = "none"
    /\ Meant \in meant /\ Named(req.revision_old) \in meantOld
    /\ Existing \subseteq existed /\ lasted \subseteq Existing

Found(c)    == c \in objects /\ c \in meant
FoundOld(c) == c \in objects /\ c \in meantOld

\* The step, and what the message asks for.
OpOK ==
  /\ at \in {"names", "list"} => req.op \in {"branches", "tags"}
  /\ at = "revision" /\ req.op = "log" => req.revision # None
  /\ at = "head" => req.op = "log" /\ req.revision = None
  /\ at = "commit" => req.op # "log"
  /\ at = "blob" => req.op = "blob"
  /\ at = "send" => req.op = "archive"
  /\ at \in {"old", "oldCommit"} => req.op = "patch" /\ req.revision_old # None
  /\ at = "parent" => req.op = "patch" /\ req.revision_old = None
  /\ at = "diff" => req.op = "patch"
  /\ at = "walk" => req.op = "log"
  /\ at \notin {"list", "walk"} => i = 0
  /\ at \notin {"idle", "list", "walk"} => items = <<>>

\* The commits the page works on.
CommitOK ==
  /\ at = "commit" => Found(oid) \/ (oid = req.revision /\ oid \in Ids)
  /\ at \in {"tree", "blob", "send", "old", "oldCommit", "parent", "diff"} => Found(oid)
  /\ at = "oldCommit" => FoundOld(base) \/ (base = req.revision_old /\ base \in Ids)
  /\ at = "diff" =>
       IF req.revision_old # None THEN FoundOld(base)
       ELSE base = IF Parents[oid] = <<>> THEN None ELSE Parents[oid][1]

\* A log has walked i commits, and shows those from `offset' on.
LogOK ==
  at = "walk" =>
    /\ oid = None \/ Found(oid)
    /\ i <= Len(Walk)
    /\ i = 0 \/ i <= (Limit + req.offset) % Modulus
    /\ dir = "whole" => /\ oid = None => None \in meant
                        /\ items = SubSeq(Walk, req.offset + 1, i)

\* A listing has passed some references, the rest are names.
ListedSoFar == {items[k] : k \in 1 .. Len(items)}

ListOK ==
  at = "list" =>
    /\ IsFiniteSet(ListedSoFar) /\ Cardinality(ListedSoFar) = Len(items)
    /\ ListedSoFar \cap names = {}
    /\ ListedSoFar \subseteq existed /\ names \subseteq existed
    /\ (dir = "whole" /\ (req.op = "branches" \/ existed = lasted)) =>
         lasted \subseteq ListedSoFar \cup names

Complete == dir = "whole" => complete

BInv ==
  /\ TypeOK /\ RefsOK /\ Kept /\ Complete
  /\ OpOK /\ CommitOK /\ LogOK /\ ListOK
  /\ ShowsWhatWasMeant /\ FailsForAReason /\ LogIsASlice /\ ListsReferences

-----------------------------------------------------------------------------
(* What the constants and the message are. *)

LEMMA Graph ==
  /\ \A c \in Commits : History[c] \in Seq(Commits) /\ c \in Ancestors(c)
  /\ \A c \in Commits : Ancestors(c) \subseteq Commits
  /\ \A c \in Commits : Parents[c] # <<>> => Parents[c][1] \in Commits
  /\ None \notin Refs \cup Ids
<1>1. \A c \in Commits : History[c] \in Seq(Commits) /\ c \in Ancestors(c)
  BY GraphAssumption
<1>2. \A c \in Commits : Ancestors(c) \subseteq Commits
  BY <1>1, ElementOfSeq DEF Ancestors
<1>3. ASSUME NEW c \in Commits, Parents[c] # <<>>
      PROVE  Parents[c][1] \in Commits
  <2>1. Parents[c] \in Seq(Commits)
    BY GraphAssumption
  <2>2. Len(Parents[c]) \in Nat \ {0}
    BY <1>3, <2>1, EmptySeq
  <2>3. 1 \in 1 .. Len(Parents[c])
    BY <2>2
  <2>4. QED
    BY <2>1, <2>3, ElementOfSeq
<1>4. QED
  BY <1>1, <1>2, <1>3, NamesAssumption

LEMMA MessageTyped ==
  ASSUME TypeOK
  PROVE  /\ req.revision \in Refs \cup Ids \cup {None}
         /\ req.revision_old \in Refs \cup Ids \cup {None}
         /\ req.offset \in Nat /\ req.offset < Modulus
         /\ Limit \in Nat \ {0} /\ Limit <= GitLogLimit
<1>1. req \in Message
  BY NamesAssumption DEF TypeOK
<1>2. /\ req.revision \in Refs \cup Ids \cup {None}
      /\ req.revision_old \in Refs \cup Ids \cup {None}
      /\ req.offset \in 0 .. Modulus - 1 /\ req.limit \in 0 .. Modulus - 1
  BY <1>1 DEF Message
<1>3. GitLogLimit \in Nat \ {0} /\ Modulus \in Nat
  BY LimitAssumption
<1>4. Limit \in Nat \ {0} /\ Limit <= GitLogLimit
  BY <1>2, <1>3 DEF Limit
<1>5. QED
  BY <1>2, <1>3, <1>4

-----------------------------------------------------------------------------
(* The repository: what pushes, deletions and a removal do to it. *)

LEMMA GitStep ==
  ASSUME TypeOK, RefsOK, Next
  PROVE  /\ dir' \in {"whole", "torn", "gone"}
         /\ refs' \in [Refs -> Commits \cup {None}]
         /\ objects' \subseteq Commits /\ objects \subseteq objects'
         /\ RefsOK'
         /\ dir' = "whole" => dir = "whole"
<1>0. /\ dir \in {"whole", "torn", "gone"}
      /\ refs \in [Refs -> Commits \cup {None}] /\ objects \subseteq Commits
  BY DEF TypeOK
<1>1. CASE ReceivePack
  <2>1. PICK p \in Pushes : /\ objects' = objects \cup Ancestors(p[2])
                           /\ refs' = [refs EXCEPT ![p[1]] = p[2]]
    BY <1>1 DEF ReceivePack
  <2>2. p[1] \in Refs /\ p[2] \in Commits
    BY NamesAssumption
  <2>3. p[2] \in Ancestors(p[2]) /\ Ancestors(p[2]) \subseteq Commits
    BY <2>2, Graph
  <2>4. QED
    BY <1>0, <1>1, <2>1, <2>2, <2>3 DEF ReceivePack, RefsOK
<1>2. CASE DeleteRef
  BY <1>0, <1>2 DEF DeleteRef, RefsOK
<1>3. CASE RemoveDir
  BY <1>0, <1>3 DEF RemoveDir, RefsOK
<1>4. CASE Begin \/ PageStep
  <2>1. UNCHANGED gitVars
    BY <1>4 DEF Begin, PageStep, Open, ReadNames, ListRefs, ResolveRevision, LookupCommit,
       LookupTree, LookupBlob, SendArchive, ResolveOld, LookupOld, LookupParent,
       MakePatch, PushHead, LogStep
  <2>2. QED
    BY <1>0, <2>1 DEF gitVars, RefsOK
<1>5. QED
  BY <1>1, <1>2, <1>3, <1>4 DEF Next

\* What a page found stays there, and the names it saw stay recorded.
LEMMA Recorded ==
  ASSUME BInv, Next, Record, at # "idle"
  PROVE  /\ meant \subseteq meant' /\ Meant' \in meant'
         /\ meantOld \subseteq meantOld' /\ Named(req.revision_old)' \in meantOld'
         /\ existed \subseteq existed' /\ Existing' \subseteq existed'
         /\ lasted' \subseteq lasted /\ lasted' \subseteq Existing'
         /\ \A c : Found(c) => Found(c)'
         /\ \A c : FoundOld(c) => FoundOld(c)'
<1>1. /\ meant' = meant \cup {Meant'}
      /\ meantOld' = meantOld \cup {Named(req.revision_old)'}
      /\ existed' = existed \cup Existing' /\ lasted' = lasted \cap Existing'
  BY DEF Record
<1>2. objects \subseteq objects'
  BY GitStep DEF BInv
<1>3. QED
  BY <1>1, <1>2 DEF Found, FoundOld

-----------------------------------------------------------------------------
(* Types. *)

PageTyped ==
  /\ at \in Steps /\ req \in Requests
  /\ oid \in Ids \cup {None} /\ base \in Ids \cup {None}
  /\ names \subseteq Refs
  /\ i \in 0 .. Modulus - 1
  /\ items \in Seq(Refs \cup Ids)
  /\ complete \in BOOLEAN
  /\ status \in Statuses

\* Whatever the end of a page is, its locals are gone.
LEMMA AnswerTyped ==
  ASSUME TypeOK, NEW result \in Statuses, Answer(result),
         items' \in Seq(Refs \cup Ids), complete' \in BOOLEAN
  PROVE  PageTyped'
BY LimitAssumption DEF TypeOK, Answer, PageTyped, Steps

LEMMA FailTyped ==
  ASSUME TypeOK, NEW result \in Statuses, Fail(result)
  PROVE  PageTyped'
<1>1. items' \in Seq(Refs \cup Ids) /\ complete' \in BOOLEAN
  BY DEF Fail, TypeOK
<1>2. QED
  BY <1>1, AnswerTyped DEF Fail

LEMMA ShowTyped ==
  ASSUME TypeOK, NEW list \in Seq(Refs \cup Ids), Show(list) \/ ShowFiles(list)
  PROVE  PageTyped'
<1>1. items' \in Seq(Refs \cup Ids) /\ complete' \in BOOLEAN /\ Answer("kSucceed")
  BY DEF Show, ShowFiles, TypeOK
<1>2. QED
  BY <1>1, AnswerTyped DEF Statuses

LEMMA GotoTyped ==
  ASSUME TypeOK, NEW step \in Steps, Goto(step), oid' \in Ids \cup {None}
  PROVE  PageTyped'
BY DEF TypeOK, Goto, PageTyped

\* A commit that was found is one, and so are its parents and its history.
LEMMA FoundIsCommit ==
  ASSUME TypeOK
  PROVE  /\ \A c : Found(c) \/ FoundOld(c) => c \in Commits
         /\ \A c \in Commits : c \in Ids /\ c # None
BY Graph DEF TypeOK, Found, FoundOld, Ids

LEMMA WalkTyped ==
  ASSUME TypeOK, LogOK, at = "walk"
  PROVE  /\ Walk \in Seq(Ids) /\ Len(Walk) \in Nat /\ Len(Walk) + GitLogLimit <= Modulus
         /\ \A k \in 1 .. Len(Walk) : Walk[k] \in Ids
<1>1. CASE oid = None
  BY <1>1, EmptySeq, LimitAssumption DEF Walk
<1>2. CASE oid # None
  <2>1. oid \in Commits
    BY <1>2, FoundIsCommit DEF LogOK
  <2>2. Walk = History[oid] /\ Walk \in Seq(Commits)
    BY <1>2, <2>1, Graph DEF Walk
  <2>3. Len(Walk) + GitLogLimit <= Modulus
    BY <2>1, <2>2, LimitAssumption
  <2>4. Walk \in Seq(Ids)
    BY <2>2, SeqMonotonic DEF Ids
  <2>5. QED
    BY <2>3, <2>4, LenProperties, ElementOfSeq
<1>3. QED
  BY <1>1, <1>2

\* A page stays where it is in the list of its steps, or goes on to the next.
LEMMA FieldsTyped ==
  ASSUME TypeOK
  PROVE  /\ at \in Steps /\ req \in Requests /\ oid \in Ids \cup {None}
         /\ base \in Ids \cup {None} /\ names \subseteq Refs /\ i \in Nat
         /\ items \in Seq(Refs \cup Ids) /\ complete \in BOOLEAN /\ status \in Statuses
         /\ objects \subseteq Ids /\ refs \in [Refs -> Ids \cup {None}]
         /\ oid \in Ids => <<oid>> \in Seq(Refs \cup Ids)
         /\ base \in Ids /\ oid \in Ids => <<base, oid>> \in Seq(Refs \cup Ids)
         /\ {"kSucceed", "kNotFound", "kInternalError"} \subseteq Statuses
<1>1. /\ objects \subseteq Ids /\ refs \in [Refs -> Ids \cup {None}]
  BY DEF TypeOK, Ids
<1>2. i \in Nat
  BY LimitAssumption DEF TypeOK
<1>3. /\ oid \in Ids => <<oid>> \in Seq(Refs \cup Ids)
      /\ base \in Ids /\ oid \in Ids => <<base, oid>> \in Seq(Refs \cup Ids)
  OBVIOUS
<1>4. QED
  BY <1>1, <1>2, <1>3 DEF TypeOK, Statuses

LEMMA LookupsTyped ==
  ASSUME BInv, Open \/ LookupCommit \/ LookupTree \/ LookupBlob \/ SendArchive
  PROVE  PageTyped'
<1>1. TypeOK /\ CommitOK
  BY DEF BInv
<1>2. CASE Open
  BY <1>1, <1>2, FieldsTyped, FailTyped, GotoTyped DEF Open, Steps
<1>3. CASE LookupCommit
  <2>1. CASE oid \in objects /\ req.op = "commit" /\ Show(<<oid>>)
    BY <1>1, <2>1, FieldsTyped, ShowTyped
  <2>2. CASE Goto("tree") /\ UNCHANGED oid
    BY <1>1, <2>2, FieldsTyped, GotoTyped DEF Steps
  <2>3. CASE Fail("kNotFound")
    BY <1>1, <2>3, FieldsTyped, FailTyped
  <2>4. QED
    BY <1>3, <2>1, <2>2, <2>3 DEF LookupCommit
<1>4. CASE LookupTree \/ LookupBlob \/ SendArchive
  <2>1. Found(oid) /\ oid \in Ids
    BY <1>1, <1>4, FieldsTyped DEF CommitOK, LookupTree, LookupBlob, SendArchive, Found
  <2>2. CASE Show(<<oid>>) \/ ShowFiles(<<oid>>)
    BY <1>1, <2>1, <2>2, FieldsTyped, ShowTyped
  <2>3. CASE Fail("kNotFound")
    BY <1>1, <2>3, FieldsTyped, FailTyped
  <2>4. CASE (\E step \in Steps : Goto(step)) /\ UNCHANGED oid
    BY <1>1, <2>1, <2>4, GotoTyped
  <2>5. QED
    BY <1>4, <2>2, <2>3, <2>4 DEF LookupTree, LookupBlob, SendArchive, Steps
<1>5. QED
  BY <1>2, <1>3, <1>4

LEMMA ResolveTyped ==
  ASSUME BInv, ResolveRevision \/ PushHead
  PROVE  PageTyped'
<1>1. TypeOK
  BY DEF BInv
<1>2. \A id : Push(id) => oid' \in Ids \cup {None}
  BY <1>1, FieldsTyped DEF Push
<1>3. CASE PushHead
  BY <1>1, <1>2, <1>3, GotoTyped DEF PushHead, Steps
<1>4. CASE ResolveRevision
  <2>1. CASE \E id \in Ids : oid' = id /\ Goto("commit")
    BY <1>1, <2>1, GotoTyped DEF Steps
  <2>2. CASE \E id \in Ids : Push(id) /\ Goto("walk")
    BY <1>1, <1>2, <2>2, GotoTyped DEF Steps
  <2>3. CASE Fail("kNotFound")
    BY <1>1, <2>3, FieldsTyped, FailTyped
  <2>4. QED
    BY <1>4, <2>1, <2>2, <2>3 DEF ResolveRevision
<1>5. QED
  BY <1>3, <1>4

LEMMA PatchTyped ==
  ASSUME BInv, ResolveOld \/ LookupOld \/ LookupParent \/ MakePatch
  PROVE  PageTyped'
<1>1. TypeOK /\ CommitOK
  BY DEF BInv
<1>2. Found(oid) /\ oid \in Ids /\ oid \in Commits
  BY <1>1, FoundIsCommit DEF CommitOK, ResolveOld, LookupOld, LookupParent, MakePatch
<1>3. CASE Fail("kNotFound") \/ Fail("kInternalError")
  BY <1>1, <1>3, FieldsTyped, FailTyped
<1>4. ASSUME base' \in Ids \cup {None}, at' \in {"oldCommit", "diff"},
             UNCHANGED <<req, oid, names, i, items, complete, status>>
      PROVE  PageTyped'
  BY <1>1, <1>4 DEF TypeOK, PageTyped, Steps
<1>5. CASE LookupOld
  BY <1>1, <1>2, <1>3, <1>5, GotoTyped DEF LookupOld, Steps
<1>6. CASE ResolveOld
  BY <1>3, <1>4, <1>6 DEF ResolveOld
<1>7. CASE LookupParent
  <2>1. (IF Parents[oid] = <<>> THEN None ELSE Parents[oid][1]) \in Ids \cup {None}
    BY <1>2, Graph DEF Ids
  <2>2. QED
    BY <1>3, <1>4, <1>7, <2>1 DEF LookupParent
<1>8. CASE MakePatch
  <2>1. <<oid>> \in Seq(Refs \cup Ids) /\ base # None => <<base, oid>> \in Seq(Refs \cup Ids)
    BY <1>1, <1>2, FieldsTyped
  <2>2. <<oid>> \in Seq(Refs \cup Ids)
    BY <1>2
  <2>3. QED
    BY <1>1, <1>3, <1>8, <2>1, <2>2, FieldsTyped, ShowTyped DEF MakePatch
<1>9. QED
  BY <1>5, <1>6, <1>7, <1>8

LEMMA ListTyped ==
  ASSUME BInv, ReadNames \/ ListRefs
  PROVE  PageTyped'
<1>1. TypeOK
  BY DEF BInv
<1>2. CASE ReadNames
  BY <1>1, <1>2 DEF ReadNames, Listed, Refs, TypeOK, PageTyped, Steps
<1>3. CASE Show(items)
  BY <1>1, <1>3, FieldsTyped, ShowTyped
<1>4. ASSUME NEW r \in names, names' = names \ {r},
             items' = Append(items, r) \/ UNCHANGED items,
             UNCHANGED <<at, req, oid, base, i, complete, status>>
      PROVE  PageTyped'
  <2>1. items' \in Seq(Refs \cup Ids)
    BY <1>1, <1>4, FieldsTyped, AppendProperties
  <2>2. QED
    BY <1>1, <1>4, <2>1 DEF TypeOK, PageTyped
<1>5. QED
  BY <1>2, <1>3, <1>4 DEF ListRefs

LEMMA LogTyped ==
  ASSUME BInv, LogStep
  PROVE  PageTyped'
<1>1. TypeOK /\ LogOK /\ at = "walk"
  BY DEF BInv, LogStep
<1>2. CASE Show(items)
  BY <1>1, <1>2, FieldsTyped, ShowTyped
<1>3. ASSUME MoreLog, i' = i + 1, items' = Append(items, Walk[i + 1]) \/ UNCHANGED items,
             UNCHANGED <<at, req, oid, base, names, complete, status>>
      PROVE  PageTyped'
  <2>1. i \in Nat /\ i + 1 \in 1 .. Len(Walk) /\ i + 1 <= Modulus - 1
    BY <1>1, <1>3, FieldsTyped, WalkTyped, LimitAssumption DEF MoreLog
  <2>2. items' \in Seq(Refs \cup Ids)
    <3>1. Walk[i + 1] \in Refs \cup Ids
      BY <1>1, <2>1, WalkTyped
    <3>2. items \in Seq(Refs \cup Ids)
      BY <1>1, FieldsTyped
    <3>3. Append(items, Walk[i + 1]) \in Seq(Refs \cup Ids)
      BY <3>1, <3>2, AppendProperties
    <3>4. QED
      BY <1>3, <3>2, <3>3
  <2>3. i' \in 0 .. Modulus - 1
    BY <1>3, <2>1, LimitAssumption
  <2>4. QED
    BY <1>1, <1>3, <2>2, <2>3 DEF TypeOK, PageTyped
<1>4. QED
  BY <1>2, <1>3 DEF LogStep

LEMMA StepTyped ==
  ASSUME BInv, Next
  PROVE  TypeOK'
<1>1. TypeOK /\ RefsOK
  BY DEF BInv
<1>2. PageTyped'
  <2>1. CASE Begin
    BY <1>1, <2>1, EmptySeq DEF Begin, TypeOK, PageTyped, Steps, Statuses
  <2>2. CASE PageStep
    BY <2>2, LookupsTyped, ResolveTyped, PatchTyped, ListTyped, LogTyped DEF PageStep
  <2>3. CASE ReceivePack \/ DeleteRef \/ RemoveDir
    <3>1. UNCHANGED pageVars
      BY <2>3 DEF ReceivePack, DeleteRef, RemoveDir
    <3>2. QED
      BY <1>1, <3>1 DEF pageVars, TypeOK, PageTyped
  <2>4. QED
    BY <2>1, <2>2, <2>3 DEF Next
<1>3. QED
  BY <1>1, <1>2, GitStep DEF TypeOK, PageTyped

-----------------------------------------------------------------------------
(* Steps of any page: it goes on, fails or shows; another one begins. *)

Judged == ShowsWhatWasMeant /\ FailsForAReason /\ LogIsASlice /\ ListsReferences

LEMMA Unanswered ==
  ASSUME status' = "none", Complete'
  PROVE  Judged'
<1>1. \A op : ~ Shown(op)'
  BY DEF Shown
<1>2. QED
  BY <1>1 DEF Judged, ShowsWhatWasMeant, FailsForAReason, LogIsASlice, ListsReferences,
     Complete

LEMMA CompleteStays ==
  ASSUME BInv, Next, complete' = complete
  PROVE  Complete'
BY GitStep DEF BInv, Complete

LEMMA GoesOn ==
  ASSUME BInv, Next, Record, at # "idle", at' # "idle",
         UNCHANGED <<req, status, complete>>,
         OpOK', CommitOK', LogOK', ListOK'
  PROVE  BInv'
<1>1. TypeOK' /\ RefsOK' /\ Complete'
  BY StepTyped, GitStep, CompleteStays DEF BInv
<1>2. status' = "none"
  BY DEF BInv, Kept
<1>3. Kept'
  BY <1>2, Recorded DEF Kept
<1>4. Judged'
  BY <1>1, <1>2, Unanswered
<1>5. QED
  BY <1>1, <1>3, <1>4 DEF BInv, Judged

LEMMA Answered ==
  ASSUME BInv, Next, Record, NEW result, Answer(result), Judged', Complete'
  PROVE  BInv'
<1>1. TypeOK' /\ RefsOK'
  BY StepTyped, GitStep DEF BInv
<1>2. at' = "idle" /\ i' = 0
  BY DEF Answer
<1>3. Kept' /\ OpOK' /\ CommitOK' /\ LogOK' /\ ListOK'
  BY <1>2 DEF Kept, OpOK, CommitOK, LogOK, ListOK
<1>4. QED
  BY <1>1, <1>3 DEF BInv, Judged

Reason ==
  \/ None \in meant
  \/ req.op = "patch" /\ req.revision_old # None /\ None \in meantOld
  \/ req.op = "tree" /\ \E c \in meant : req.path \notin Dirs[c] \cup {Root}
  \/ req.op = "blob" /\ \E c \in meant : req.path \notin Files[c]

LEMMA FailKeeps ==
  ASSUME BInv, Next, Record, at # "idle",
         NEW result \in {"kNotFound", "kInternalError"}, Fail(result),
         dir = "whole" => result = "kNotFound" /\ Reason
  PROVE  BInv'
<1>1. status' = result /\ req' = req /\ complete' = complete /\ Answer(result)
  BY DEF Fail, Answer
<1>2. \A op : ~ Shown(op)'
  BY <1>1 DEF Shown
<1>3. Complete'
  BY <1>1, CompleteStays
<1>4. Reason => Reason'
  BY <1>1, Recorded DEF Reason
<1>5. dir' = "whole" => dir = "whole"
  BY GitStep DEF BInv
<1>6. FailsForAReason'
  BY <1>1, <1>4, <1>5 DEF FailsForAReason, Reason
<1>7. Judged'
  BY <1>2, <1>3, <1>6
  DEF Judged, ShowsWhatWasMeant, LogIsASlice, ListsReferences, Complete
<1>8. QED
  BY <1>1, <1>3, <1>7, Answered

\* A page that succeeds has no reason to give.
LEMMA ShowKeeps ==
  ASSUME BInv, Next, Record, Answer("kSucceed"), Complete',
         ShowsWhatWasMeant', LogIsASlice', ListsReferences'
  PROVE  BInv'
<1>1. FailsForAReason'
  BY DEF Answer, FailsForAReason
<1>2. QED
  BY <1>1, Answered DEF Judged

LEMMA BeginKeeps ==
  ASSUME BInv, Next, Record, Begin
  PROVE  BInv'
<1>1. /\ at = "idle" /\ at' = "open" /\ items' = <<>> /\ complete' = TRUE /\ status' = "none"
      /\ i' = i
  BY DEF Begin
<1>2. TypeOK' /\ RefsOK' /\ Complete'
  BY <1>1, StepTyped, GitStep DEF BInv, Complete
<1>3. /\ meant' = {Meant'} /\ meantOld' = {Named(req.revision_old)'}
      /\ existed' = Existing' /\ lasted' = Existing'
  BY <1>1 DEF Record
<1>4. Kept'
  BY <1>1, <1>3 DEF Kept
<1>5. OpOK' /\ CommitOK' /\ LogOK' /\ ListOK'
  BY <1>1 DEF BInv, OpOK, CommitOK, LogOK, ListOK
<1>6. Judged'
  BY <1>1, <1>2, Unanswered
<1>7. QED
  BY <1>2, <1>4, <1>5, <1>6 DEF BInv, Judged

\* What others do to the repository while a page reads it, or none does.
LEMMA GitKeeps ==
  ASSUME BInv, Next, Record, UNCHANGED pageVars
  PROVE  BInv'
<1>1. UNCHANGED <<at, req, oid, base, names, i, items, complete, status>>
  BY DEF pageVars
<1>2. dir' = "whole" => dir = "whole"
  BY GitStep DEF BInv
<1>3. OpOK'
  BY <1>1 DEF BInv, OpOK
<1>4. CASE at = "idle"
  <2>1. UNCHANGED <<meant, meantOld, existed, lasted>>
    BY <1>1, <1>4 DEF Record
  <2>2. TypeOK' /\ RefsOK' /\ Complete'
    BY <1>1, StepTyped, GitStep, CompleteStays DEF BInv
  <2>3. Kept' /\ CommitOK' /\ LogOK' /\ ListOK'
    BY <1>1, <1>4 DEF Kept, CommitOK, LogOK, ListOK
  <2>4. (\A op : Shown(op)' = Shown(op)) /\ \A list : Slice(list)' = Slice(list)
    BY <1>1 DEF Shown, Slice, Limit
  <2>5. ShowsWhatWasMeant' /\ FailsForAReason'
    BY <1>1, <1>2, <2>1, <2>4 DEF BInv, ShowsWhatWasMeant, FailsForAReason
  <2>6. LogIsASlice' /\ ListsReferences'
    BY <1>1, <1>2, <2>1, <2>4 DEF BInv, LogIsASlice, ListsReferences
  <2>7. QED
    BY <1>3, <2>2, <2>3, <2>5, <2>6 DEF BInv
<1>5. CASE at # "idle"
  <2>1. CommitOK'
    BY <1>1, <1>5, Recorded DEF BInv, CommitOK
  <2>2. Walk' = Walk /\ Limit' = Limit
    BY <1>1 DEF Walk, Limit
  <2>3. LogOK'
    BY <1>1, <1>2, <1>5, <2>2, Recorded DEF BInv, LogOK
  <2>4. ListOK'
    BY <1>1, <1>2, <1>5, Recorded DEF BInv, Kept, ListOK, ListedSoFar
  <2>5. QED
    BY <1>1, <1>3, <1>5, <2>1, <2>3, <2>4, GoesOn
<1>6. QED
  BY <1>4, <1>5

-----------------------------------------------------------------------------
(* One commit: the revision, then what it leads to. *)

LEMMA OpenKeeps ==
  ASSUME BInv, Next, Record, Open
  PROVE  BInv'
<1>1. at = "open" /\ i = 0 /\ items = <<>>
  BY DEF Open, BInv, OpOK
<1>2. CASE dir # "whole"
           /\ Fail(IF req.op = "archive" THEN "kNotFound" ELSE "kInternalError")
  BY <1>1, <1>2, FailKeeps
<1>3. CASE Goto(CASE req.op \in {"branches", "tags"} -> "names"
                  [] req.op = "log" /\ req.revision = None -> "head"
                  [] OTHER -> "revision")
  <2>1. /\ \/ at' = "names" /\ req.op \in {"branches", "tags"}
           \/ at' = "head" /\ req.op = "log" /\ req.revision = None
           \/ at' = "revision" /\ (req.op = "log" => req.revision # None)
        /\ UNCHANGED <<req, i, items, complete, status>>
    BY <1>3 DEF Goto
  <2>2. OpOK' /\ CommitOK' /\ LogOK' /\ ListOK'
    BY <1>1, <2>1 DEF OpOK, CommitOK, LogOK, ListOK
  <2>3. QED
    BY <1>1, <2>1, <2>2, GoesOn
<1>4. QED
  BY <1>2, <1>3 DEF Open

\* A revision that does not resolve names nothing at this moment.
LEMMA Unresolved ==
  ASSUME BInv, NEW rev \in Refs \cup Ids \cup {None}, ~ Exists(rev)
  PROVE  Named(rev) = None
BY DEF Exists, Named, BInv, RefsOK

\* One that does names its commit, or is the id of what is looked up next.
LEMMA Resolved ==
  ASSUME BInv, NEW rev, NEW id \in Ids, Resolves(rev, id)
  PROVE  /\ id \in objects => Named(rev) = id
         /\ id \notin objects => Named(rev) = None
         /\ id \in objects \/ (id = rev /\ rev \in Ids)
<1>1. CASE rev \in Refs
  <2>1. refs[rev] = id /\ id # None
    BY <1>1, Graph DEF Resolves
  <2>2. id \in objects
    BY <1>1, <2>1 DEF BInv, RefsOK
  <2>3. QED
    BY <1>1, <2>1, <2>2 DEF Named
<1>2. CASE rev \notin Refs
  BY <1>2 DEF Resolves, Named
<1>3. QED
  BY <1>1, <1>2

LEMMA LogStarts ==
  ASSUME BInv, Next, i' = 0, items' = <<>>, UNCHANGED req,
         oid' = None \/ Found(oid)',
         dir' = "whole" /\ oid' = None => None \in meant'
  PROVE  LogOK'
<1>1. TypeOK' /\ req.offset \in Nat
  BY StepTyped, MessageTyped DEF BInv
<1>2. Walk' \in Seq(Commits)
  <2>1. CASE oid' = None
    BY <2>1, EmptySeq DEF Walk
  <2>2. CASE oid' # None
    <3>1. oid' \in Commits
      BY <1>1, <2>2 DEF Found, TypeOK
    <3>2. QED
      BY <2>2, <3>1, Graph DEF Walk
  <2>3. QED
    BY <2>1, <2>2
<1>3. Len(Walk') \in Nat
  BY <1>2, LenProperties
<1>4. SubSeq(Walk', req'.offset + 1, i') = <<>>
  <2>1. SubSeq(Walk', req.offset + 1, 0) = <<>>
    BY <1>1, SubSeqEmpty
  <2>2. QED
    BY <2>1
<1>5. i' <= Len(Walk')
  BY <1>3
<1>6. QED
  BY <1>4, <1>5, Zenon DEF LogOK

LEMMA ResolveKeeps ==
  ASSUME BInv, Next, Record, ResolveRevision
  PROVE  BInv'
<1>1. /\ at = "revision" /\ i = 0 /\ items = <<>> /\ Meant = Named(req.revision)
      /\ Meant \in meant /\ UNCHANGED gitVars
  BY DEF ResolveRevision, BInv, OpOK, Meant, Kept
<1>2. UNCHANGED <<dir, refs, objects>>
  BY <1>1 DEF gitVars
<1>3. ASSUME NEW id \in Ids, Resolves(req.revision, id), req.op # "log",
             oid' = id, Goto("commit")
      PROVE  BInv'
  <2>1. at' = "commit" /\ UNCHANGED <<req, i, items, complete, status>>
    BY <1>3 DEF Goto
  <2>2. Found(id) \/ (id = req.revision /\ id \in Ids)
    BY <1>1, <1>3, Resolved DEF Found
  <2>3. Found(id) => Found(id)'
    BY <1>1, Recorded
  <2>4. CommitOK'
    BY <1>3, <2>1, <2>2, <2>3 DEF CommitOK, Found
  <2>5. OpOK' /\ LogOK' /\ ListOK'
    BY <1>1, <1>3, <2>1 DEF OpOK, LogOK, ListOK
  <2>6. QED
    BY <1>1, <2>1, <2>4, <2>5, GoesOn
<1>4. ASSUME NEW id \in Ids, Resolves(req.revision, id), req.op = "log",
             Push(id), Goto("walk")
      PROVE  BInv'
  <2>1. at' = "walk" /\ UNCHANGED <<req, i, items, complete, status>>
    BY <1>4 DEF Goto
  <2>2. \/ oid' = id /\ Found(id)
        \/ oid' = None /\ (dir = "whole" => None \in meant)
    BY <1>1, <1>4, Resolved DEF Push, Misses, Found
  <2>3. /\ oid' = None \/ Found(oid)'
        /\ dir' = "whole" /\ oid' = None => None \in meant'
    <3>1. Found(id) => Found(id)'
      BY <1>1, Recorded
    <3>2. id # None
      BY Graph
    <3>3. QED
      BY <1>1, <1>2, <2>2, <3>1, <3>2, Recorded DEF Found
  <2>4. LogOK'
    BY <1>1, <2>1, <2>3, LogStarts
  <2>5. OpOK' /\ CommitOK' /\ ListOK'
    BY <1>1, <1>4, <2>1 DEF OpOK, CommitOK, ListOK
  <2>6. QED
    BY <1>1, <2>1, <2>4, <2>5, GoesOn
<1>5. CASE Misses(Exists(req.revision)) /\ Fail("kNotFound")
  <2>1. dir = "whole" => Meant = None
    BY <1>1, <1>5, Unresolved, MessageTyped DEF Misses, BInv
  <2>2. QED
    BY <1>1, <1>5, <2>1, FailKeeps DEF Reason
<1>6. QED
  BY <1>3, <1>4, <1>5 DEF ResolveRevision

LEMMA HeadKeeps ==
  ASSUME BInv, Next, Record, PushHead
  PROVE  BInv'
<1>1. /\ at = "head" /\ i = 0 /\ items = <<>> /\ Meant = refs[HeadBranch] /\ req.op = "log"
      /\ Meant \in meant /\ UNCHANGED gitVars
      /\ at' = "walk" /\ UNCHANGED <<req, i, items, complete, status>>
  BY DEF PushHead, BInv, OpOK, Meant, Kept, Goto
<1>2. UNCHANGED <<dir, refs, objects>>
  BY <1>1 DEF gitVars
<1>3. refs[HeadBranch] \in objects \cup {None}
  BY NamesAssumption DEF BInv, RefsOK, Refs
<1>4. \/ oid' = Meant /\ Found(Meant)
      \/ oid' = None /\ (dir = "whole" => None \in meant)
  BY <1>1, <1>3 DEF PushHead, Push, Misses, Found
<1>5. /\ oid' = None \/ Found(oid)'
      /\ dir' = "whole" /\ oid' = None => None \in meant'
  BY <1>1, <1>2, <1>4, Recorded DEF Found
<1>6. LogOK'
  BY <1>1, <1>5, LogStarts
<1>7. OpOK' /\ CommitOK' /\ ListOK'
  BY <1>1 DEF OpOK, CommitOK, ListOK
<1>8. QED
  BY <1>1, <1>6, <1>7, GoesOn

\* A page that shows the commit it found.
LEMMA OneShown ==
  ASSUME BInv, Next, Record, at # "idle", Found(oid),
         req.op \in {"commit", "tree", "blob", "archive"},
         req.op = "tree" => req.path \in Dirs[oid] \cup {Root},
         req.op = "blob" => req.path \in Files[oid],
         Show(<<oid>>) \/ ShowFiles(<<oid>>)
  PROVE  BInv'
<1>1. /\ req' = req /\ items' = <<oid>> /\ Answer("kSucceed")
      /\ complete' = complete \/ complete' = TRUE \/ dir # "whole"
  BY DEF Show, ShowFiles, Answer
<1>2. Complete'
  <2>1. CASE complete' = complete
    BY <2>1, CompleteStays
  <2>2. CASE complete' = TRUE
    BY <2>2 DEF Complete
  <2>3. CASE dir # "whole"
    BY <2>3, GitStep DEF BInv, Complete
  <2>4. QED
    BY <1>1, <2>1, <2>2, <2>3
<1>3. oid \in meant' /\ oid # None
  BY Recorded, FoundIsCommit DEF Found, BInv
<1>4. Len(items') = 1 /\ items'[1] = oid
  BY <1>1
<1>5. \A op : Shown(op)' => op = req.op
  BY <1>1 DEF Shown
<1>6. ShowsWhatWasMeant'
  BY <1>1, <1>2, <1>3, <1>4, <1>5 DEF ShowsWhatWasMeant, Complete
<1>7. LogIsASlice' /\ ListsReferences'
  BY <1>5 DEF LogIsASlice, ListsReferences
<1>8. QED
  BY <1>1, <1>2, <1>6, <1>7, ShowKeeps

LEMMA CommitKeeps ==
  ASSUME BInv, Next, Record, LookupCommit
  PROVE  BInv'
<1>1. /\ at = "commit" /\ i = 0 /\ items = <<>> /\ req.op # "log" /\ Meant = Named(req.revision)
      /\ Meant \in meant /\ (Found(oid) \/ (oid = req.revision /\ oid \in Ids))
  BY DEF LookupCommit, BInv, OpOK, CommitOK, Meant, Kept
<1>2. /\ oid \in objects => Found(oid)
      /\ oid \notin objects => Meant = None
  BY <1>1, NamesAssumption DEF Found, Named
<1>3. CASE oid \in objects /\ req.op = "commit" /\ Show(<<oid>>)
  BY <1>1, <1>2, <1>3, OneShown
<1>4. CASE oid \in objects /\ Goto("tree") /\ UNCHANGED oid
  <2>1. at' = "tree" /\ UNCHANGED <<req, i, items, complete, status>>
    BY <1>4 DEF Goto
  <2>2. Found(oid)'
    BY <1>1, <1>2, <1>4, Recorded
  <2>3. OpOK' /\ CommitOK' /\ LogOK' /\ ListOK'
    BY <1>1, <2>1, <2>2 DEF OpOK, CommitOK, LogOK, ListOK
  <2>4. QED
    BY <1>1, <2>1, <2>3, GoesOn
<1>5. CASE Misses(oid \in objects) /\ Fail("kNotFound")
  BY <1>1, <1>2, <1>5, FailKeeps DEF Misses, Reason
<1>6. QED
  BY <1>3, <1>4, <1>5 DEF LookupCommit

LEMMA TreeKeeps ==
  ASSUME BInv, Next, Record, LookupTree
  PROVE  BInv'
<1>1. at = "tree" /\ i = 0 /\ items = <<>> /\ Found(oid)
  BY DEF LookupTree, BInv, OpOK, CommitOK
<1>2. CASE HasTree /\ req.op = "tree" /\ Show(<<oid>>)
  BY <1>1, <1>2, OneShown DEF HasTree
<1>3. ASSUME NEW step, Goto(step), UNCHANGED oid,
             \/ step = "blob" /\ req.op = "blob"
             \/ step = "send" /\ req.op = "archive"
             \/ step = "old" /\ req.op = "patch" /\ req.revision_old # None
             \/ step = "parent" /\ req.op = "patch" /\ req.revision_old = None
      PROVE  BInv'
  <2>1. at' = step /\ UNCHANGED <<req, i, items, complete, status>>
    BY <1>3 DEF Goto
  <2>2. Found(oid)'
    BY <1>1, <1>3, Recorded
  <2>3. OpOK' /\ CommitOK' /\ LogOK' /\ ListOK'
    BY <1>1, <1>3, <2>1, <2>2 DEF OpOK, CommitOK, LogOK, ListOK
  <2>4. QED
    BY <1>1, <1>3, <2>1, <2>3, GoesOn
<1>4. CASE Misses(HasTree) /\ Fail("kNotFound")
  <2>1. dir = "whole" => req.op = "tree" /\ req.path \notin Dirs[oid] \cup {Root}
    BY <1>4 DEF Misses, HasTree
  <2>2. QED
    BY <1>1, <1>4, <2>1, FailKeeps DEF Reason, Found
<1>5. QED
  BY <1>2, <1>3, <1>4 DEF LookupTree

LEMMA BlobKeeps ==
  ASSUME BInv, Next, Record, LookupBlob
  PROVE  BInv'
<1>1. at = "blob" /\ req.op = "blob" /\ Found(oid)
  BY DEF LookupBlob, BInv, OpOK, CommitOK
<1>2. CASE req.path \in Files[oid] /\ Show(<<oid>>)
  BY <1>1, <1>2, OneShown
<1>3. CASE Misses(req.path \in Files[oid]) /\ Fail("kNotFound")
  BY <1>1, <1>3, FailKeeps DEF Misses, Reason, Found
<1>4. QED
  BY <1>2, <1>3 DEF LookupBlob

LEMMA SendKeeps ==
  ASSUME BInv, Next, Record, SendArchive
  PROVE  BInv'
<1>1. at = "send" /\ req.op = "archive" /\ Found(oid) /\ ShowFiles(<<oid>>)
  BY DEF SendArchive, BInv, OpOK, CommitOK
<1>2. QED
  BY <1>1, OneShown

-----------------------------------------------------------------------------
(* Two commits: a patch. *)

LEMMA OldKeeps ==
  ASSUME BInv, Next, Record, ResolveOld
  PROVE  BInv'
<1>1. /\ at = "old" /\ i = 0 /\ items = <<>> /\ req.op = "patch" /\ req.revision_old # None
      /\ Named(req.revision_old) \in meantOld /\ Found(oid)
  BY DEF ResolveOld, BInv, OpOK, CommitOK, Kept
<1>2. ASSUME NEW id \in Ids, Resolves(req.revision_old, id), base' = id, at' = "oldCommit",
             UNCHANGED <<req, oid, names, i, items, complete, status>>
      PROVE  BInv'
  <2>1. FoundOld(id) \/ (id = req.revision_old /\ id \in Ids)
    BY <1>1, <1>2, Resolved DEF FoundOld
  <2>2. Found(oid)' /\ (FoundOld(id) => FoundOld(id)')
    BY <1>1, <1>2, Recorded
  <2>3. CommitOK'
    BY <1>2, <2>1, <2>2 DEF CommitOK, FoundOld
  <2>4. OpOK' /\ LogOK' /\ ListOK'
    BY <1>1, <1>2 DEF OpOK, LogOK, ListOK
  <2>5. QED
    BY <1>1, <1>2, <2>3, <2>4, GoesOn
<1>3. CASE Misses(Exists(req.revision_old)) /\ Fail("kNotFound")
  <2>1. dir = "whole" => Named(req.revision_old) = None
    BY <1>3, Unresolved, MessageTyped DEF Misses, BInv
  <2>2. QED
    BY <1>1, <1>3, <2>1, FailKeeps DEF Reason
<1>4. QED
  BY <1>2, <1>3 DEF ResolveOld

LEMMA OldCommitKeeps ==
  ASSUME BInv, Next, Record, LookupOld
  PROVE  BInv'
<1>1. /\ at = "oldCommit" /\ i = 0 /\ items = <<>> /\ req.op = "patch" /\ req.revision_old # None
      /\ Named(req.revision_old) \in meantOld /\ Found(oid)
      /\ FoundOld(base) \/ (base = req.revision_old /\ base \in Ids)
  BY DEF LookupOld, BInv, OpOK, CommitOK, Kept
<1>2. /\ base \in objects => FoundOld(base)
      /\ base \notin objects => Named(req.revision_old) = None
  BY <1>1, NamesAssumption DEF FoundOld, Named
<1>3. CASE base \in objects /\ Goto("diff") /\ UNCHANGED oid
  <2>1. at' = "diff" /\ UNCHANGED <<req, base, i, items, complete, status>>
    BY <1>3 DEF Goto
  <2>2. Found(oid)' /\ FoundOld(base)'
    BY <1>1, <1>2, <1>3, <2>1, Recorded
  <2>3. OpOK' /\ CommitOK' /\ LogOK' /\ ListOK'
    BY <1>1, <2>1, <2>2 DEF OpOK, CommitOK, LogOK, ListOK
  <2>4. QED
    BY <1>1, <2>1, <2>3, GoesOn
<1>4. CASE Misses(base \in objects) /\ Fail("kNotFound")
  BY <1>1, <1>2, <1>4, FailKeeps DEF Misses, Reason
<1>5. QED
  BY <1>3, <1>4 DEF LookupOld

LEMMA ParentKeeps ==
  ASSUME BInv, Next, Record, LookupParent
  PROVE  BInv'
<1>1. /\ at = "parent" /\ i = 0 /\ items = <<>> /\ req.op = "patch" /\ req.revision_old = None
      /\ Found(oid)
  BY DEF LookupParent, BInv, OpOK, CommitOK
<1>2. CASE /\ base' = IF Parents[oid] = <<>> THEN None ELSE Parents[oid][1]
           /\ at' = "diff"
           /\ UNCHANGED <<req, oid, names, i, items, complete, status>>
  <2>1. Found(oid)'
    BY <1>1, <1>2, Recorded
  <2>2. CommitOK'
    BY <1>1, <1>2, <2>1 DEF CommitOK
  <2>3. OpOK' /\ LogOK' /\ ListOK'
    BY <1>1, <1>2 DEF OpOK, LogOK, ListOK
  <2>4. QED
    BY <1>1, <1>2, <2>2, <2>3, GoesOn
<1>3. CASE dir # "whole" /\ Fail("kNotFound")
  BY <1>1, <1>3, FailKeeps
<1>4. QED
  BY <1>2, <1>3 DEF LookupParent

LEMMA PatchKeeps ==
  ASSUME BInv, Next, Record, MakePatch
  PROVE  BInv'
<1>1. /\ at = "diff" /\ req.op = "patch" /\ Found(oid)
      /\ IF req.revision_old # None THEN FoundOld(base)
         ELSE base = IF Parents[oid] = <<>> THEN None ELSE Parents[oid][1]
  BY DEF MakePatch, BInv, OpOK, CommitOK
<1>2. CASE dir # "whole" /\ Fail("kInternalError")
  BY <1>1, <1>2, FailKeeps
<1>3. ASSUME NEW list, ShowFiles(list),
             \/ list = <<base, oid>> /\ base # None
             \/ list = <<oid>> /\ (dir = "whole" => base = None)
      PROVE  BInv'
  <2>1. /\ req' = req /\ items' = list /\ Answer("kSucceed")
        /\ complete' = TRUE \/ dir # "whole"
    BY <1>3 DEF ShowFiles, Answer
  <2>2. Complete' /\ (dir' = "whole" => dir = "whole")
    BY <2>1, GitStep DEF BInv, Complete
  <2>3. oid \in meant' /\ oid # None /\ oid \in Commits
    BY <1>1, Recorded, FoundIsCommit DEF Found, BInv
  <2>4. req.revision_old # None => base \in meantOld' /\ base # None
    BY <1>1, Recorded, FoundIsCommit DEF FoundOld, BInv
  <2>5. items'[Len(items')] = oid
    BY <1>3, <2>1
  <2>6. \A op : Shown(op)' => op = "patch"
    BY <1>1, <2>1 DEF Shown
  <2>7. ASSUME dir' = "whole"
        PROVE  IF req.revision_old # None
                 THEN Len(items') = 2 /\ items'[1] \in meantOld' \ {None}
                 ELSE items' = IF Parents[oid] = <<>> THEN <<oid>>
                               ELSE <<Parents[oid][1], oid>>
    <3>1. CASE req.revision_old # None
      <4>1. items' = <<base, oid>>
        BY <1>3, <2>1, <2>2, <2>4, <2>7, <3>1
      <4>2. QED
        BY <2>4, <3>1, <4>1
    <3>2. CASE req.revision_old = None
      <4>1. Parents[oid] # <<>> => Parents[oid][1] # None
        BY <2>3, Graph DEF Ids
      <4>2. QED
        BY <1>1, <1>3, <2>1, <2>2, <2>7, <3>2, <4>1
    <3>3. QED
      BY <3>1, <3>2
  <2>8. ShowsWhatWasMeant'
    BY <2>1, <2>2, <2>3, <2>5, <2>6, <2>7 DEF ShowsWhatWasMeant, Complete
  <2>9. LogIsASlice' /\ ListsReferences'
    BY <2>6 DEF LogIsASlice, ListsReferences
  <2>10. QED
    BY <1>1, <2>1, <2>2, <2>8, <2>9, ShowKeeps
<1>4. QED
  BY <1>2, <1>3 DEF MakePatch, Misses

-----------------------------------------------------------------------------
(* Listings: each reference once, no reference that stays is passed over. *)

LEMMA NamesKeep ==
  ASSUME BInv, Next, Record, ReadNames
  PROVE  BInv'
<1>1. /\ at = "names" /\ i = 0 /\ items = <<>> /\ req.op \in {"branches", "tags"}
      /\ at' = "list" /\ UNCHANGED <<req, oid, base, i, items, complete, status>>
      /\ UNCHANGED gitVars
  BY DEF ReadNames, BInv, OpOK
<1>2. UNCHANGED <<dir, refs, objects>> /\ Existing' = Existing
  BY <1>1 DEF gitVars, Existing, Listed
<1>3. /\ names' \subseteq Existing
      /\ dir = "whole" => Existing \subseteq names'
  BY <1>1 DEF ReadNames, Existing
<1>4. ListedSoFar' = {} /\ Len(items') = 0
  BY <1>1 DEF ListedSoFar
<1>5. /\ names' \subseteq existed'
      /\ dir' = "whole" => lasted' \subseteq names'
  BY <1>1, <1>2, <1>3, Recorded
<1>6. ListOK'
  BY <1>4, <1>5, FS_EmptySet DEF ListOK
<1>7. OpOK' /\ CommitOK' /\ LogOK'
  BY <1>1 DEF OpOK, CommitOK, LogOK
<1>8. QED
  BY <1>1, <1>6, <1>7, GoesOn

\* The list is shown: at its end, or where git_tag_foreach gives up.
LEMMA ListShown ==
  ASSUME BInv, Next, Record, at = "list", Show(items), UNCHANGED gitVars,
         \/ names = {}
         \/ req.op = "tags" /\ \E r \in names : Misses(refs[r] # None)
  PROVE  BInv'
<1>1. /\ UNCHANGED <<req, items, complete>> /\ Answer("kSucceed")
      /\ UNCHANGED <<dir, refs>> /\ req.op \in {"branches", "tags"}
  BY DEF Show, Answer, gitVars, BInv, OpOK
<1>2. Complete'
  BY <1>1, CompleteStays
<1>3. ListedSoFar' = ListedSoFar /\ Existing' = Existing
  BY <1>1 DEF ListedSoFar, Existing, Listed
<1>4. /\ Cardinality(ListedSoFar) = Len(items) /\ ListedSoFar \subseteq existed
      /\ names \subseteq existed /\ lasted \subseteq Existing /\ Existing \subseteq existed
      /\ (dir = "whole" /\ (req.op = "branches" \/ existed = lasted)) =>
           lasted \subseteq ListedSoFar \cup names
  BY DEF BInv, ListOK, Kept
<1>5. ASSUME dir = "whole", req.op = "branches" \/ existed' = lasted'
      PROVE  lasted' \subseteq ListedSoFar'
  <2>1. /\ existed \subseteq existed' /\ lasted' \subseteq lasted
    BY Recorded
  <2>2. CASE names = {}
    BY <1>3, <1>4, <1>5, <2>1, <2>2
  <2>3. CASE req.op = "tags" /\ \E r \in names : Misses(refs[r] # None)
    <3>1. PICK r \in names : refs[r] = None
      BY <1>5, <2>3 DEF Misses
    <3>2. r \in existed /\ r \notin Existing
      BY <1>4, <3>1 DEF Existing
    <3>3. r \in lasted
      BY <1>5, <2>1, <2>3, <3>2
    <3>4. QED
      BY <1>4, <3>2, <3>3
  <2>4. QED
    BY <2>2, <2>3
<1>6. ListsReferences'
  <2>1. /\ Cardinality(ListedSoFar') = Len(items') /\ ListedSoFar' \subseteq existed'
    BY <1>1, <1>3, <1>4, Recorded
  <2>2. QED
    BY <1>1, <1>5, <2>1 DEF ListsReferences, ListedSoFar, Shown
<1>7. \A op : Shown(op)' => op \in {"branches", "tags"}
  BY <1>1 DEF Shown
<1>8. ShowsWhatWasMeant' /\ LogIsASlice'
  BY <1>2, <1>7 DEF ShowsWhatWasMeant, LogIsASlice, Complete
<1>9. QED
  BY <1>1, <1>2, <1>6, <1>8, ShowKeeps

LEMMA ListKeeps ==
  ASSUME BInv, Next, Record, ListRefs
  PROVE  BInv'
<1>1. at = "list" /\ UNCHANGED gitVars
  BY DEF ListRefs
<1>2. UNCHANGED <<dir, refs, objects>>
  BY <1>1 DEF gitVars
<1>3. ASSUME NEW r \in names, names' = names \ {r},
             \/ refs[r] # None /\ items' = Append(items, r)
             \/ Misses(refs[r] # None) /\ UNCHANGED items,
             UNCHANGED <<at, req, oid, base, i, complete, status>>
      PROVE  BInv'
  <2>1. /\ IsFiniteSet(ListedSoFar) /\ Cardinality(ListedSoFar) = Len(items)
        /\ ListedSoFar \cap names = {}
        /\ ListedSoFar \subseteq existed /\ names \subseteq existed
        /\ (dir = "whole" /\ (req.op = "branches" \/ existed = lasted)) =>
             lasted \subseteq ListedSoFar \cup names
        /\ lasted \subseteq Existing /\ Existing \subseteq existed
    BY <1>1 DEF BInv, ListOK, Kept
  <2>2. items \in Seq(Refs \cup Ids) /\ r \in Refs \cup Ids
    BY FieldsTyped DEF BInv, TypeOK
  <2>3. \/ ListedSoFar' = ListedSoFar \cup {r} /\ Len(items') = Len(items) + 1
        \/ /\ ListedSoFar' = ListedSoFar /\ items' = items
           /\ dir = "whole" => refs[r] = None
    <3>1. CASE items' = Append(items, r)
      <4>1. /\ Len(items') = Len(items) + 1 /\ Len(items) \in Nat
            /\ \A k \in 1 .. Len(items) : items'[k] = items[k]
            /\ items'[Len(items) + 1] = r
        BY <2>2, <3>1, AppendProperties, LenProperties
      <4>2. 1 .. Len(items') = (1 .. Len(items)) \cup {Len(items) + 1}
        BY <4>1
      <4>3. ListedSoFar' = ListedSoFar \cup {r}
        BY <4>1, <4>2 DEF ListedSoFar
      <4>4. QED
        BY <4>1, <4>3
    <3>2. CASE Misses(refs[r] # None) /\ UNCHANGED items
      BY <3>2 DEF Misses, ListedSoFar
    <3>3. QED
      BY <1>3, <3>1, <3>2
  <2>4. IsFiniteSet(ListedSoFar') /\ Cardinality(ListedSoFar') = Len(items')
    BY <2>1, <2>3, FS_AddElement
  <2>5. ListedSoFar' \cap names' = {}
    BY <1>3, <2>1, <2>3
  <2>6. ListedSoFar' \subseteq existed' /\ names' \subseteq existed'
    BY <1>1, <1>3, <2>1, <2>3, Recorded
  <2>7. ASSUME dir = "whole", req.op = "branches" \/ existed' = lasted'
        PROVE  lasted' \subseteq ListedSoFar' \cup names'
    <3>1. /\ existed \subseteq existed' /\ lasted' \subseteq lasted
      BY <1>1, Recorded
    <3>2. lasted \subseteq ListedSoFar \cup names
      BY <2>1, <2>7, <3>1
    <3>3. ListedSoFar' = ListedSoFar => r \notin lasted \/ r \in ListedSoFar
      BY <2>1, <2>3, <2>7 DEF Existing
    <3>4. QED
      BY <1>3, <2>3, <3>1, <3>2, <3>3
  <2>8. ListOK'
    BY <1>2, <1>3, <2>4, <2>5, <2>6, <2>7 DEF ListOK
  <2>9. OpOK' /\ CommitOK' /\ LogOK'
    BY <1>1, <1>3 DEF BInv, OpOK, CommitOK, LogOK
  <2>10. QED
    BY <1>1, <1>3, <2>8, <2>9, GoesOn
<1>4. QED
  BY <1>1, <1>3, ListShown DEF ListRefs

-----------------------------------------------------------------------------
(* The log: a sum that wraps around can only end a walk that has nothing   *)
(* to show, since a history is shorter than 2^32 by a page of the log.     *)

LEMMA Sum ==
  ASSUME NEW n \in Nat, NEW m \in Nat, n < m
  PROVE  n % m = n
OBVIOUS

\* The slice that is meant, when the loop ends with i commits walked.
LEMMA SliceReached ==
  ASSUME TypeOK, LogOK, at = "walk", ~ MoreLog
  PROVE  SubSeq(Walk, req.offset + 1, i) = Slice(Walk)
<1> DEFINE n == Limit + req.offset
           last == IF n < Len(Walk) THEN n ELSE Len(Walk)
<1>1. /\ req.offset \in Nat /\ Limit \in Nat \ {0} /\ Limit <= GitLogLimit
      /\ GitLogLimit \in Nat /\ Modulus \in Nat /\ i \in Nat
      /\ Len(Walk) \in Nat /\ Len(Walk) + GitLogLimit <= Modulus
  BY MessageTyped, FieldsTyped, WalkTyped, LimitAssumption
<1>2. /\ i <= Len(Walk) /\ (i = 0 \/ i <= n % Modulus)
      /\ i >= n % Modulus \/ i >= Len(Walk)
  <2>1. n % Modulus \in Nat
    BY <1>1, LimitAssumption
  <2>2. ~ (i < n % Modulus /\ i < Len(Walk))
    BY DEF MoreLog
  <2>3. QED
    BY <1>1, <2>1, <2>2 DEF LogOK
<1>3. Slice(Walk) = SubSeq(Walk, req.offset + 1, last)
  BY DEF Slice
<1>4. CASE n < Modulus
  <2>1. n % Modulus = n
    BY <1>1, <1>4, Sum
  <2>2. i = last
    BY <1>1, <1>2, <2>1
  <2>3. QED
    BY <1>1, <1>3, <2>2
<1>5. CASE n >= Modulus
  <2>1. i < req.offset + 1 /\ last < req.offset + 1
    BY <1>1, <1>2, <1>5
  <2>2. SubSeq(Walk, req.offset + 1, i) = <<>> /\ SubSeq(Walk, req.offset + 1, last) = <<>>
    BY <1>1, <2>1, SubSeqEmpty
  <2>3. QED
    BY <1>3, <2>2
<1>6. QED
  BY <1>1, <1>4, <1>5

LEMMA LogShown ==
  ASSUME BInv, Next, Record, at = "walk", Show(items), UNCHANGED gitVars,
         ~ MoreLog \/ dir # "whole"
  PROVE  BInv'
<1>1. /\ UNCHANGED <<req, items, complete>> /\ Answer("kSucceed") /\ dir' = dir
      /\ req.op = "log"
  BY DEF Show, Answer, gitVars, BInv, OpOK
<1>2. Complete'
  BY <1>1, CompleteStays
<1>3. \A op : Shown(op)' => op = "log"
  BY <1>1 DEF Shown
<1>4. ShowsWhatWasMeant' /\ ListsReferences'
  BY <1>2, <1>3 DEF ShowsWhatWasMeant, ListsReferences, Complete
<1>5. ASSUME dir = "whole"
      PROVE  \/ \E c \in meant' \ {None} : items' = Slice(History[c])
             \/ None \in meant' /\ items' = <<>>
  <2>1. items = Slice(Walk) /\ items = SubSeq(Walk, req.offset + 1, i)
    BY <1>5, SliceReached DEF BInv, LogOK
  <2>2. CASE oid = None
    <3>1. None \in meant'
      BY <1>5, <2>2, Recorded DEF BInv, LogOK
    <3>2. Walk = <<>> /\ Len(Walk) = 0 /\ i \in Nat /\ i <= 0 /\ req.offset \in Nat
      BY <2>2, FieldsTyped, MessageTyped DEF Walk, BInv, LogOK
    <3>3. i < req.offset + 1
      BY <3>2
    <3>4. items = <<>>
      BY <2>1, <3>2, <3>3, SubSeqEmpty
    <3>5. QED
      BY <1>1, <3>1, <3>4
  <2>3. CASE oid # None
    <3>1. oid \in meant' /\ Walk = History[oid]
      BY <2>3, Recorded DEF BInv, LogOK, Found, Walk
    <3>2. QED
      BY <1>1, <2>1, <2>3, <3>1
  <2>4. QED
    BY <2>2, <2>3
<1>6. LogIsASlice'
  <2>1. \A list : Slice(list)' = Slice(list)
    BY <1>1 DEF Slice, Limit
  <2>2. QED
    BY <1>1, <1>5, <2>1 DEF LogIsASlice
<1>7. QED
  BY <1>1, <1>2, <1>4, <1>6, ShowKeeps

LEMMA LogKeeps ==
  ASSUME BInv, Next, Record, LogStep
  PROVE  BInv'
<1>1. at = "walk" /\ UNCHANGED gitVars
  BY DEF LogStep
<1>2. ASSUME MoreLog, i' = i + 1,
             UNCHANGED <<at, req, oid, base, names, complete, status>>,
             \/ i >= req.offset /\ items' = Append(items, Walk[i + 1])
             \/ i < req.offset /\ UNCHANGED items
             \/ dir # "whole" /\ UNCHANGED items
      PROVE  BInv'
  <2>1. TypeOK /\ LogOK
    BY DEF BInv
  <2>2. Walk' = Walk /\ Limit' = Limit /\ dir' = dir
    BY <1>1, <1>2 DEF Walk, Limit, gitVars
  <2>3. /\ i \in Nat /\ req.offset \in Nat /\ Len(Walk) \in Nat /\ Walk \in Seq(Ids)
        /\ Limit \in Nat /\ Modulus \in Nat \ {0}
    BY <1>1, <2>1, FieldsTyped, MessageTyped, WalkTyped, LimitAssumption
  <2>4. (Limit + req.offset) % Modulus \in Nat
    BY <2>3
  <2>5. i' <= Len(Walk) /\ i' <= (Limit + req.offset) % Modulus
    BY <1>2, <2>3, <2>4 DEF MoreLog
  <2>6. /\ oid = None \/ Found(oid)
        /\ dir = "whole" => /\ oid = None => None \in meant
                            /\ items = SubSeq(Walk, req.offset + 1, i)
    BY <1>1, <2>1 DEF LogOK
  <2>7. ASSUME dir = "whole"
        PROVE  items' = SubSeq(Walk, req.offset + 1, i + 1)
    <3>1. CASE i >= req.offset
      <4>1. req.offset + 1 \in 1 .. Len(Walk) /\ i + 1 \in req.offset + 1 .. Len(Walk)
        BY <1>2, <2>3, <2>5, <3>1
      <4>2. \A m \in 1 .. Len(Walk) : \A n \in m .. Len(Walk) :
              SubSeq(Walk, m, n) = SubSeq(Walk, m, n - 1) \o <<Walk[n]>>
        BY <2>3, SubSeqRecursiveSecond
      <4>3. SubSeq(Walk, req.offset + 1, i + 1) = SubSeq(Walk, req.offset + 1, i) \o <<Walk[i + 1]>>
        <5>1. PICK m \in 1 .. Len(Walk), n \in 1 .. Len(Walk) :
                m = req.offset + 1 /\ n = i + 1 /\ n - 1 = i /\ n \in m .. Len(Walk)
          BY <2>3, <4>1
        <5>2. SubSeq(Walk, m, n) = SubSeq(Walk, m, n - 1) \o <<Walk[n]>>
          BY <4>2, <5>1
        <5>3. QED
          BY <5>1, <5>2
      <4>4. items' = Append(items, Walk[i + 1])
        BY <1>2, <2>3, <2>7, <3>1
      <4>5. items \in Seq(Refs \cup Ids) /\ Walk[i + 1] \in Refs \cup Ids
        BY <1>1, <1>2, <2>1, <2>3, <2>5, FieldsTyped, WalkTyped
      <4>6. Append(items, Walk[i + 1]) = items \o <<Walk[i + 1]>>
        BY <4>5, AppendIsConcat
      <4>7. QED
        BY <2>6, <2>7, <4>3, <4>4, <4>6
    <3>2. CASE i < req.offset
      <4>1. i < req.offset + 1 /\ i + 1 < req.offset + 1 /\ ~ (i >= req.offset)
        BY <2>3, <3>2
      <4>2. SubSeq(Walk, req.offset + 1, i) = <<>> /\ SubSeq(Walk, req.offset + 1, i + 1) = <<>>
        BY <2>3, <4>1, SubSeqEmpty
      <4>3. QED
        BY <1>2, <2>6, <2>7, <4>1, <4>2
    <3>3. QED
      BY <2>3, <3>1, <3>2
  <2>8. LogOK'
    <3>1. Found(oid) => Found(oid)'
      BY <1>1, <1>2, Recorded
    <3>2. meant \subseteq meant'
      BY <1>1, Recorded
    <3>3. i' <= Len(Walk') /\ i' <= (Limit' + req'.offset) % Modulus
      BY <1>2, <2>2, <2>5
    <3>4. dir' = "whole" => items' = SubSeq(Walk', req'.offset + 1, i')
      BY <1>2, <2>2, <2>7
    <3>5. QED
      BY <1>2, <2>2, <2>6, <3>1, <3>2, <3>3, <3>4 DEF LogOK
  <2>9. OpOK' /\ CommitOK' /\ ListOK'
    BY <1>1, <1>2 DEF BInv, OpOK, CommitOK, ListOK
  <2>10. QED
    BY <1>1, <1>2, <2>8, <2>9, GoesOn
<1>3. QED
  BY <1>1, <1>2, LogShown DEF LogStep

-----------------------------------------------------------------------------
LEMMA InitPages == AuditInit => BInv
<1> SUFFICES ASSUME AuditInit PROVE BInv
  OBVIOUS
<1>1. TypeOK
  BY LimitAssumption, EmptySeq DEF AuditInit, Init, TypeOK, Steps, Statuses
<1>2. at = "idle" /\ i = 0 /\ status = "none" /\ complete = TRUE
      /\ refs = [r \in Refs |-> None]
  BY DEF AuditInit, Init
<1>3. RefsOK /\ Kept /\ OpOK /\ CommitOK /\ LogOK /\ ListOK /\ Complete
  BY <1>2 DEF RefsOK, Kept, OpOK, CommitOK, LogOK, ListOK, Complete
<1>4. \A op : ~ Shown(op)
  BY <1>2 DEF Shown
<1>5. ShowsWhatWasMeant /\ FailsForAReason /\ LogIsASlice /\ ListsReferences
  BY <1>2, <1>4 DEF ShowsWhatWasMeant, FailsForAReason, LogIsASlice, ListsReferences
<1>6. QED
  BY <1>1, <1>3, <1>5 DEF BInv

LEMMA PagesKept ==
  ASSUME BInv, [Next /\ Record]_auditVars
  PROVE  BInv'
<1>1. CASE Next /\ Record
  <2>1. CASE Begin
    BY <1>1, <2>1, BeginKeeps
  <2>2. CASE PageStep
    BY <1>1, <2>2, OpenKeeps, NamesKeep, ListKeeps, ResolveKeeps, CommitKeeps, TreeKeeps,
       BlobKeeps, SendKeeps, OldKeeps, OldCommitKeeps, ParentKeeps, PatchKeeps, HeadKeeps,
       LogKeeps
    DEF PageStep
  <2>3. CASE ReceivePack \/ DeleteRef \/ RemoveDir
    BY <1>1, <2>3, GitKeeps DEF ReceivePack, DeleteRef, RemoveDir
  <2>4. QED
    BY <1>1, <2>1, <2>2, <2>3 DEF Next
<1>2. CASE UNCHANGED auditVars
  <2>1. /\ UNCHANGED <<dir, refs, objects, meant, meantOld, existed, lasted>>
        /\ UNCHANGED <<at, req, oid, base, names, i, items, complete, status>>
    BY <1>2 DEF auditVars, vars, gitVars, pageVars
  <2>2. TypeOK' /\ RefsOK' /\ Kept' /\ Complete'
    BY <2>1 DEF BInv, TypeOK, RefsOK, Kept, Complete, Meant, Named, Existing, Listed
  <2>3. OpOK' /\ CommitOK' /\ LogOK' /\ ListOK'
    BY <2>1 DEF BInv, OpOK, CommitOK, LogOK, ListOK, ListedSoFar, Found, FoundOld, Walk, Limit
  <2>4. ShowsWhatWasMeant' /\ FailsForAReason' /\ LogIsASlice' /\ ListsReferences'
    BY <2>1 DEF BInv, ShowsWhatWasMeant, FailsForAReason, LogIsASlice, ListsReferences,
       Shown, Slice, Limit
  <2>5. QED
    BY <2>2, <2>3, <2>4 DEF BInv
<1>3. QED
  BY <1>1, <1>2

(***************************************************************************)
(* Positions, references, loop counter and answer of a page hold what they *)
(* should; the 32-bit counter of the log never wraps (service.cc:1036).    *)
(***************************************************************************)
THEOREM PagesTyped == AuditSpec => []TypeOK
<1>1. BInv => TypeOK
  BY DEF BInv
<1>2. QED
  BY InitPages, PagesKept, <1>1, PTL DEF AuditSpec

(***************************************************************************)
(* A page shows the commit, tree, file, archive or patch its revisions     *)
(* named while it was made, with nothing left out of it while the          *)
(* repository stays (service.cc:957-1238, archive-handler.cc:45-114).      *)
(***************************************************************************)
THEOREM PagesShowWhatWasMeant == AuditSpec => []ShowsWhatWasMeant
<1>1. BInv => ShowsWhatWasMeant
  BY DEF BInv
<1>2. QED
  BY InitPages, PagesKept, <1>1, PTL DEF AuditSpec

(***************************************************************************)
(* A page of a repository that stays fails only because a revision or a    *)
(* path named nothing at some moment of it (service.cc:957-1238).          *)
(***************************************************************************)
THEOREM PagesFailForAReason == AuditSpec => []FailsForAReason
<1>1. BInv => FailsForAReason
  BY DEF BInv
<1>2. QED
  BY InitPages, PagesKept, <1>1, PTL DEF AuditSpec

(***************************************************************************)
(* The log shows the slice the message asks for, whatever its 32-bit       *)
(* offset and limit are (service.cc:1024-1040).                            *)
(***************************************************************************)
THEOREM LogsAreSlices == AuditSpec => []LogIsASlice
<1>1. BInv => LogIsASlice
  BY DEF BInv
<1>2. QED
  BY InitPages, PagesKept, <1>1, PTL DEF AuditSpec

(***************************************************************************)
(* No reference is listed twice, none that did not exist meanwhile, and no *)
(* branch that existed throughout is passed over (service.cc:942-951,      *)
(* 1264).                                                                  *)
(***************************************************************************)
THEOREM ReferencesAreListed == AuditSpec => []ListsReferences
<1>1. BInv => ListsReferences
  BY DEF BInv
<1>2. QED
  BY InitPages, PagesKept, <1>1, PTL DEF AuditSpec

-----------------------------------------------------------------------------
(* A page comes nearer to its answer with each of its steps. *)

LEMMA LookupsAdvance ==
  ASSUME \/ Open \/ ReadNames \/ ResolveRevision \/ LookupCommit \/ LookupTree \/ LookupBlob
         \/ SendArchive \/ ResolveOld \/ LookupOld \/ LookupParent \/ MakePatch \/ PushHead
  PROVE  Ahead(at') < Ahead(at)
<1>a. ASSUME NEW x, Fail(x) \/ Show(x) \/ ShowFiles(x)
      PROVE  at' = "idle"
  BY <1>a DEF Fail, Show, ShowFiles, Answer
<1>b. ASSUME NEW step, Goto(step)
      PROVE  at' = step
  BY <1>b DEF Goto
<1>1. CASE Open
  <2>1. at = "open" /\ at' \in {"idle", "names", "head", "revision"}
    BY <1>1, <1>a, <1>b DEF Open
  <2>2. QED
    BY <2>1 DEF Ahead
<1>2. CASE ReadNames \/ PushHead
  <2>1. (at = "names" /\ at' = "list") \/ (at = "head" /\ at' = "walk")
    BY <1>2, <1>b DEF ReadNames, PushHead
  <2>2. QED
    BY <2>1 DEF Ahead
<1>3. CASE ResolveRevision
  <2>1. at = "revision" /\ at' \in {"idle", "commit", "walk"}
    BY <1>3, <1>a, <1>b DEF ResolveRevision
  <2>2. QED
    BY <2>1 DEF Ahead
<1>4. CASE LookupCommit
  <2>1. at = "commit" /\ (Goto("tree") \/ Show(<<oid>>) \/ Fail("kNotFound"))
    BY <1>4, Zenon DEF LookupCommit
  <2>2. at' \in {"idle", "tree"}
    BY <2>1, <1>a, <1>b
  <2>3. QED
    BY <2>1, <2>2 DEF Ahead
<1>5. CASE LookupTree
  <2>1. at = "tree" /\ at' \in {"idle", "blob", "send", "old", "parent"}
    BY <1>5, <1>a, <1>b DEF LookupTree
  <2>2. QED
    BY <2>1 DEF Ahead
<1>6. CASE LookupBlob \/ SendArchive \/ MakePatch
  <2>1. at \in {"blob", "send", "diff"} /\ at' = "idle"
    BY <1>6, <1>a DEF LookupBlob, SendArchive, MakePatch
  <2>2. QED
    BY <2>1 DEF Ahead
<1>7. CASE ResolveOld \/ LookupOld \/ LookupParent
  <2>1. \/ at = "old" /\ at' \in {"idle", "oldCommit"}
        \/ at \in {"oldCommit", "parent"} /\ at' \in {"idle", "diff"}
    BY <1>7, <1>a, <1>b DEF ResolveOld, LookupOld, LookupParent
  <2>2. QED
    BY <2>1 DEF Ahead
<1>8. QED
  BY <1>1, <1>2, <1>3, <1>4, <1>5, <1>6, <1>7

LEMMA LoopsAdvance ==
  ASSUME BInv, ListRefs \/ LogStep
  PROVE  \/ Ahead(at') < Ahead(at)
         \/ at = "list" /\ at' = at /\ names' \subseteq names /\ names' # names
         \/ at = "walk" /\ at' = at /\ i < i' /\ i' <= Len(Walk)
<1>1. CASE at' = "idle"
  <2>1. at \in {"list", "walk"}
    BY DEF ListRefs, LogStep
  <2>2. QED
    BY <1>1, <2>1 DEF Ahead
<1>2. CASE ListRefs /\ at' # "idle"
  BY <1>2 DEF ListRefs, Show, Answer
<1>3. CASE LogStep /\ at' # "idle"
  <2>1. MoreLog /\ i' = i + 1 /\ at' = at /\ at = "walk"
    BY <1>3 DEF LogStep, Show, Answer
  <2>2. i \in Nat /\ Len(Walk) \in Nat /\ i < Len(Walk)
    BY <2>1, FieldsTyped, WalkTyped DEF BInv, MoreLog
  <2>3. QED
    BY <2>1, <2>2
<1>4. QED
  BY <1>1, <1>2, <1>3

(***************************************************************************)
(* However references move and whenever the directory goes, a page never   *)
(* takes a step that does not bring it nearer to its answer: what is left  *)
(* of PagesEnd is that the thread goes on (service.cc:942-1238).           *)
(***************************************************************************)
THEOREM PagesGoForward == AuditSpec => PagesAdvance
<1> DEFINE Nearer ==
      \/ Ahead(at') < Ahead(at)
      \/ at = "list" /\ at' = at /\ names' \subseteq names /\ names' # names
      \/ at = "walk" /\ at' = at /\ i < i' /\ i' <= Len(Walk)
<1>1. BInv /\ [Next /\ Record]_auditVars => [at # "idle" /\ pageVars' # pageVars => Nearer]_vars
  <2>1. ASSUME BInv, PageStep
        PROVE  Nearer
    BY <2>1, LookupsAdvance, LoopsAdvance DEF PageStep, BInv
  <2>2. CASE Begin \/ ReceivePack \/ DeleteRef \/ RemoveDir
    BY <2>2 DEF Begin, ReceivePack, DeleteRef, RemoveDir
  <2>3. QED
    BY <2>1, <2>2 DEF Next, auditVars
<1>2. QED
  BY InitPages, PagesKept, <1>1, PTL DEF AuditSpec, PagesAdvance
=============================================================================
