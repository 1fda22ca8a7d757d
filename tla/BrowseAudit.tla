----------------------------- MODULE BrowseAudit -----------------------------
(* Module Browse with the history that judges the pages: what the          *)
(* revisions and references of the message were while the page was made.   *)
EXTENDS Browse

VARIABLES
  meant,     \* what `revision' named at the moments of the page, None if nothing
  meantOld,  \* the same for `revision_old'
  existed,   \* of the references to list, those that existed at some moment
  lasted     \* and those that existed at every moment so far

auditVars == <<vars, meant, meantOld, existed, lasted>>

Named(rev) ==
  IF rev \in Refs THEN refs[rev]
  ELSE IF rev \in objects THEN rev ELSE None

\* What a page means without a revision, and a patch without an old one.
Meant == IF req.op = "log" /\ req.revision = None THEN refs[HeadBranch] ELSE Named(req.revision)
Existing ==
  IF req.op \in {"branches", "tags"} THEN {r \in Listed : refs[r] # None} ELSE {}

Record ==
  IF at = "idle" /\ at' = "open"
    THEN /\ meant' = {Meant'} /\ meantOld' = {Named(req.revision_old)'}
         /\ existed' = Existing' /\ lasted' = Existing'
    ELSE IF at = "idle" THEN UNCHANGED <<meant, meantOld, existed, lasted>>
    ELSE /\ meant' = meant \cup {Meant'}
         /\ meantOld' = meantOld \cup {Named(req.revision_old)'}
         /\ existed' = existed \cup Existing' /\ lasted' = lasted \cap Existing'

AuditInit == Init /\ meant = {} /\ meantOld = {} /\ existed = {} /\ lasted = {}
AuditSpec == AuditInit /\ [][Next /\ Record]_auditVars /\ Fairness

-----------------------------------------------------------------------------
Shown(op) == status = "kSucceed" /\ req.op = op

Slice(list) ==
  SubSeq(list, req.offset + 1,
         IF Limit + req.offset < Len(list) THEN Limit + req.offset ELSE Len(list))

(***************************************************************************)
(* A page shows what its revision named while it was made: the commit, the *)
(* tree, the file or the archive of one commit the revision named at some  *)
(* moment of the call, and a patch from one the old revision named to one  *)
(* the new revision named, each at its own moment; a path that is shown is *)
(* one of that same commit; and nothing is left out of a patch or an       *)
(* archive, nor diffed against nothing but a root commit, unless the       *)
(* repository is being deleted (service.cc:957-1238,                       *)
(* archive-handler.cc:45-114).                                             *)
(***************************************************************************)
ShowsWhatWasMeant ==
  /\ (Shown("commit") \/ Shown("archive") \/ Shown("tree") \/ Shown("blob")) =>
       /\ Len(items) = 1 /\ items[1] \in meant \ {None}
       /\ req.op = "tree" => req.path \in Dirs[items[1]] \cup {Root}
       /\ req.op = "blob" => req.path \in Files[items[1]]
  /\ Shown("patch") =>
       LET new == items[Len(items)] IN
       /\ new \in meant \ {None}
       /\ dir = "whole" =>
            IF req.revision_old # None
              THEN Len(items) = 2 /\ items[1] \in meantOld \ {None}
              ELSE items = IF Parents[new] = <<>> THEN <<new>>
                           ELSE <<Parents[new][1], new>>
  /\ dir = "whole" => complete

(***************************************************************************)
(* A page fails only for a reason: while the repository stays, the answer  *)
(* "internal error" never comes, and "not found" only when a revision      *)
(* named no commit at some moment of the call, or named one without the    *)
(* path (service.cc:957-1238).                                             *)
(***************************************************************************)
FailsForAReason ==
  (dir = "whole" /\ status \in {"kNotFound", "kInternalError"}) =>
    /\ status = "kNotFound"
    /\ \/ None \in meant
       \/ req.op = "patch" /\ req.revision_old # None /\ None \in meantOld
       \/ req.op = "tree" /\ \E c \in meant : req.path \notin Dirs[c] \cup {Root}
       \/ req.op = "blob" /\ \E c \in meant : req.path \notin Files[c]

(***************************************************************************)
(* The log shows the commits from `offset' on, `limit' of them or to the   *)
(* end, of the history of one commit the revision named, whatever the      *)
(* client's 32-bit offset and limit are, although their sum may wrap       *)
(* around; and nothing where the revision named nothing                    *)
(* (service.cc:1024-1040).                                                 *)
(***************************************************************************)
LogIsASlice ==
  (Shown("log") /\ dir = "whole") =>
    \/ \E c \in meant \ {None} : items = Slice(History[c])
    \/ None \in meant /\ items = <<>>

(***************************************************************************)
(* Pushes that create and delete references during the iteration cost no   *)
(* other branch its place: a branch that exists throughout is listed, no   *)
(* reference twice, and none that never existed meanwhile.  Of tags this   *)
(* holds as long as none is created or deleted (service.cc:942-951, 1264). *)
(***************************************************************************)
ListsReferences ==
  \A op \in {"branches", "tags"} : Shown(op) =>
    LET listed == {items[k] : k \in 1 .. Len(items)} IN
    /\ Cardinality(listed) = Len(items)
    /\ listed \subseteq existed
    /\ (dir = "whole" /\ (op = "branches" \/ existed = lasted)) => lasted \subseteq listed

(***************************************************************************)
(* Every page is answered, also when its references move or its repository *)
(* is removed under it.                                                    *)
(***************************************************************************)
PagesEnd == (at # "idle") ~> (at = "idle")

\* The most lookups and calls that a page at a step makes before its last loop.
Ahead(step) ==
  CASE step = "idle" -> 0
    [] step \in {"list", "walk", "blob", "send", "diff"} -> 1
    [] step \in {"names", "head", "oldCommit", "parent"} -> 2
    [] step = "old" -> 3
    [] step = "tree" -> 4
    [] step = "commit" -> 5
    [] step = "revision" -> 6
    [] step = "open" -> 7

(***************************************************************************)
(* No page goes back: each of its steps brings it nearer to its answer, a  *)
(* listing has one name less to look up, and a log, whose bounds are read  *)
(* again before every commit, is one commit further in a history that does *)
(* not end meanwhile - whatever pushes and deletions come between          *)
(* (service.cc:942-951, 1024-1040).                                        *)
(***************************************************************************)
PagesAdvance ==
  [][at # "idle" /\ pageVars' # pageVars =>
       \/ Ahead(at') < Ahead(at)
       \/ at = "list" /\ at' = at /\ names' \subseteq names /\ names' # names
       \/ at = "walk" /\ at' = at /\ i < i' /\ i' <= Len(Walk)]_vars
=============================================================================
