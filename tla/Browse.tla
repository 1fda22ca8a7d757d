------------------------------- MODULE Browse -------------------------------
(***************************************************************************)
(* The pages that show the content of one git repository, after the access *)
(* check of module Access has let the caller in: the handlers of           *)
(* service.cc from repoListBranches to repoGetTags, and archive-handler.cc.*)
(* A page takes no lock and no snapshot: while it reads, pushes move the   *)
(* references, and repoDelete may take the directory away file by file.    *)
(*                                                                         *)
(* External, modelled from its use: libgit2 and mimosa::git.  Objects are  *)
(* immutable and found by id; a lookup in a directory that is going away   *)
(* may miss what was there.  One action is one lookup.                     *)
(***************************************************************************)
EXTENDS Naturals, Sequences, FiniteSets

CONSTANTS
  Commits,     \* commit ids
  Branches,    \* local branches; HEAD names the branch HeadBranch
  Tags,
  HeadBranch,
  None,        \* no reference, no revision in a message, no commit
  Other,       \* the id of an object that is no commit
  Parents,     \* of each commit, its parents
  History,     \* of each commit, it and its ancestors in the order of a walk
  Files, Dirs, \* of each commit, the paths of its tree
  Root,        \* the path of the tree itself
  GitLogLimit, \* Config::gitLogLimit
  Modulus,     \* 2^32: offset, limit and their sum are uint32_t
  Pushes,      \* pairs of a reference and a commit that may be pushed to it
  Requests     \* the messages that pass the access check

VARIABLES
  dir,      \* the repository's directory: "whole", "torn" or "gone"
  refs,     \* what each branch and tag points at, or None
  objects,  \* the commits the repository has
  at,       \* next step of the page
  req,      \* its message
  oid,      \* the commit it looks at
  base,     \* the older commit of a patch
  names,    \* the references an iterator has still to give
  i,        \* the loop counter of repoGetLog
  items,    \* what the answer lists
  complete, \* no file is missing from the patch or the archive
  status    \* of the answer

gitVars  == <<dir, refs, objects>>
pageVars == <<at, req, oid, base, names, i, items, complete, status>>
vars     == <<gitVars, pageVars>>

Refs == Branches \cup Tags
Ids  == Commits \cup {Other}

\* `limit' and `offset' are 0 where the message does not set them.
Message ==
  [op : {"branches", "tags", "commit", "log", "tree", "blob", "patch", "archive"},
   revision : Refs \cup Ids \cup {None}, revision_old : Refs \cup Ids \cup {None},
   path : UNION {Files[c] \cup Dirs[c] : c \in Commits} \cup {Root},
   offset : 0 .. Modulus - 1, limit : 0 .. Modulus - 1]

Ancestors(c) == {History[c][k] : k \in 1 .. Len(History[c])}

ASSUME NamesAssumption ==
  /\ HeadBranch \in Branches /\ Other \notin Commits
  /\ None \notin Refs \cup Ids /\ Refs \cap Ids = {}
  /\ Pushes \subseteq Refs \X Commits
  /\ Requests \subseteq Message
ASSUME GraphAssumption ==
  /\ Parents \in [Commits -> Seq(Commits)]
  /\ History \in [Commits -> Seq(Commits)]
  /\ \A c \in Commits :
       /\ History[c] # <<>> /\ c \in Ancestors(c)
       /\ \A d \in Ancestors(c) : Ancestors(d) \subseteq Ancestors(c)
       /\ \A k \in 1 .. Len(Parents[c]) : Parents[c][k] \in Ancestors(c)
ASSUME LimitAssumption ==
  /\ GitLogLimit \in Nat \ {0} /\ Modulus \in Nat /\ GitLogLimit < Modulus
  \* a history is shorter than 2^32 by at least one page of the log
  /\ \A c \in Commits : Len(History[c]) + GitLogLimit <= Modulus

Steps == {"idle", "open", "names", "list", "revision", "head", "commit", "tree",
          "blob", "send", "old", "oldCommit", "parent", "diff", "walk"}
Statuses == {"none", "kSucceed", "kNotFound", "kInternalError"}

TypeOK ==
  /\ dir \in {"whole", "torn", "gone"}
  /\ refs \in [Refs -> Commits \cup {None}]
  /\ objects \subseteq Commits
  /\ at \in Steps
  /\ req \in Requests
  /\ oid \in Ids \cup {None}
  /\ base \in Ids \cup {None}
  /\ names \subseteq Refs
  /\ i \in 0 .. Modulus - 1
  /\ items \in Seq(Refs \cup Ids)
  /\ complete \in BOOLEAN
  /\ status \in Statuses

\* A row of repos may be without its directory (module Service).
Init ==
  /\ dir \in {"whole", "gone"}
  /\ refs = [r \in Refs |-> None]
  /\ objects = {}
  /\ at = "idle"
  /\ req \in Requests
  /\ oid = None /\ base = None
  /\ names = {} /\ i = 0 /\ items = <<>>
  /\ complete = TRUE
  /\ status = "none"

-----------------------------------------------------------------------------
(* The repository. *)

\* git-receive-pack: the objects arrive before the reference moves.
ReceivePack ==
  /\ dir # "gone"
  /\ \E p \in Pushes :
       /\ objects' = objects \cup Ancestors(p[2])
       /\ refs' = [refs EXCEPT ![p[1]] = p[2]]
  /\ UNCHANGED <<dir, pageVars>>

DeleteRef ==
  /\ dir # "gone"
  /\ \E r \in Refs : refs' = [refs EXCEPT ![r] = None]
  /\ UNCHANGED <<dir, objects, pageVars>>

\* Repositories::remove, from the first file to the last.
RemoveDir ==
  /\ \/ dir = "whole" /\ dir' = "torn"
     \/ dir = "torn" /\ dir' = "gone"
  /\ UNCHANGED <<refs, objects, pageVars>>

\* A lookup misses what is absent, and may miss what is being removed.
Misses(present) == ~ present \/ dir # "whole"

-----------------------------------------------------------------------------
(* Control of a page. *)

Goto(step) == at' = step /\ UNCHANGED <<req, base, names, i, items, complete, status>>

\* The handler returns, and its locals are gone.
Answer(result) ==
  /\ at' = "idle" /\ status' = result
  /\ oid' = None /\ base' = None /\ names' = {} /\ i' = 0
  /\ UNCHANGED req

Fail(result) == Answer(result) /\ items' = <<>> /\ UNCHANGED complete
Show(list)   == Answer("kSucceed") /\ items' = list /\ UNCHANGED complete

\* What is diffed or archived lacks the files that cannot be read any more.
ShowFiles(list) ==
  /\ Answer("kSucceed") /\ items' = list
  /\ complete' = TRUE \/ (dir # "whole" /\ complete' = FALSE)

Begin ==
  /\ at = "idle"
  /\ req' \in Requests
  /\ at' = "open"
  /\ items' = <<>> /\ complete' = TRUE /\ status' = "none"
  /\ UNCHANGED <<oid, base, names, i, gitVars>>

Open ==
  /\ at = "open"
  /\ \/ /\ dir # "gone"
        /\ Goto(CASE req.op \in {"branches", "tags"} -> "names"
                  [] req.op = "log" /\ req.revision = None -> "head"
                  [] OTHER -> "revision")
        /\ UNCHANGED oid
     \/ /\ dir # "whole"
        /\ Fail(IF req.op = "archive" THEN "kNotFound" ELSE "kInternalError")
  /\ UNCHANGED gitVars

-----------------------------------------------------------------------------
(* repoListBranches and repoGetTags: the iterator takes the names at once  *)
(* and looks each reference up when it comes to it.                        *)

Listed == IF req.op = "tags" THEN Tags ELSE Branches

ReadNames ==
  /\ at = "names"
  /\ \E found \in SUBSET Listed :
       /\ names' = found
       /\ found \subseteq {r \in Listed : refs[r] # None}
       /\ dir = "whole" => \A r \in Listed : refs[r] # None => r \in found
  /\ at' = "list"
  /\ UNCHANGED <<req, oid, base, i, items, complete, status, gitVars>>

\* Variant: a reference that is gone is looked up again.
ListRefsRetrying ==
  /\ at = "list"
  /\ \/ \E r \in names :
          /\ names' = IF refs[r] # None THEN names \ {r} ELSE names
          /\ items' = IF refs[r] # None THEN Append(items, r) ELSE items
          /\ UNCHANGED <<at, req, oid, base, i, complete, status>>
     \/ names = {} /\ Show(items)
  /\ UNCHANGED gitVars

\* Variant: the iteration stops at the first reference that is gone.
ListRefsStopping ==
  /\ at = "list"
  /\ \/ \E r \in names :
          /\ names' = IF refs[r] # None THEN names \ {r} ELSE {}
          /\ items' = IF refs[r] # None THEN Append(items, r) ELSE items
          /\ UNCHANGED <<at, req, oid, base, i, complete, status>>
     \/ names = {} /\ Show(items)
  /\ UNCHANGED gitVars

\* Variant: at a reference that is gone the iteration starts again.
ListRefsAnew ==
  /\ at = "list"
  /\ \/ \E r \in names :
          IF refs[r] # None
            THEN /\ names' = names \ {r} /\ items' = Append(items, r)
                 /\ UNCHANGED <<at, req, oid, base, i, complete, status>>
            ELSE /\ at' = "names" /\ names' = {} /\ items' = <<>>
                 /\ UNCHANGED <<req, oid, base, i, complete, status>>
     \/ names = {} /\ Show(items)
  /\ UNCHANGED gitVars

\* git_branch_next passes over a reference that is gone; at a tag that is gone
\* git_tag_foreach may give up, and its result is ignored.
ListRefs ==
  /\ at = "list"
  /\ \/ \E r \in names :
          /\ names' = names \ {r}
          /\ \/ refs[r] # None /\ items' = Append(items, r)
             \/ Misses(refs[r] # None) /\ UNCHANGED items
          /\ UNCHANGED <<at, req, oid, base, i, complete, status>>
     \/ names = {} /\ Show(items)
     \/ req.op = "tags" /\ (\E r \in names : Misses(refs[r] # None)) /\ Show(items)
  /\ UNCHANGED gitVars

-----------------------------------------------------------------------------
(* referenceToOid and Commit: a name is looked up, an id may be taken as   *)
(* it is, and then the object must be a commit of the repository.          *)

Resolves(rev, id) == IF rev \in Refs THEN refs[rev] = id ELSE rev = id
Exists(rev) == rev \in objects \cup {Other} \/ (rev \in Refs /\ refs[rev] # None)

\* git_revwalk_push: its result is ignored, and the walk stays empty.
Push(id) ==
  \/ id \in objects /\ oid' = id
  \/ Misses(id \in objects) /\ oid' = None

ResolveRevision ==
  /\ at = "revision"
  /\ \/ \E id \in Ids :
          /\ Resolves(req.revision, id)
          /\ \/ req.op # "log" /\ oid' = id /\ Goto("commit")
             \/ req.op = "log" /\ Push(id) /\ Goto("walk")
     \/ Misses(Exists(req.revision)) /\ Fail("kNotFound")
  /\ UNCHANGED gitVars

LookupCommit ==
  /\ at = "commit"
  /\ \/ /\ oid \in objects
        /\ IF req.op = "commit" THEN Show(<<oid>>) ELSE Goto("tree") /\ UNCHANGED oid
     \/ Misses(oid \in objects) /\ Fail("kNotFound")
  /\ UNCHANGED gitVars

-----------------------------------------------------------------------------
(* repoGetTree, repoGetBlob, repoGetPatch and the archive. *)

HasTree == req.op = "tree" => req.path \in Dirs[oid] \cup {Root}

LookupTree ==
  /\ at = "tree"
  /\ \/ /\ HasTree
        /\ \/ req.op = "tree" /\ Show(<<oid>>)
           \/ req.op = "blob" /\ Goto("blob") /\ UNCHANGED oid
           \/ req.op = "archive" /\ Goto("send") /\ UNCHANGED oid
           \/ /\ req.op = "patch" /\ UNCHANGED oid
              /\ Goto(IF req.revision_old # None THEN "old" ELSE "parent")
     \/ Misses(HasTree) /\ Fail("kNotFound")
  /\ UNCHANGED gitVars

\* The path of a directory is an entry of the tree, but no blob.
LookupBlob ==
  /\ at = "blob"
  /\ \/ req.path \in Files[oid] /\ Show(<<oid>>)
     \/ Misses(req.path \in Files[oid]) /\ Fail("kNotFound")
  /\ UNCHANGED gitVars

\* The header has gone out as a success before the first file is read.
SendArchive ==
  /\ at = "send"
  /\ ShowFiles(<<oid>>)
  /\ UNCHANGED gitVars

\* Variant: the name is kept where its id belongs.
ResolveOldName ==
  /\ at = "old"
  /\ \/ \E id \in Ids :
          /\ Resolves(req.revision_old, id) /\ base' = req.revision_old
          /\ at' = "oldCommit"
          /\ UNCHANGED <<req, oid, names, i, items, complete, status>>
     \/ Misses(Exists(req.revision_old)) /\ Fail("kNotFound")
  /\ UNCHANGED gitVars

\* Variant: the old revision is resolved into the oid of the new one.
ResolveOldInPlace ==
  /\ at = "old"
  /\ \/ \E id \in Ids :
          /\ Resolves(req.revision_old, id) /\ base' = id /\ oid' = id
          /\ at' = "oldCommit"
          /\ UNCHANGED <<req, names, i, items, complete, status>>
     \/ Misses(Exists(req.revision_old)) /\ Fail("kNotFound")
  /\ UNCHANGED gitVars

ResolveOld ==
  /\ at = "old"
  /\ \/ \E id \in Ids :
          /\ Resolves(req.revision_old, id) /\ base' = id
          /\ at' = "oldCommit"
          /\ UNCHANGED <<req, oid, names, i, items, complete, status>>
     \/ Misses(Exists(req.revision_old)) /\ Fail("kNotFound")
  /\ UNCHANGED gitVars

LookupOld ==
  /\ at = "oldCommit"
  /\ \/ base \in objects /\ Goto("diff") /\ UNCHANGED oid
     \/ Misses(base \in objects) /\ Fail("kNotFound")
  /\ UNCHANGED gitVars

\* Variant: the number of parents is not looked at.
LookupParentAlways ==
  /\ at = "parent"
  /\ \/ /\ Parents[oid] # <<>>
        /\ base' = Parents[oid][1]
        /\ at' = "diff"
        /\ UNCHANGED <<req, oid, names, i, items, complete, status>>
     \/ Misses(Parents[oid] # <<>>) /\ Fail("kNotFound")
  /\ UNCHANGED gitVars

\* Without an old revision: the first parent, and nothing for a root.
LookupParent ==
  /\ at = "parent"
  /\ \/ /\ base' = IF Parents[oid] = <<>> THEN None ELSE Parents[oid][1]
        /\ at' = "diff"
        /\ UNCHANGED <<req, oid, names, i, items, complete, status>>
     \/ Parents[oid] # <<>> /\ dir # "whole" /\ Fail("kNotFound")
  /\ UNCHANGED gitVars

\* An old tree that cannot be read is taken for the empty one.
MakePatch ==
  /\ at = "diff"
  /\ \/ base # None /\ ShowFiles(<<base, oid>>)
     \/ Misses(base # None) /\ ShowFiles(<<oid>>)
     \/ dir # "whole" /\ Fail("kInternalError")
  /\ UNCHANGED gitVars

-----------------------------------------------------------------------------
(* repoGetLog. *)

\* Without a revision: git_revwalk_push_head, whose result is ignored too.
PushHead ==
  /\ at = "head"
  /\ Push(refs[HeadBranch])
  /\ Goto("walk")
  /\ UNCHANGED gitVars

Walk == IF oid = None THEN <<>> ELSE History[oid]

Limit == IF req.limit = 0 \/ req.limit > GitLogLimit THEN GitLogLimit ELSE req.limit

\* Variant: the loop goes one commit too far.
MoreLogInclusive == i <= (Limit + req.offset) % Modulus /\ i < Len(Walk)
MoreLog          == i < (Limit + req.offset) % Modulus /\ i < Len(Walk)

LogStep ==
  /\ at = "walk"
  /\ \/ /\ MoreLog
        /\ i' = i + 1
        /\ \/ i >= req.offset /\ items' = Append(items, Walk[i + 1])
           \/ i < req.offset /\ UNCHANGED items
           \/ dir # "whole" /\ UNCHANGED items
        /\ UNCHANGED <<at, req, oid, base, names, complete, status>>
     \/ ~ MoreLog /\ Show(items)
     \/ dir # "whole" /\ Show(items)
  /\ UNCHANGED gitVars

-----------------------------------------------------------------------------
PageStep ==
  \/ Open \/ ReadNames \/ ListRefs \/ ResolveRevision \/ LookupCommit
  \/ LookupTree \/ LookupBlob \/ SendArchive \/ ResolveOld \/ LookupOld
  \/ LookupParent \/ MakePatch \/ PushHead \/ LogStep

Next == Begin \/ PageStep \/ ReceivePack \/ DeleteRef \/ RemoveDir

Spec == Init /\ [][Next]_vars

\* The thread that serves a page goes on: no lookup waits for another process.
Fairness == WF_vars(PageStep)
=============================================================================
