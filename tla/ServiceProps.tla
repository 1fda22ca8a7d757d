---------------------------- MODULE ServiceProps ----------------------------
(* What the handlers of module Service must guarantee together.            *)
EXTENDS Service

Ids == 1 .. MaxId.repos

Phase(i) ==
  IF i \in RepoIds THEN "live"
  ELSE IF i <= sqlite_sequence.repos THEN "dead" ELSE "unborn"

Lifecycle == INSTANCE RepoLifecycle
  WITH phase <- [i \in Ids |-> Phase(i)], dirs <- repoDirs

(***************************************************************************)
(* The handlers implement the life cycle of a repository: however their    *)
(* statements interleave, and over restarts, ids are given in order, a     *)
(* deleted id is never given again, and repoDelete, which removes the      *)
(* directory by an id it resolved several statements earlier, never takes  *)
(* the directory of a repository that exists (repositories.cc:82-89).      *)
(***************************************************************************)
LifecycleSpec == Lifecycle!Spec

(***************************************************************************)
(* Every change the handlers make is one statement the schema accepts.     *)
(***************************************************************************)
DatabaseSpec == DbSpec

-----------------------------------------------------------------------------
(* doc/doc.rst:75: "~/repos/${repo_id}/ stores the bare git repository".   *)

Creating(t) == pc[t] \in {"rowid", "init", "own", "undo"}

(***************************************************************************)
(* When no repoCreate is under way, every repository has its directory.    *)
(***************************************************************************)
EveryRepoHasDir ==
  (\A t \in Threads : ~ Creating(t)) => RepoIds \subseteq repoDirs
-----------------------------------------------------------------------------
(* The most statements and calls that a handler at a label still makes. *)

Left(label) ==
  CASE label = "idle" -> 0
    [] label \in {"undo", "grpUndo", "rm"} -> 1
    [] label = "own" -> 2
    [] label \in {"init", "getIdAgain"} -> 3
    [] label \in {"rowid", "getId"} -> 4
    [] label = "act" -> 5
    [] label \in {"role", "grpOwner"} -> 6
    [] label = "user" -> 7
    [] label = "grp" -> 8
    [] label = "repo" -> 9

(***************************************************************************)
(* No handler does a thing twice: whatever others change between its       *)
(* statements, whatever fails, and on every path that undoes what it did,  *)
(* each of its steps brings it closer to its answer, so that it makes at   *)
(* most nine (service.cc:447-1020, repositories.cc:34-89).                 *)
(***************************************************************************)
HandlersAdvance ==
  [][\A t \in Threads :
       pc[t] # "idle" /\ pc'[t] # pc[t] => Left(pc'[t]) < Left(pc[t])]_vars

-----------------------------------------------------------------------------
(* Nothing a handler does between two statements waits for another one.    *)

FairSpec == Spec /\ \A t \in Threads : WF_vars(Step(t))

(***************************************************************************)
(* Every request comes to its end, also when the rows its handler resolved *)
(* disappear under it, a statement fails or the process is restarted.      *)
(***************************************************************************)
HandlersEnd == \A t \in Threads : (pc[t] # "idle") ~> (pc[t] = "idle")
=============================================================================
