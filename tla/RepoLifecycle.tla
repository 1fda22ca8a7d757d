--------------------------- MODULE RepoLifecycle ---------------------------
(***************************************************************************)
(* What a user of scissy may rely on about one repository id, without      *)
(* tables, threads or statements: an id is born once, lives, dies and      *)
(* never returns, and no directory is taken away from a living id.         *)
(***************************************************************************)
EXTENDS Naturals

CONSTANT Ids  \* the ids a repository can have, naturals

VARIABLES
  phase,  \* of each id: "unborn", "live" or "dead"
  dirs    \* the ids that have a directory

Init ==
  /\ phase = [i \in Ids |-> "unborn"]
  /\ dirs = {}

\* Ids are born in order.
Born(i) ==
  /\ phase[i] = "unborn"
  /\ \A j \in Ids : j < i => phase[j] # "unborn"
  /\ phase' = [phase EXCEPT ![i] = "live"]
  /\ UNCHANGED dirs

Dies(i) ==
  /\ phase[i] = "live"
  /\ phase' = [phase EXCEPT ![i] = "dead"]
  /\ UNCHANGED dirs

LosesDir(i) ==
  /\ phase[i] = "dead"
  /\ dirs' = dirs \ {i}
  /\ UNCHANGED phase

\* A directory may appear for any id: see the races of repoCreate.
GainsDirs ==
  /\ dirs \subseteq dirs'
  /\ UNCHANGED phase

Next == (\E i \in Ids : Born(i) \/ Dies(i) \/ LosesDir(i)) \/ GainsDirs

Spec == Init /\ [][Next]_<<phase, dirs>>
=============================================================================
