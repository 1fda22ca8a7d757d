---------------------------- MODULE MCLifecycle ----------------------------
(* Two threads that create, delete, rename and share repositories through  *)
(* users and a group, for owners, readers and strangers.  Both users are   *)
(* administrators already: no repository handler asks.                     *)
EXTENDS ServiceAudit, TLC

CONSTANTS alice, bob, devs, alpha, beta, t1, t2

MCThreads      == {t1, t2}
MCLogins       == {alice, bob}
MCGroupNames   == {devs}
MCRepoNames    == {alpha, beta}
MCInitialUsers == {[user_id |-> 1, login |-> alice, role_id |-> kOwner],
                   [user_id |-> 2, login |-> bob, role_id |-> kOwner]}
MCMaxId        == [users |-> 2, groups |-> 1, repos |-> 2]
MCRowIds       == {1}

Msg(op, login) == [NoRequest EXCEPT !.op = op, !.as = login]

MCRequests ==
  {[Msg("repoCreate", alice) EXCEPT !.name = alpha],
   [Msg("groupCreate", bob) EXCEPT !.name = devs],
   [Msg("groupRemoveUser", bob) EXCEPT !.grp = devs, !.user = bob],
   [Msg("repoAddUser", alice) EXCEPT !.repo = alpha, !.user = bob, !.role = kWriter],
   [Msg("repoRemoveUser", bob) EXCEPT !.repo = alpha, !.user_id = 1],
   [Msg("repoDelete", bob) EXCEPT !.repo = alpha],
   [Msg("repoUpdate", bob) EXCEPT !.repo_id = 1, !.name = beta, !.is_public = TRUE],
   [Msg("repoUpdate", alice) EXCEPT !.repo = beta, !.name = alpha],
   [Msg("repoAddGroup", alice) EXCEPT !.repo = alpha, !.grp = devs, !.role = kOwner],
   [Msg("repoRemoveGroup", bob) EXCEPT !.repo = alpha, !.grp = devs]}

Symmetry == Permutations(MCThreads)
=============================================================================
