------------------------------ MODULE MCFaults ------------------------------
(* Two threads on one repository and one group, when everything may fail:  *)
(* statements, git_repository_init, the process.                           *)
EXTENDS ServiceProps

CONSTANTS alice, bob, devs, alpha, t1, t2

MCThreads      == {t1, t2}
MCLogins       == {alice, bob}
MCGroupNames   == {devs}
MCRepoNames    == {alpha}
MCInitialUsers == {[user_id |-> 1, login |-> alice, role_id |-> kOwner]}
MCMaxId        == [users |-> 2, groups |-> 1, repos |-> 1]
MCRowIds       == {1}

Msg(op, login) == [NoRequest EXCEPT !.op = op, !.as = login]

MCRequests ==
  {[Msg("userCreate", NoName) EXCEPT !.name = bob],
   [Msg("repoCreate", alice) EXCEPT !.name = alpha],
   [Msg("groupCreate", alice) EXCEPT !.name = devs],
   [Msg("groupDelete", alice) EXCEPT !.grp = devs],
   [Msg("groupAddUser", alice) EXCEPT !.grp = devs, !.user = alice, !.role = kOwner],
   [Msg("groupRemoveUser", alice) EXCEPT !.grp = devs, !.user_id = 1],
   [Msg("repoAddGroup", alice) EXCEPT !.repo = alpha, !.grp_id = 1, !.role = kReader],
   [Msg("repoUpdate", alice) EXCEPT !.repo = alpha, !.name = alpha],
   [Msg("repoAddUser", alice) EXCEPT !.repo = alpha, !.user_id = 2, !.role = kOwner],
   [Msg("repoRemoveUser", alice) EXCEPT !.repo_id = 1, !.user = bob],
   [Msg("repoRemoveGroup", alice) EXCEPT !.repo = alpha, !.grp_id = 1],
   [Msg("repoDelete", alice) EXCEPT !.repo = alpha]}
=============================================================================
