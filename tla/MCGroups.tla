------------------------------ MODULE MCGroups ------------------------------
(* Two threads over groups: carol administers, alice and visitors create.  *)
EXTENDS ServiceAudit, TLC

CONSTANTS alice, bob, carol, devs, t1, t2

MCThreads      == {t1, t2}
MCLogins       == {alice, bob, carol}
MCGroupNames   == {devs}
MCRepoNames    == {}
MCInitialUsers == {[user_id |-> 1, login |-> alice, role_id |-> kWriter],
                   [user_id |-> 2, login |-> carol, role_id |-> kWriter]}
MCMaxId        == [users |-> 3, groups |-> 2, repos |-> 0]
MCRowIds       == {1}

Msg(op, login) == [NoRequest EXCEPT !.op = op, !.as = login]

MCRequests ==
  {[Msg("groupCreate", u) EXCEPT !.name = devs] : u \in {alice, bob, NoName}}
  \cup {[Msg("groupDelete", u) EXCEPT !.grp = devs] : u \in {alice, carol}}
  \cup {[Msg("groupAddUser", alice) EXCEPT !.grp = devs, !.user = bob, !.role = r] :
          r \in {kWriter, kOwner}}
  \cup {[Msg("groupAddUser", carol) EXCEPT !.grp_id = 2, !.user = carol, !.role = kReader],
        [Msg("groupRemoveUser", bob) EXCEPT !.grp = devs, !.user_id = 1],
        [Msg("userCreate", NoName) EXCEPT !.name = bob]}

Symmetry == Permutations(MCThreads)
=============================================================================
