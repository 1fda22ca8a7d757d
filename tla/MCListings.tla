----------------------------- MODULE MCListings -----------------------------
(* Two repositories over three names, two users in two groups, of which    *)
(* one may have the empty name.                                            *)
EXTENDS Listings

CONSTANTS alice, bob, devs

MCInitialUsers == {[user_id |-> 1, login |-> alice, role_id |-> kWriter],
                   [user_id |-> 2, login |-> bob, role_id |-> kWriter]}
MCMaxId == [users |-> 2, groups |-> 2, repos |-> 2]

Msg(op, id, name) == [op |-> op, id |-> id, name |-> name]

MCRequests ==
  {Msg(op, 0, EmptyName) : op \in {"reposList", "groupsList"}}
  \cup {Msg(op, 1, EmptyName) : op \in {"repoGetInfo", "repoListMembers", "groupGetInfo", "groupListMembers"}}
  \cup {Msg(op, 0, devs) : op \in {"groupGetInfo", "groupListMembers"}}
=============================================================================
