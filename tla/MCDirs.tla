------------------------------- MODULE MCDirs -------------------------------
(* Two users who create repositories at once, or one who creates and      *)
(* deletes while the storage fails.                                        *)
EXTENDS ServiceProps

CONSTANTS alice, bob, alpha, beta, t1, t2

TwoThreads     == {t1, t2}
OneThread      == {t1}
MCLogins       == {alice, bob}
MCRepoNames    == {alpha, beta}
MCInitialUsers == {[user_id |-> 1, login |-> alice, role_id |-> kWriter],
                   [user_id |-> 2, login |-> bob, role_id |-> kWriter]}
MCMaxId        == [users |-> 2, groups |-> 0, repos |-> 2]
MCRowIds       == {1}

Msg(op, login) == [NoRequest EXCEPT !.op = op, !.as = login]

Creates == {[Msg("repoCreate", alice) EXCEPT !.name = alpha],
            [Msg("repoCreate", bob) EXCEPT !.name = beta]}
CreateAndDelete == {[Msg("repoCreate", alice) EXCEPT !.name = alpha],
                    [Msg("repoDelete", alice) EXCEPT !.repo = alpha]}
=============================================================================
