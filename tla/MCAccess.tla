------------------------------ MODULE MCAccess ------------------------------
(* Visitors, one user who may sign up and become administrator; one        *)
(* repository name that may pass from one id to the next; one group.       *)
EXTENDS AccessAudit

CONSTANTS alice, devs, alpha

MCLogins       == {alice}
MCGroupNames   == {devs}
MCRepoNames    == {alpha}
MCInitialUsers == {}
MCMaxId        == [users |-> 1, groups |-> 1, repos |-> 2]
MCRowIds       == {1}
=============================================================================
