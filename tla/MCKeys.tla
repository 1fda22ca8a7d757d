------------------------------- MODULE MCKeys -------------------------------
(* Three keys, two serving threads.                                        *)
EXTENDS AuthorizedKeys

CONSTANTS t1, t2

MCKeySet    == 1 .. 3
TwoHandlers == {t1, t2}
=============================================================================
