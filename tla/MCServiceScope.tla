---------------------------- MODULE MCServiceScope ----------------------------
(* Two threads and two scopes, one the child of the other or not.             *)
EXTENDS ServiceScope

CONSTANTS t1, t2, a, b

TwoThreads == {t1, t2}
TwoScopes == {a, b}
===============================================================================
