------------------------- MODULE MCOptionsPublication -------------------------
(* Two threads that change the provider, two values, and a predicate that    *)
(* rejects one of them.                                                      *)
EXTENDS OptionsPublication

CONSTANTS t1, t2, v0, v1

TwoThreads == {t1, t2}
TwoValues == {v0, v1}
OnePredicate == {{v0}}
===============================================================================
