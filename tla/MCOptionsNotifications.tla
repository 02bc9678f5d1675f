------------------------ MODULE MCOptionsNotifications ------------------------
(* Threads that publish, observe and reset from outside and from callbacks.  *)
EXTENDS OptionsNotifications

CONSTANTS t1, t2, a, b

TwoThreads == {t1, t2}
TwoSlots == {a, b}
===============================================================================
