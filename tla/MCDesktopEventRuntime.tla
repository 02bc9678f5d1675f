------------------------ MODULE MCDesktopEventRuntime ------------------------
(* Two threads, either of which may become the event thread, and a few      *)
(* operations of each kind.                                                 *)
EXTENDS DesktopEventRuntime

CONSTANTS t1, t2, s1, s2, p1, p2

TwoThreads == {t1, t2}
TwoSubmits == {s1, s2}
TwoPosts == {p1, p2}
==============================================================================
