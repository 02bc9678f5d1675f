--------------------------- MODULE MCCliApplication --------------------------
(* Two foreign threads that may request a stop with different exit codes,   *)
(* the monitor, and both signals; the signal service and two more services. *)
EXTENDS CliApplication

CONSTANTS t1, t2, monitorThread

Threads == {t1, t2, monitorThread}
ExitCodes == {0, 7}
Signals == {2, 15}
==============================================================================
