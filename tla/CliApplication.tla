---------------------------- MODULE CliApplication ---------------------------
(***************************************************************************)
(* An Application whose first hosted service owns the process signals      *)
(* (CliApplication.cpp).  While the service is started, a signal is stored *)
(* in PendingSignal by the handler and turned into a stop request by a     *)
(* monitor thread that polls it; stopping the service joins that thread    *)
(* and puts the previous handlers back.                                    *)
(***************************************************************************)
EXTENDS ApplicationLifecycle

CONSTANTS
  Monitor,               (* the monitor thread, one of Thread               *)
  Signal                 (* SIGINT and SIGTERM                              *)

ASSUME CliAssumption == Monitor \in Thread /\ Signal \subseteq Nat \ {0}

VARIABLES
  handlersOwned,         (* the handlers of the process are ours            *)
  pendingSignal,         (* PendingSignal, 0 when there is none             *)
  monitor,               (* none, polling, requesting or exited             *)
  signalTaken,           (* the signal the monitor took                     *)
  joining                (* the monitor was asked to stop                   *)

cli == <<handlersOwned, pendingSignal, monitor, signalTaken, joining>>
cliVars == <<vars, cli>>

CliService == 1          (* registered by the constructor, before any other *)

CliInit == /\ Init
           /\ handlersOwned = FALSE
           /\ pendingSignal = 0
           /\ monitor = "none"
           /\ signalTaken = 0
           /\ joining = FALSE

(* HandleProcessSignal; a later signal overwrites one not yet polled.       *)
HandleSignal(n) ==
  /\ handlersOwned
  /\ pendingSignal' = n
  /\ UNCHANGED <<vars, handlersOwned, monitor, signalTaken, joining>>

LeavesAfterPoll == "exited"
AfterPoll == "requesting"

Poll ==
  /\ monitor = "polling"
  /\ ~joining
  /\ pendingSignal # 0
  /\ signalTaken' = pendingSignal
  /\ pendingSignal' = 0
  /\ monitor' = AfterPoll
  /\ UNCHANGED <<vars, handlersOwned, joining>>

RawSignal(n) == n
ExitCodeOf(n) == 128 + n

MonitorRequests ==
  /\ monitor = "requesting"
  /\ winner # Monitor
  /\ \/ BeginRequest(Monitor, ExitCodeOf(signalTaken)) /\ UNCHANGED monitor
     \/ stopRequested /\ UNCHANGED <<lifetime, request>> /\ monitor' = "exited"
  /\ UNCHANGED <<app, handlersOwned, pendingSignal, signalTaken, joining>>

MonitorExits ==
  /\ \/ monitor = "polling" /\ joining
     \/ monitor = "requesting" /\ winner = Monitor /\ stopStep = "returned"
  /\ monitor' = "exited"
  /\ UNCHANGED <<vars, handlersOwned, pendingSignal, signalTaken, joining>>

(* SignalRegistration's constructor takes the process-wide ownership,       *)
(* installs the handlers and starts the monitor, or fails and leaves        *)
(* everything as it was.                                                    *)
Installs ==
  /\ handlersOwned' = TRUE
  /\ pendingSignal' = 0
  /\ monitor' = "polling"
  /\ UNCHANGED <<signalTaken, joining>>

CliEndStart ==
  /\ EndStart
  /\ IF started = <<>> /\ started' # <<>> THEN Installs ELSE UNCHANGED cli

AsksMonitor == Last(stopped') = CliService

CliStopNext ==
  /\ StopNext
  /\ joining' = (joining \/ AsksMonitor)
  /\ UNCHANGED <<handlersOwned, pendingSignal, monitor, signalTaken>>

(* The destructor of the registration: join, then restore the handlers.     *)
Joined == monitor = "exited"

Restores ==
  /\ Joined
  /\ handlersOwned' = FALSE
  /\ pendingSignal' = 0
  /\ UNCHANGED <<monitor, signalTaken, joining>>

CliEndStop ==
  /\ EndStop
  /\ IF Last(stopped) = CliService THEN Restores ELSE UNCHANGED cli

OtherRequest == \E t \in Requester \ {Monitor}, code \in Code : RequestStop(t, code)

Otherwise == \/ RunAsync \/ Configure \/ StartNext \/ EndStartup
             \/ AwaitStop \/ Resume \/ RequestStopOnFailure
             \/ BeginStopping \/ Flush \/ Return

CliStep == CliEndStart \/ CliStopNext \/ CliEndStop \/ (Otherwise /\ UNCHANGED cli)
MonitorStep == Poll \/ MonitorRequests \/ MonitorExits

CliNext == \/ \E n \in Signal : HandleSignal(n)
           \/ MonitorStep
           \/ CliStep
           \/ (OtherRequest \/ Deliver) /\ UNCHANGED cli

CliSpec == /\ CliInit
           /\ [][CliNext]_cliVars
           /\ WF_cliVars(CliStep)
           /\ WF_cliVars(Deliver /\ UNCHANGED cli)
           /\ WF_cliVars(MonitorStep)

------------------------------------------------------------------------------
(* Every variable has its type, those of the application included.          *)
CliTypeOK ==
  /\ Typed(Code \cup {0, 1} \cup {128 + n : n \in Signal})
  /\ handlersOwned \in BOOLEAN
  /\ pendingSignal \in Signal \cup {0}
  /\ monitor \in {"none", "polling", "requesting", "exited"}
  /\ signalTaken \in Signal \cup {0}
  /\ joining \in BOOLEAN

(* As long as another hosted service is running, a signal is turned into a  *)
(* stop request and does not kill the process: the signal service starts    *)
(* first and is stopped last.                                               *)
Unstopped == Range(started) \ Range(stopped)

HandlersOutliveServices == Unstopped \ {CliService} # {} => handlersOwned

(* A signal that was caught stops the application, whatever else asks for a *)
(* stop, fails or joins the monitor meanwhile.                              *)
SignalIsHonoured == (pendingSignal # 0) ~> stopRequested

(* Shutdown undoes startup backwards and completely, the signal handlers     *)
(* last, whichever start, stop or log call fails, the one that reports every *)
(* service started included (RunAsync, ~SignalRegistration).                 *)
TeardownOrder == HandlersOutliveServices /\ StoppedInReverse

(* A stop, by signal or by request, is honoured to the end of the run, with  *)
(* the monitor thread joined while it may be requesting one, and completes   *)
(* the waiting application once (Poll, ~SignalRegistration, StopSender).     *)
StopIsHonoured == SignalIsHonoured /\ StopFinishes /\ []CompletedOnce
==============================================================================
