------------------------- MODULE ApplicationLifecycle ------------------------
(***************************************************************************)
(* One run of an Application (Application.cpp) against concurrent requests *)
(* to stop it (ApplicationLifetime.cpp).  The application thread runs the  *)
(* coroutine RunAsync; other threads call RequestStop, and so may the      *)
(* application thread from inside a hosted service or on a failure.        *)
(*                                                                         *)
(* RequestStop is three steps: the critical section that records the       *)
(* request and takes the waiter, the signal to the stop token, and the     *)
(* completion of the waiter.  Only the first request gets past the first.  *)
(***************************************************************************)
EXTENDS Integers, Sequences, SequencesExt

CONSTANTS
  ServiceCount,          (* hosted services, in registration order          *)
  Thread,                (* threads that may request a stop                 *)
  App,                   (* the application thread                          *)
  NoThread,
  Code                   (* exit codes callers pass to RequestStop          *)

ASSUME LifecycleAssumption ==
  /\ ServiceCount \in Nat
  /\ App \notin Thread
  /\ NoThread \notin Thread \cup {App}
  /\ Code \subseteq Nat

VARIABLES
  appState,              (* Impl::state                                     *)
  pc,                    (* where RunAsync is                               *)
  started,               (* startedServices                                 *)
  stopped,               (* services whose StopAsync was called, in order   *)
  failure,               (* the first failure is remembered                 *)
  stopRequested, exitCode, tokenRequested, waiter,   (* ApplicationLifetime *)
  winner,                (* the thread whose RequestStop got through        *)
  stopStep,              (* how far that call is                            *)
  holdsWaiter            (* that call took the waiter out                   *)

app == <<appState, pc, started, stopped, failure>>
lifetime == <<stopRequested, exitCode, tokenRequested, waiter>>
request == <<winner, stopStep, holdsWaiter>>
vars == <<app, lifetime, request>>

Requester == Thread \cup {App}
FailureCode == 1

States == {"Created", "Starting", "Running", "Stopping", "Stopped", "Failed"}
Steps == {"created", "configuring", "starting", "inStart", "failing", "awaiting",
          "waiting", "closing", "stopping", "inStop", "flushed", "done"}

Init == /\ appState = "Created"
        /\ pc = "created"
        /\ started = <<>>
        /\ stopped = <<>>
        /\ failure = FALSE
        /\ stopRequested = FALSE
        /\ exitCode = 0
        /\ tokenRequested = FALSE
        /\ waiter = "none"
        /\ winner = NoThread
        /\ stopStep = "none"
        /\ holdsWaiter = FALSE

------------------------------------------------------------------------------
(* RequestStop.                                                             *)

FirstRequest == ~stopRequested

BeginRequest(t, code) ==
  /\ FirstRequest
  /\ exitCode' = code
  /\ stopRequested' = TRUE
  /\ holdsWaiter' = (waiter = "registered")
  /\ waiter' = IF waiter = "registered" THEN "none" ELSE waiter
  /\ winner' = t
  /\ stopStep' = "signal"
  /\ UNCHANGED tokenRequested

(* A caller of RequestStop: any thread, or the application thread while a   *)
(* hosted service runs on it.  A request that is not the first returns      *)
(* false and changes nothing.                                               *)
RequestStop(t, code) ==
  /\ t = App => pc \in {"inStart", "inStop"} /\ winner # App
  /\ BeginRequest(t, code)
  /\ UNCHANGED app

SignalToken ==
  /\ stopStep = "signal"
  /\ tokenRequested' = TRUE
  /\ stopStep' = "release"
  /\ UNCHANGED <<app, stopRequested, exitCode, waiter, winner, holdsWaiter>>

(* Completing the waiter reschedules the coroutine on its own thread.       *)
ReleaseWaiter ==
  /\ stopStep = "release"
  /\ stopStep' = "returned"
  /\ waiter' = IF holdsWaiter THEN "released" ELSE waiter
  /\ UNCHANGED <<app, stopRequested, exitCode, tokenRequested, winner, holdsWaiter>>

------------------------------------------------------------------------------
(* RunAsync.  The application thread is not inside RequestStop.             *)

AppAt(step) == /\ pc = step
               /\ winner = App => stopStep = "returned"

RunAsync ==
  /\ AppAt("created")
  /\ appState' = "Starting"
  /\ pc' = "configuring"
  /\ UNCHANGED <<started, stopped, failure, lifetime, request>>

(* The provider is built and every hosted service resolved, or not.         *)
Configure ==
  /\ AppAt("configuring")
  /\ \/ pc' = "starting" /\ UNCHANGED failure
     \/ pc' = "failing" /\ failure' = TRUE
  /\ UNCHANGED <<appState, started, stopped, lifetime, request>>

StartNext ==
  /\ AppAt("starting")
  /\ Len(started) < ServiceCount
  /\ ~tokenRequested
  /\ pc' = "inStart"
  /\ UNCHANGED <<appState, started, stopped, failure, lifetime, request>>

(* StartAsync completes, throws or is cancelled.                            *)
EndStart ==
  /\ AppAt("inStart")
  /\ \/ /\ started' = Append(started, Len(started) + 1)
        /\ pc' = "starting"
        /\ UNCHANGED failure
     \/ /\ pc' = "failing"
        /\ failure' = TRUE
        /\ UNCHANGED started
  /\ UNCHANGED <<appState, stopped, lifetime, request>>

(* The last service has started, or a stop has been requested meanwhile.    *)
(* Whether one has is asked once; an application that is not to stop logs   *)
(* that it has started, and that call may throw with every service started. *)
EndStartup ==
  /\ AppAt("starting")
  /\ Len(started) = ServiceCount \/ tokenRequested
  /\ \/ stopRequested /\ pc' = "closing" /\ UNCHANGED failure
     \/ ~stopRequested /\ pc' = "awaiting" /\ UNCHANGED failure
     \/ ~stopRequested /\ pc' = "failing" /\ failure' = TRUE
  /\ UNCHANGED <<appState, started, stopped, lifetime, request>>

StillWanted == ~stopRequested

(* StopSender::Operation::start, one critical section: the waiter and the   *)
(* state Running appear together or not at all.                             *)
AwaitStop ==
  /\ AppAt("awaiting")
  /\ IF StillWanted
       THEN /\ waiter' = "registered"
            /\ appState' = "Running"
            /\ pc' = "waiting"
       ELSE /\ pc' = "closing"
            /\ UNCHANGED <<waiter, appState>>
  /\ UNCHANGED <<started, stopped, failure, stopRequested, exitCode,
                 tokenRequested, request>>

Resume ==
  /\ AppAt("waiting")
  /\ waiter = "released"
  /\ pc' = "closing"
  /\ UNCHANGED <<appState, started, stopped, failure, lifetime, request>>

(* The catch block of the startup: RequestStop(1), which may lose.          *)
RequestStopOnFailure ==
  /\ AppAt("failing")
  /\ pc' = "closing"
  /\ \/ BeginRequest(App, FailureCode)
     \/ stopRequested /\ UNCHANGED <<lifetime, request>>
  /\ UNCHANGED <<appState, started, stopped, failure>>

(* A log call may throw: the first failure is remembered, cleanup goes on.  *)
MayFail == failure' \in {failure, TRUE}

BeginStopping ==
  /\ AppAt("closing")
  /\ appState' = "Stopping"
  /\ MayFail
  /\ pc' = "stopping"
  /\ UNCHANGED <<started, stopped, lifetime, request>>

NextToStopForward == started[Len(stopped) + 1]
NextToStop == started[Len(started) - Len(stopped)]

StopNext ==
  /\ AppAt("stopping")
  /\ Len(stopped) < Len(started)
  /\ stopped' = Append(stopped, NextToStop)
  /\ pc' = "inStop"
  /\ UNCHANGED <<appState, started, failure, lifetime, request>>

EndStop ==
  /\ AppAt("inStop")
  /\ MayFail
  /\ pc' = "stopping"
  /\ UNCHANGED <<appState, started, stopped, lifetime, request>>

Flush ==
  /\ AppAt("stopping")
  /\ Len(stopped) = Len(started)
  /\ MayFail
  /\ pc' = "flushed"
  /\ UNCHANGED <<appState, started, stopped, lifetime, request>>

(* The result is the recorded exit code, or the failure is rethrown.        *)
Return ==
  /\ AppAt("flushed")
  /\ appState' = IF failure THEN "Failed" ELSE "Stopped"
  /\ pc' = "done"
  /\ UNCHANGED <<started, stopped, failure, lifetime, request>>

------------------------------------------------------------------------------
Request == \E t \in Requester, code \in Code : RequestStop(t, code)
Deliver == SignalToken \/ ReleaseWaiter
Startup == RunAsync \/ Configure \/ StartNext \/ EndStart \/ EndStartup
Shutdown == \/ AwaitStop \/ Resume \/ RequestStopOnFailure \/ BeginStopping
            \/ StopNext \/ EndStop \/ Flush \/ Return

Next == Request \/ Deliver \/ Startup \/ Shutdown

Spec == Init /\ [][Next]_vars

(* The application thread and the thread inside RequestStop keep going;     *)
(* hosted services return.  Nobody has to request a stop.                   *)
FairSpec == /\ Spec
            /\ WF_vars(Startup \/ Shutdown)
            /\ WF_vars(Deliver)

------------------------------------------------------------------------------
(* Every variable has its type, the exit code being one of codes.           *)
Typed(codes) ==
  /\ appState \in States
  /\ pc \in Steps
  /\ started \in Seq(1 .. ServiceCount)
  /\ stopped \in Seq(1 .. ServiceCount)
  /\ failure \in BOOLEAN
  /\ stopRequested \in BOOLEAN
  /\ exitCode \in codes
  /\ tokenRequested \in BOOLEAN
  /\ waiter \in {"none", "registered", "released"}
  /\ winner \in Requester \cup {NoThread}
  /\ stopStep \in {"none", "signal", "release", "returned"}
  /\ holdsWaiter \in BOOLEAN

(* Every variable has its type.                                             *)
TypeOK == Typed(Code \cup {0, 1})

(* Services are stopped in the reverse of the order in which their start    *)
(* succeeded, and when the run is over all of them have been, whichever     *)
(* start, stop or log call failed and whenever the stop was requested.      *)
StoppedInReverse ==
  /\ IsPrefix(stopped, Reverse(started))
  /\ pc = "done" => stopped = Reverse(started)

(* An application that waits will be released: it never starts to wait once *)
(* a stop has been requested, and a request that comes later finds the      *)
(* waiter, whichever of the threads got to the critical section first.      *)
WaiterIsReachable ==
  pc = "waiting" =>
    \/ waiter = "registered" /\ ~stopRequested
    \/ holdsWaiter /\ stopStep \in {"signal", "release"}
    \/ waiter = "released"

(* A waiter is completed once: whoever has taken it out, and has yet to     *)
(* complete it, holds that of an application that still waits, and nobody   *)
(* finds it again (StopSender::Operation, RequestStop).                     *)
CompletedOnce ==
  holdsWaiter /\ stopStep \in {"signal", "release"} => pc = "waiting" /\ waiter = "none"

(* After a stop request an application that was run finishes.               *)
StopFinishes == (stopRequested /\ pc # "created") ~> (pc = "done")

(* "Token requested when application shutdown begins": no service is        *)
(* stopped before the token it was started with is signalled.  The second   *)
(* and third steps of RequestStop race with the application thread, which   *)
(* looks at stopRequested only.                                             *)
TokenSignalledBeforeStop == pc = "inStop" => tokenRequested
==============================================================================
