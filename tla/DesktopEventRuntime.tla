------------------------- MODULE DesktopEventRuntime -------------------------
(***************************************************************************)
(* The command facade around one externally driven event pump              *)
(* (DesktopEventRuntime.cpp).  Any thread posts or submits commands, asks  *)
(* for a stop or destroys the facade; one thread calls Run and becomes the *)
(* event thread.  Every critical section of State::mutex is one step; the  *)
(* call of Wake that follows a critical section is a step of its own.      *)
(*                                                                         *)
(* Callbacks run on the event thread while the pump starts, dispatches a   *)
(* native event or stops, and while a command runs: there the event thread *)
(* may itself post, submit or request a stop.                              *)
(***************************************************************************)
EXTENDS Naturals, Sequences, Functions

CONSTANTS
  Thread,                (* the threads of the process                      *)
  NoThread,              (* the default std::thread::id                     *)
  Submits,               (* senders made by Submit, each started once       *)
  Posts                  (* operations handed to Post, each once            *)

ASSUME ThreadAssumption == NoThread \notin Thread
ASSUME OpAssumption == Submits \cap Posts = {}

VARIABLES
  phase, accepting, commands, eventThread,     (* struct State              *)
  pc,                    (* where the thread inside Run is                  *)
  pending,               (* Run's local deque of commands being drained     *)
  rejecting,             (* the local deque of commands being rejected      *)
  running,               (* commands in execution, the innermost last       *)
  wakeFlag,              (* the pump holds an unconsumed wake event         *)
  waking,                (* threads between a critical section and Wake     *)
  destroyed,             (* the facade object has been destroyed            *)
  called,                (* history: the operations handed over so far      *)
  ownPosts,              (* history: operations posted by the event thread  *)
  outcome                (* how each operation ended                        *)

state == <<phase, accepting, commands, eventThread>>
runner == <<pc, pending, rejecting, running>>
history == <<called, ownPosts, outcome>>
vars == <<state, runner, wakeFlag, waking, destroyed, history>>

Op == Submits \cup Posts
Phases == {"Ready", "Starting", "Running", "Stopping", "Stopped"}
Outcomes == {"none", "executed", "discarded", "refused"}
Steps == {"idle", "starting", "take", "drain", "pump", "dispatch", "stop",
          "finish", "reject", "done"}

Init == /\ phase = "Ready"
        /\ accepting = TRUE
        /\ commands = <<>>
        /\ eventThread = NoThread
        /\ pc = "idle"
        /\ pending = <<>>
        /\ rejecting = <<>>
        /\ running = <<>>
        /\ wakeFlag = FALSE
        /\ waking = {}
        /\ destroyed = FALSE
        /\ called = {}
        /\ ownPosts = {}
        /\ outcome = [op \in Op |-> "none"]

------------------------------------------------------------------------------
(* Which threads can be inside user code that calls the runtime: the event  *)
(* thread only from a callback, every other thread at any time; a thread    *)
(* that still has to call Wake is inside an earlier call.                   *)

InCallback == pc \in {"starting", "dispatch", "stop"} \/ running # <<>>

MayCall(t) == /\ t \notin waking
              /\ t = eventThread => InCallback

(* The event thread goes on with Run once the callbacks it made returned.   *)
AtStep(step) == /\ pc = step
                /\ running = <<>>
                /\ eventThread \notin waking

NeverWakes(t) == UNCHANGED waking
WakesForEventThread(t) == waking' = waking \cup {eventThread}

WakeIfRunning(t) ==
  waking' = IF phase = "Running" THEN waking \cup {t} ELSE waking

(* A critical section that takes the commands leaves an empty deque behind. *)
CopyOut == UNCHANGED commands
SwapOut == commands' = <<>>

------------------------------------------------------------------------------
(* Calls that hand over work.                                               *)

Post(t, op) ==
  /\ ~destroyed
  /\ MayCall(t)
  /\ op \in Posts \ called
  /\ called' = called \cup {op}
  /\ IF accepting
       THEN /\ commands' = Append(commands, op)
            /\ WakeIfRunning(t)
            /\ ownPosts' = IF t = eventThread THEN ownPosts \cup {op} ELSE ownPosts
            /\ UNCHANGED outcome
       ELSE /\ outcome' = [outcome EXCEPT ![op] = "refused"]
            /\ UNCHANGED <<commands, waking, ownPosts>>
  /\ UNCHANGED <<phase, accepting, eventThread, runner, wakeFlag, destroyed>>

ExecutesInline(t) == t = eventThread /\ phase \in {"Starting", "Running"}

(* A sender keeps State alive, so it may start after the facade is gone.    *)
Dispatch(t, op) ==
  /\ MayCall(t)
  /\ op \in Submits \ called
  /\ called' = called \cup {op}
  /\ \/ /\ ~accepting
        /\ outcome' = [outcome EXCEPT ![op] = "refused"]
        /\ UNCHANGED <<commands, running, waking>>
     \/ /\ accepting /\ ExecutesInline(t)
        /\ running' = Append(running, op)
        /\ UNCHANGED <<commands, waking, outcome>>
     \/ /\ accepting /\ ~ExecutesInline(t)
        /\ commands' = Append(commands, op)
        /\ WakeIfRunning(t)
        /\ UNCHANGED <<running, outcome>>
  /\ UNCHANGED <<phase, accepting, eventThread, pc, pending, rejecting,
                 wakeFlag, destroyed, ownPosts>>

(* IDesktopEventPump::Wake, sticky as SDL_PushEvent makes it.               *)
Wake(t) ==
  /\ t \in waking
  /\ waking' = waking \ {t}
  /\ wakeFlag' = TRUE
  /\ UNCHANGED <<state, runner, destroyed, history>>

------------------------------------------------------------------------------
(* Ending.                                                                  *)

(* The member function, or Run's stop callback, which owns a reference to   *)
(* State and therefore works after the facade is gone.                      *)
RequestStop(t) ==
  /\ ~destroyed \/ pc \notin {"idle", "done"}
  /\ MayCall(t)
  /\ accepting
  /\ accepting' = FALSE
  /\ WakeIfRunning(t)
  /\ UNCHANGED <<phase, commands, eventThread, runner, wakeFlag, destroyed, history>>

NeverServed == phase = "Ready"

Abandon(t) ==
  /\ ~destroyed
  /\ MayCall(t)
  /\ destroyed' = TRUE
  /\ accepting' = FALSE
  /\ WakeIfRunning(t)
  /\ IF NeverServed
       THEN /\ phase' = "Stopped"
            /\ rejecting' = commands
            /\ SwapOut
       ELSE UNCHANGED <<phase, rejecting, commands>>
  /\ UNCHANGED <<eventThread, pc, pending, running, wakeFlag, history>>

------------------------------------------------------------------------------
(* Run.                                                                     *)

Run(t) ==
  /\ ~destroyed
  /\ t \notin waking
  /\ phase = "Ready"
  /\ phase' = "Starting"
  /\ eventThread' = t
  /\ pc' = "starting"
  /\ UNCHANGED <<accepting, commands, pending, rejecting, running, wakeFlag,
                 waking, destroyed, history>>

StartSucceeds ==
  /\ AtStep("starting")
  /\ phase' = "Running"
  /\ pc' = "take"
  /\ UNCHANGED <<accepting, commands, eventThread, pending, rejecting, running,
                 wakeFlag, waking, destroyed, history>>

StartFails ==
  /\ AtStep("starting")
  /\ accepting' = FALSE
  /\ phase' = "Stopped"
  /\ eventThread' = NoThread
  /\ rejecting' = commands
  /\ SwapOut
  /\ pc' = "reject"
  /\ UNCHANGED <<pending, running, wakeFlag, waking, destroyed, history>>

StopAtOnce == ~accepting
StopNow == ~accepting /\ commands = <<>>

Take ==
  /\ AtStep("take")
  /\ pending' = commands
  /\ SwapOut
  /\ IF StopNow
       THEN phase' = "Stopping" /\ pc' = "stop"
       ELSE pc' = "drain" /\ UNCHANGED phase
  /\ UNCHANGED <<accepting, eventThread, rejecting, running, wakeFlag, waking,
                 destroyed, history>>

Execute ==
  /\ AtStep("drain")
  /\ pending # <<>>
  /\ running' = <<Head(pending)>>
  /\ pending' = Tail(pending)
  /\ UNCHANGED <<state, pc, rejecting, wakeFlag, waking, destroyed, history>>

(* The innermost command returns, or throws: Run swallows what a Post       *)
(* throws and a sender hands it to its receiver.                            *)
Complete ==
  /\ running # <<>>
  /\ eventThread \notin waking
  /\ outcome' = [outcome EXCEPT ![running[Len(running)]] = "executed"]
  /\ running' = SubSeq(running, 1, Len(running) - 1)
  /\ UNCHANGED <<state, pc, pending, rejecting, wakeFlag, waking, destroyed,
                 called, ownPosts>>

PumpWhileOpen == accepting
ContinuePumping == accepting /\ commands = <<>>

CheckQueue ==
  /\ AtStep("drain")
  /\ pending = <<>>
  /\ pc' = IF ContinuePumping THEN "pump" ELSE "take"
  /\ UNCHANGED <<state, pending, rejecting, running, wakeFlag, waking,
                 destroyed, history>>

PumpWoken ==
  /\ AtStep("pump")
  /\ wakeFlag
  /\ wakeFlag' = FALSE
  /\ pc' = "take"
  /\ UNCHANGED <<state, pending, rejecting, running, waking, destroyed, history>>

PumpTimeout ==
  /\ AtStep("pump")
  /\ pc' = "take"
  /\ UNCHANGED <<state, pending, rejecting, running, wakeFlag, waking,
                 destroyed, history>>

NativeEvent ==
  /\ AtStep("pump")
  /\ pc' = "dispatch"
  /\ UNCHANGED <<state, pending, rejecting, running, wakeFlag, waking,
                 destroyed, history>>

EndDispatch ==
  /\ AtStep("dispatch")
  /\ pc' = "take"
  /\ UNCHANGED <<state, pending, rejecting, running, wakeFlag, waking,
                 destroyed, history>>

PumpStopped ==
  /\ AtStep("stop")
  /\ pc' = "finish"
  /\ UNCHANGED <<state, pending, rejecting, running, wakeFlag, waking,
                 destroyed, history>>

Finish ==
  /\ AtStep("finish")
  /\ phase' = "Stopped"
  /\ eventThread' = NoThread
  /\ rejecting' = commands
  /\ SwapOut
  /\ pc' = "reject"
  /\ UNCHANGED <<accepting, pending, running, wakeFlag, waking, destroyed, history>>

(* One iteration of a rejection loop, in Run or in Abandon; a Post has no   *)
(* reject function and is dropped.                                          *)
RejectNext ==
  /\ rejecting # <<>>
  /\ outcome' = [outcome EXCEPT ![Head(rejecting)] = "discarded"]
  /\ rejecting' = Tail(rejecting)
  /\ UNCHANGED <<state, pc, pending, running, wakeFlag, waking, destroyed,
                 called, ownPosts>>

Return ==
  /\ AtStep("reject")
  /\ rejecting = <<>>
  /\ pc' = "done"
  /\ UNCHANGED <<state, pending, rejecting, running, wakeFlag, waking,
                 destroyed, history>>

------------------------------------------------------------------------------
Call(t) == \/ \E op \in Posts : Post(t, op)
           \/ \E op \in Submits : Dispatch(t, op)
           \/ RequestStop(t)
           \/ Abandon(t)
           \/ Run(t)
           \/ Wake(t)

Loop == \/ StartSucceeds \/ StartFails
        \/ Take \/ Execute \/ Complete \/ CheckQueue
        \/ PumpWoken \/ PumpTimeout \/ NativeEvent \/ EndDispatch
        \/ PumpStopped \/ Finish \/ RejectNext \/ Return

Next == (\E t \in Thread : Call(t)) \/ Loop

Spec == Init /\ [][Next]_vars

(* Run goes on as long as it is not blocked in the pump; callbacks and      *)
(* commands return; a thread that left its critical section calls Wake.     *)
(* Nothing is assumed of the 50 ms timeout, of native events or of callers. *)
Fairness ==
  /\ WF_vars(StartSucceeds \/ StartFails)
  /\ WF_vars(Take \/ Execute \/ Complete \/ CheckQueue)
  /\ WF_vars(PumpWoken)
  /\ WF_vars(EndDispatch \/ PumpStopped \/ Finish)
  /\ WF_vars(RejectNext \/ Return)
  /\ \A t \in Thread : WF_vars(Wake(t))

FairSpec == Spec /\ Fairness

------------------------------------------------------------------------------
ControlType == /\ phase \in Phases
               /\ eventThread \in Thread \cup {NoThread}
               /\ pc \in Steps
               /\ accepting \in BOOLEAN
               /\ wakeFlag \in BOOLEAN
               /\ destroyed \in BOOLEAN
               /\ waking \in SUBSET Thread

QueueType == /\ commands \in Seq(Op)
             /\ pending \in Seq(Op)
             /\ rejecting \in Seq(Op)
             /\ running \in Seq(Op)

HistoryType == /\ called \in SUBSET Op
               /\ ownPosts \in SUBSET Op
               /\ outcome \in [Op -> Outcomes]

(* Every variable has its type.                                             *)
TypeOK == ControlType /\ QueueType /\ HistoryType

InFlight == Range(commands) \cup Range(pending)
              \cup Range(rejecting) \cup Range(running)

Apart(s, u) == Range(s) \cap Range(u) = {}

(* An operation handed over is held at exactly one position of one deque    *)
(* until it ends and nowhere afterwards: none is lost or duplicated while   *)
(* the deques are swapped and drained outside the lock, none is run twice,  *)
(* or both run and rejected.                                                *)
HeldExactlyOnce ==
  /\ IsInjective(commands) /\ IsInjective(pending)
  /\ IsInjective(rejecting) /\ IsInjective(running)
  /\ Apart(commands, pending) /\ Apart(commands, rejecting) /\ Apart(commands, running)
  /\ Apart(pending, rejecting) /\ Apart(pending, running) /\ Apart(rejecting, running)
  /\ InFlight = {op \in called : outcome[op] = "none"}
  /\ \A op \in Op \ called : outcome[op] = "none"

(* When the pump is stopped admission is closed and no accepted command is  *)
(* left anywhere, which is what makes the rejection loop at the end of Run  *)
(* "only a defensive completion path".                                      *)
DrainedBeforeStop ==
  pc \in {"stop", "finish"} =>
    /\ ~accepting
    /\ commands = <<>> /\ pending = <<>> /\ running = <<>>

(* Work that an event callback posted is executed before the pump is asked  *)
(* for the next native event, the ordering IDesktopEventPump promises       *)
(* across the windowing and input adapters.                                 *)
OwnPostsPrecedeNextEvent ==
  pc = "pump" => \A op \in ownPosts : outcome[op] = "executed"

(* Whenever the event thread is about to block in the pump although there   *)
(* is a command to run or a stop to honour, a wake is pending or a thread   *)
(* is on its way to Wake.                                                   *)
NoLostWakeup ==
  pc = "pump" /\ (commands # <<>> \/ ~accepting) => wakeFlag \/ waking # {}

(* While Run drives the pump, nothing that is waiting is discarded,         *)
(* whatever stop or destruction of the facade races with it.                *)
Driving == pc \in {"take", "drain", "pump", "dispatch", "stop", "finish"}

AcceptedIsExecuted ==
  [][Driving => \A op \in Op : outcome[op] = "none" => outcome'[op] # "discarded"]_vars

(* A requested stop ends the run without help from the pump's timeout.      *)
StopEndsRun == (~accepting /\ pc # "idle") ~> (pc = "done")

(* A command queued while the pump runs is executed without help from the   *)
(* pump's timeout or from native events.                                    *)
QueuedIsExecuted ==
  \A op \in Op :
    (phase = "Running" /\ op \in Range(commands)) ~> (outcome[op] = "executed")

(* Whatever is accepted or asked for while Run goes on is served by Run      *)
(* itself, timeout and native events aside (Post, RequestStop, Run).         *)
RunMakesProgress == StopEndsRun /\ QueuedIsExecuted

------------------------------------------------------------------------------
(* The queue a caller sees: what is being drained or rejected comes before  *)
(* what was accepted since.                                                 *)
ExecutorMode ==
  CASE phase \in {"Ready", "Starting"} -> "waiting"
    [] phase = "Running" -> "serving"
    [] phase \in {"Stopping", "Stopped"} -> "over"

Executor == INSTANCE CommandExecutor WITH
  open <- accepting, mode <- ExecutorMode,
  queue <- rejecting \o pending \o commands,
  active <- running, outcome <- outcome

(* The runtime implements the executor: first in, first out, each command   *)
(* once, discarded only when the pump never started.                        *)
ImplementsExecutor == Executor!Spec
==============================================================================
