---------------------------- MODULE GuiApplication ----------------------------
(***************************************************************************)
(* GuiApplication::Run over the default desktop backend: the caller drives *)
(* the event runtime while a worker runs the application, whose first      *)
(* hosted service composes the root window, its input context and a service*)
(* scope into a WindowSession.  Window and scope end each other: a closing *)
(* is handed to the worker of ScopeEndDispatcher.  The event runtime is    *)
(* taken by what it promises, CommandExecutor.  ServiceScope's protocol is *)
(* reduced to the two cleanups of the session; other ends join the first.  *)
(***************************************************************************)
EXTENDS ApplicationLifecycle

CONSTANTS Caller, Ender, User      (* threads besides the worker *)

ASSUME GuiAssumption == /\ {Caller, Ender, User} \subseteq Thread
                        /\ Cardinality({Caller, Ender, User}) = 3
                        /\ ServiceCount > 0 /\ FailureCode \in Code

VARIABLES
  open, mode, queue, active, outcome,        (* the event runtime             *)
  succeeded,             (* creations that gave an object                     *)
  rooted,                (* a root window is configured                       *)
  window, context,       (* the root's facades: none, open or destroyed       *)
  stoppedManagers,       (* of input and windows                              *)
  coordinator,           (* where its StartAsync is                           *)
  session,               (* the root session                                  *)
  scope, endStep,        (* its scope, and the cleanup that is next           *)
  endCall,               (* who has called EndAsync of it                     *)
  pending, endWorker,    (* ScopeEndDispatcher                                *)
  caller, pumpFailed,    (* Run on the calling thread                         *)
  worker                 (* the application thread after application.Run      *)

Commands == {"createWindow", "createContext", "rollbackContext", "rollbackWindow",
             "endContext", "endWindow", "stopInput", "stopWindows", "userDestroy"}

Executor == INSTANCE CommandExecutor WITH Op <- Commands

executor == <<open, mode, queue, active, outcome>>
desktop == <<succeeded, window, context, stoppedManagers>>
composition == <<rooted, coordinator>>
ending == <<session, scope, endStep, endCall>>
dispatcher == <<pending, endWorker>>
running == <<caller, pumpFailed, worker>>
guiVars == <<vars, executor, desktop, composition, ending, dispatcher, running>>

Coordinator == 1         (* registered by the constructor, before any other  *)
Agents == {App, Ender, User}
NoSession == [subscribed |-> FALSE, published |-> FALSE, owned |-> FALSE, endQueued |-> FALSE]

GuiInit ==
  /\ Init
  /\ Executor!Init
  /\ succeeded = {}
  /\ rooted \in BOOLEAN
  /\ window = "none" /\ context = "none" /\ stoppedManagers = {}
  /\ coordinator = "idle"
  /\ session = NoSession /\ scope = "none" /\ endStep = "none"
  /\ endCall = [a \in Agents |-> "none"]
  /\ pending = <<>> /\ endWorker = "idle"
  /\ caller = "start" /\ pumpFailed = FALSE /\ worker = "application"

(* A task of a manager: its command is admitted, or refused.                 *)
Submit(op) == Executor!Admit(op) \/ Executor!Refuse(op)
Answered(op) == outcome[op] # "none"

------------------------------------------------------------------------------
(* GuiApplicationCoordinator::StartAsync.                                    *)

StartingHere == pc = "inStart" /\ started = <<>>

CreateRootWindow ==
  /\ StartingHere
  /\ coordinator = "idle"
  /\ IF rooted THEN Submit("createWindow") /\ coordinator' = "window"
               ELSE UNCHANGED executor /\ coordinator' = "started"
  /\ UNCHANGED <<vars, desktop, rooted, ending, dispatcher, running>>

RootWindowCreated ==
  /\ coordinator = "window" /\ Answered("createWindow")
  /\ coordinator' = IF "createWindow" \in succeeded THEN "input" ELSE "failed"
  /\ UNCHANGED <<vars, executor, desktop, rooted, ending, dispatcher, running>>

KeepsWindow == "failed"
RollbackWithoutContext == "rollbackWindow"

(* CreateForWindowAsync refuses a window that is not open any more.          *)
CreateForWindow ==
  /\ coordinator = "input"
  /\ IF window = "open"
     THEN Submit("createContext") /\ coordinator' = "context"
     ELSE UNCHANGED executor /\ coordinator' = RollbackWithoutContext
  /\ UNCHANGED <<vars, desktop, rooted, ending, dispatcher, running>>

ContextCreated ==
  /\ coordinator = "context" /\ Answered("createContext")
  /\ coordinator' = IF "createContext" \in succeeded THEN "session" ELSE RollbackWithoutContext
  /\ UNCHANGED <<vars, executor, desktop, rooted, ending, dispatcher, running>>

(* A scope is created and the session made over it, or something throws.  A  *)
(* window that is destroyed by now tells its new subscriber nothing.         *)
CreateSession ==
  /\ coordinator = "session"
  /\ \/ /\ session' = [subscribed |-> TRUE, published |-> TRUE, owned |-> TRUE, endQueued |-> FALSE]
        /\ scope' = "Active"
        /\ coordinator' = "started"
     \/ coordinator' = "rollbackContext" /\ UNCHANGED <<session, scope>>
  /\ UNCHANGED <<vars, executor, desktop, rooted, endStep, endCall, dispatcher, running>>

(* The catch block: the context if there is one, then the window.            *)
Rollback(op, after) ==
  /\ coordinator = op
  /\ IF ~Answered(op)
     THEN Submit(op) /\ UNCHANGED coordinator
     ELSE UNCHANGED executor /\ coordinator' = after
  /\ UNCHANGED <<vars, desktop, rooted, ending, dispatcher, running>>

GuiEndStart ==
  /\ EndStart
  /\ StartingHere => IF started' # started THEN coordinator = "started" ELSE coordinator = "failed"
  /\ UNCHANGED <<executor, desktop, composition, ending, dispatcher, running>>

------------------------------------------------------------------------------
(* Ending the session: by the coordinator's StopAsync, by the dispatcher or  *)
(* by anybody who has the session.  The first starts the scope's ending.     *)

WindowFirst == "window"
FirstCleanup == "context"

BeginEnd(a) ==
  /\ endCall[a] = "none"
  /\ endCall' = [endCall EXCEPT ![a] = "waiting"]
  /\ IF scope = "Active"
     THEN scope' = "Ending" /\ endStep' = FirstCleanup
     ELSE UNCHANGED <<scope, endStep>>

Ends(a, published) ==
  /\ BeginEnd(a)
  /\ session' = [session EXCEPT !.owned = FALSE, !.published = published]

(* EndAsync has returned to its caller.                                      *)
EndReturns(a) ==
  /\ endCall[a] = "waiting"
  /\ scope # "Ending"
  /\ endCall' = [endCall EXCEPT ![a] = "done"]
  /\ UNCHANGED <<vars, executor, desktop, composition, session, scope, endStep, dispatcher, running>>

After(cleanup) == CASE cleanup = FirstCleanup -> (CHOOSE c \in {"context", "window"} : c # FirstCleanup)
                    [] OTHER -> "done"

Live(cleanup) == IF cleanup = "context" THEN context = "open" /\ "input" \notin stoppedManagers
                                        ELSE window = "open" /\ "windows" \notin stoppedManagers

CommandOf(cleanup) == IF cleanup = "context" THEN "endContext" ELSE "endWindow"

(* DestroyInputContextIfLive and DestroyWindowIfLive, in reverse order of    *)
(* registration.                                                             *)
Cleanup ==
  /\ scope = "Ending" /\ endStep # "done"
  /\ LET op == CommandOf(endStep)
     IN IF Live(endStep) /\ Executor!Fresh(op)
        THEN Submit(op) /\ UNCHANGED endStep
        ELSE /\ Executor!Fresh(op) \/ Answered(op)
             /\ endStep' = After(endStep)
             /\ UNCHANGED executor
  /\ UNCHANGED <<vars, desktop, composition, session, scope, endCall, dispatcher, running>>

ScopeEnded ==
  /\ scope = "Ending" /\ endStep = "done"
  /\ scope' = "Ended"
  /\ UNCHANGED <<vars, executor, desktop, composition, session, endStep, endCall, dispatcher, running>>

StoppingHere == pc = "inStop" /\ Last(stopped) = Coordinator

StopRootSession ==
  /\ StoppingHere
  /\ session.published
  /\ Ends(App, FALSE)
  /\ UNCHANGED <<vars, executor, desktop, composition, dispatcher, running>>

StopAwaits == endCall[App] = "done" \/ (~session.published /\ endCall[App] = "none")

GuiEndStop ==
  /\ EndStop
  /\ StoppingHere => StopAwaits
  /\ UNCHANGED <<executor, desktop, composition, ending, dispatcher, running>>

UserEnds ==
  /\ session.published
  /\ Ends(User, session.published)
  /\ UNCHANGED <<vars, executor, desktop, composition, dispatcher, running>>

------------------------------------------------------------------------------
(* The window closes: OnClosed runs on the event thread and only posts.      *)

Closed ==
  IF session.subscribed /\ ~session.endQueued
  THEN /\ session' = [session EXCEPT !.endQueued = TRUE, !.owned = FALSE]
       /\ pending' = Append(pending, [scope |-> session.owned])
  ELSE UNCHANGED <<session, pending>>

TakeWork ==
  /\ endWorker = "idle" /\ pending # <<>>
  /\ pending' = Tail(pending)
  /\ IF Head(pending).scope
     THEN BeginEnd(Ender) /\ endWorker' = "ending"
     ELSE endWorker' = "requesting" /\ UNCHANGED <<scope, endStep, endCall>>
  /\ UNCHANGED <<vars, executor, desktop, composition, session, running>>

EndingDone ==
  /\ endWorker = "ending" /\ endCall[Ender] = "done"
  /\ endWorker' = "requesting"
  /\ UNCHANGED <<vars, executor, desktop, composition, ending, pending, running>>

(* lifetime->RequestStop(); a request that is not the first returns at once. *)
Requests(t, code) ==
  \/ BeginRequest(t, code)
  \/ stopRequested /\ UNCHANGED <<lifetime, request>>

ForgetsStop(code) == UNCHANGED <<lifetime, request>>
RequestsStop(code) == Requests(Ender, code)

EnderRequestsStop ==
  /\ endWorker = "requesting"
  /\ RequestsStop(0)
  /\ endWorker' = "idle"
  /\ UNCHANGED <<app, executor, desktop, composition, ending, pending, running>>

------------------------------------------------------------------------------
(* The event thread: the caller inside DesktopEventRuntime::Run.             *)

Run ==
  /\ caller = "start"
  /\ caller' = "pumping"
  /\ UNCHANGED <<vars, executor, desktop, composition, ending, dispatcher, pumpFailed, worker>>

StartPump ==
  /\ caller = "pumping"
  /\ \/ Executor!Serve /\ UNCHANGED pumpFailed
     \/ Executor!Fail /\ pumpFailed' = TRUE
  /\ UNCHANGED <<vars, desktop, composition, ending, dispatcher, caller, worker>>

PumpStep ==
  /\ caller = "pumping"
  /\ Executor!Begin \/ Executor!Discard \/ Executor!Finish
  /\ UNCHANGED <<vars, desktop, composition, ending, dispatcher, running>>

Created(op) == \/ succeeded' = succeeded \cup {op}
               \/ UNCHANGED succeeded

IfOpen(facade) == IF facade = "open" THEN "destroyed" ELSE facade

CreatesWindow ==
  /\ Created("createWindow")
  /\ window' = IF "createWindow" \in succeeded' THEN "open" ELSE window
  /\ UNCHANGED <<context, stoppedManagers, session, pending>>

(* The platform knows no context for a window it has not.                    *)
CreatesContext ==
  /\ IF window = "open" THEN Created("createContext") ELSE UNCHANGED succeeded
  /\ context' = IF "createContext" \in succeeded' THEN "open" ELSE context
  /\ UNCHANGED <<window, stoppedManagers, session, pending>>

DestroysContext(stops) ==
  /\ context' = IfOpen(context)
  /\ stoppedManagers' = stoppedManagers \cup stops
  /\ UNCHANGED <<succeeded, window, session, pending>>

DestroysWindow ==
  /\ window' = IfOpen(window)
  /\ IF window = "open" THEN Closed ELSE UNCHANGED <<session, pending>>
  /\ UNCHANGED <<succeeded, context, stoppedManagers>>

EndCommand(op) ==
  /\ active = <<op>>
  /\ Executor!End
  /\ CASE op = "createWindow" -> CreatesWindow
       [] op = "createContext" -> CreatesContext
       [] op \in {"rollbackContext", "endContext"} -> DestroysContext({})
       [] op = "stopInput" -> DestroysContext({"input"})
       [] OTHER -> DestroysWindow
  /\ UNCHANGED <<vars, composition, scope, endStep, endCall, endWorker, running>>

(* The user of the desktop closes the window and nobody cancels.             *)
UserCloses ==
  /\ mode = "serving" /\ active = <<>>
  /\ window = "open"
  /\ DestroysWindow
  /\ UNCHANGED <<vars, executor, composition, scope, endStep, endCall, endWorker, running>>

(* Another thread destroys the window through the manager.                   *)
UserDestroys ==
  /\ window = "open" /\ "windows" \notin stoppedManagers
  /\ Submit("userDestroy")
  /\ UNCHANGED <<vars, desktop, composition, ending, dispatcher, running>>

------------------------------------------------------------------------------
(* How the two threads of Run end each other.                                *)

JoinsAtOnce == "joining"
AfterPump == IF pumpFailed THEN "stopping" ELSE "joining"

PumpReturns ==
  /\ caller = "pumping" /\ mode = "over" /\ queue = <<>>
  /\ caller' = AfterPump
  /\ UNCHANGED <<vars, executor, desktop, composition, ending, dispatcher, pumpFailed, worker>>

CallerRequestsStop ==
  /\ caller = "stopping"
  /\ Requests(Caller, FailureCode)
  /\ caller' = "joining"
  /\ UNCHANGED <<app, executor, desktop, composition, ending, dispatcher, pumpFailed, worker>>

Join ==
  /\ caller = "joining" /\ worker = "finished"
  /\ winner = Caller => stopStep = "returned"
  /\ caller' = "returned"
  /\ UNCHANGED <<vars, executor, desktop, composition, ending, dispatcher, pumpFailed, worker>>

(* DesktopBackend::Shutdown, whatever application.Run returned or threw.     *)
ShutdownInput ==
  /\ pc = "done" /\ worker = "application"
  /\ Submit("stopInput")
  /\ worker' = "input"
  /\ UNCHANGED <<vars, desktop, composition, ending, dispatcher, caller, pumpFailed>>

(* Without the runtime the facades still become terminal.                    *)
ShutdownWindows ==
  /\ worker = "input" /\ Answered("stopInput")
  /\ stoppedManagers' = {"input", "windows"}
  /\ context' = IF outcome["stopInput"] = "executed" THEN context ELSE IfOpen(context)
  /\ Submit("stopWindows")
  /\ worker' = "windows"
  /\ UNCHANGED <<vars, succeeded, window, composition, ending, dispatcher, caller, pumpFailed>>

AbandonWindows ==
  /\ worker = "windows" /\ Answered("stopWindows")
  /\ window' = IF outcome["stopWindows"] = "executed" THEN window ELSE IfOpen(window)
  /\ worker' = "runtime"
  /\ UNCHANGED <<vars, executor, succeeded, context, stoppedManagers, composition, ending, dispatcher, caller, pumpFailed>>

StopRuntime ==
  /\ worker = "runtime"
  /\ Executor!Close \/ (~open /\ UNCHANGED executor)
  /\ worker' = "finished"
  /\ UNCHANGED <<vars, desktop, composition, ending, dispatcher, caller, pumpFailed>>

------------------------------------------------------------------------------
gui == <<executor, desktop, composition, ending, dispatcher, running>>

AppStep ==
  \/ /\ caller # "start"
     /\ RunAsync /\ UNCHANGED gui
  \/ (Configure \/ StartNext \/ EndStartup \/ AwaitStop \/ Resume \/ RequestStopOnFailure
        \/ BeginStopping \/ StopNext \/ Flush \/ Return) /\ UNCHANGED gui
  \/ GuiEndStart \/ GuiEndStop \/ StopRootSession
  \/ CreateRootWindow \/ RootWindowCreated \/ CreateForWindow \/ ContextCreated \/ CreateSession
  \/ Rollback("rollbackContext", "rollbackWindow") \/ Rollback("rollbackWindow", "failed")
  \/ ShutdownInput \/ ShutdownWindows \/ AbandonWindows \/ StopRuntime

EventThread == \/ Run \/ StartPump \/ PumpStep \/ PumpReturns \/ CallerRequestsStop \/ Join
               \/ \E op \in Commands : EndCommand(op)

EndStep == Cleanup \/ ScopeEnded \/ \E a \in Agents : EndReturns(a)
EnderStep == TakeWork \/ EndingDone \/ EnderRequestsStop

UserStep == \/ UserEnds \/ UserCloses \/ UserDestroys
            \/ RequestStop(User, 0) /\ UNCHANGED gui

GuiNext == AppStep \/ EventThread \/ EndStep \/ EnderStep \/ UserStep \/ (Deliver /\ UNCHANGED gui)

(* Every thread of the program goes on; nothing is assumed of the user.      *)
GuiSpec == /\ GuiInit /\ [][GuiNext]_guiVars
           /\ WF_guiVars(AppStep) /\ WF_guiVars(EventThread)
           /\ WF_guiVars(EndStep) /\ WF_guiVars(EnderStep)
           /\ WF_guiVars(Deliver /\ UNCHANGED gui)

------------------------------------------------------------------------------

(* When the application's run is over, in whatever way its startup failed or *)
(* its window was closed, no root window and no input context is left, and   *)
(* the session's scope has ended (StartAsync's rollback, StopAsync).         *)
RootEndsWithApplication ==
  pc = "done" => window # "open" /\ context # "open" /\ scope \in {"none", "Ended"}

(* "so input routing is detached before native window" destruction           *)
(* (WindowSession.cpp:316): the program destroys the root window only after  *)
(* its input context; only the user may do it the other way round.           *)
InputDetachedFirst ==
  [][(window = "open" /\ window' = "destroyed" /\ active # <<>> /\ active # <<"userDestroy">>)
     => context # "open"]_guiVars

(* Run returns once the application was asked to stop or the pump did not    *)
(* start: the two threads wait for each other's commands, results and ends,  *)
(* and nobody is left waiting.                                               *)
RunReturns == (caller # "start" /\ (stopRequested \/ pumpFailed)) ~> (caller = "returned")

(* A closing the session has heard of ends its scope and stops the           *)
(* application, even if somebody else is ending the session or the scope is  *)
(* already gone (OnClosed, ScopeEndDispatcher).                              *)
ClosingIsFollowed == session.endQueued ~> (stopRequested /\ scope = "Ended")

(* "Configure the window whose closure stops this application"               *)
(* (GuiApplication.hpp:76).                                                  *)
ClosedRootStops == (window = "destroyed") ~> stopRequested
===============================================================================
