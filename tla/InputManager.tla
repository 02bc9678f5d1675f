----------------------------- MODULE InputManager -----------------------------
(***************************************************************************)
(* Input contexts (InputManager.cpp) over the SDL adapter: commands are    *)
(* executed one at a time by the desktop event runtime, platform input is  *)
(* always published by a later command, and a change of the routing target *)
(* is applied at once.  Callbacks run on the event thread without a lock   *)
(* and may call back in; other threads submit commands, reset              *)
(* subscriptions, and destroy the manager at any time.                     *)
(***************************************************************************)
EXTENDS SDLInput, SequencesExt

CONSTANTS
  Wishes,                (* what a new context's descriptor may ask for     *)
  HeardKinds,            (* kinds of input that are subscribed to           *)
  MaxSubs,               (* bound: subscriptions                            *)
  MaxNative,             (* bound: events of the system                     *)
  MaxRequests,           (* bound: calls of other threads and of callbacks  *)
  MaxBoth                (* bound: the two together                         *)

ASSUME HeardAssumption == HeardKinds \subseteq Kinds
ASSUME BoundAssumption == MaxSubs \in Nat /\ MaxNative \in Nat /\ MaxRequests \in Nat /\ MaxBoth \in Nat

VARIABLES
  rec,                   (* the record of each context, shared by facades   *)
  contexts,              (* the table: contexts that can be found           *)
  devices, discovered,   (* the manager's inventory, and it was filled      *)
  subs,                  (* what each subscription is for, and if it is on  *)
  stopping, sink,        (* the flag, and whether the adapter has a sink    *)
  queue, accepting,      (* the commands of the event runtime               *)
  pump,                  (* its loop                                        *)
  step,                  (* the command between two of its critical sections*)
  calls, running,        (* the callbacks to invoke, and the one invoked    *)
  teardown, owned,       (* a thread that detaches everything, and what is  *)
  fenced,                (* subscriptions reset off the event thread        *)
  native, requests       (* what is used of the bounds                      *)

tables == <<rec, contexts, devices, discovered, subs>>
runtime == <<queue, accepting, pump>>
callbacks == <<calls, running, fenced>>
ending == <<stopping, sink, teardown, owned>>
budget == <<native, requests>>
adapter == <<sdl, inventory, os>>
vars == <<adapter, tables, runtime, step, callbacks, ending, budget>>

NoRecord == [life |-> "None", enabled |-> FALSE, captured |-> FALSE, relative |-> FALSE, pressed |-> {}]
NoStep == [op |-> "none"]
Subs == 1..MaxSubs       (* in the order they are made *)
NoSub == 0
Topics == (Contexts \X HeardKinds) \cup {<<"devices">>}

Init == /\ SDLInit
        /\ rec = [c \in Contexts |-> NoRecord]
        /\ contexts = {}
        /\ devices = [d \in Devices |-> 0] /\ discovered = FALSE
        /\ subs = [s \in Subs |-> [topic |-> <<>>, life |-> "free"]]
        /\ stopping = FALSE /\ sink = TRUE
        /\ queue = <<[op |-> "discover"]>> /\ accepting = TRUE
        /\ pump = "off"
        /\ step = NoStep
        /\ calls = {} /\ running = NoSub
        /\ teardown = "none" /\ owned = {}
        /\ fenced = {}
        /\ native = 0 /\ requests = 0

------------------------------------------------------------------------------
(* The manager's side of what the adapter does.                             *)

Configured(r, s, c) == [r EXCEPT ![c].enabled = s.ctx[c].enabled, ![c].captured = s.ctx[c].captured,
                                 ![c].relative = s.ctx[c].relative]

NeverClears(r, s, w, invalidated) ==
  [c \in Contexts |-> IF ~sink \/ c \notin BoundTo(s, w) \/ c \notin contexts \/ r[c].life # "Open"
                      THEN r[c] ELSE Configured(r, s, c)[c]]

(* OnTargetInputChanged for every context of the window; a record that is    *)
(* not in the table, or not open, takes nothing from it.                     *)
ApplyTargetConfiguration(r, s, w, invalidated) ==
  [c \in Contexts |->
     IF ~sink \/ c \notin BoundTo(s, w) \/ c \notin contexts \/ r[c].life # "Open" THEN r[c]
     ELSE [Configured(r, s, c)[c] EXCEPT !.pressed = IF invalidated THEN {} ELSE @]]

Refreshed(s, w, invalidated) ==
  rec' = IF s.win[w].alive THEN ApplyTargetConfiguration(rec, s, w, invalidated) ELSE rec

DestroyRecords(cs) == [c \in Contexts |-> IF c \in cs THEN [rec[c] EXCEPT !.life = "Destroyed", !.pressed = {}]
                                                      ELSE rec[c]]

Deactivated(topics) == [s \in Subs |-> IF subs[s].topic \in topics THEN [subs[s] EXCEPT !.life = "off"]
                                                                   ELSE subs[s]]

TopicsOf(cs) == cs \X HeardKinds

SnapshotSubscriptions(topic) == {s \in Subs : subs[s].topic = topic /\ subs[s].life = "on"}

------------------------------------------------------------------------------
(* Executing commands on the event thread.                                  *)

Idle == step = NoStep /\ calls = {} /\ running = NoSub
InCallback == running # NoSub /\ step = NoStep

Fresh(c) == /\ rec[c].life = "None" /\ ~sdl.ctx[c].live
            /\ \A i \in DOMAIN queue : queue[i].op = "create" => queue[i].c # c

Admissible(cmd) == /\ cmd.op = "create" => Fresh(cmd.c)
                   /\ cmd.op \notin {"create", "shutdown"} => rec[cmd.c].life # "None"

Calls == /\ requests < MaxRequests /\ native + requests < MaxBoth
         /\ requests' = requests + 1

(* A callback, or the runtime's loop, is where a command starts.             *)
Runs(cmd) ==
  \/ /\ pump = "draining" /\ Idle
     /\ queue # <<>> /\ Head(queue) = cmd
     /\ queue' = Tail(queue)
     /\ UNCHANGED requests
  \/ /\ InCallback
     /\ Calls
     /\ ~stopping
     /\ Admissible(cmd)
     /\ UNCHANGED queue

Commands ==
  [op : {"create"}, c : Contexts, w : Windows, wants : Wishes]
  \cup [op : {"enable", "capture", "relative"}, c : Contexts, b : BOOLEAN]
  \cup [op : {"destroy"}, c : Contexts]
  \cup [op : {"shutdown"}]

CreateContext(cmd, ok) ==
  /\ Runs(cmd)
  /\ IF stopping \/ ~sdl.win[cmd.w].alive
     THEN UNCHANGED <<sdl, rec, step>>
     ELSE /\ sdl' = CreateInputContext(sdl, cmd.c, cmd.w, cmd.wants, ok)
          /\ Refreshed(sdl', cmd.w, FALSE)
          /\ step' = [op |-> "create", c |-> cmd.c]
  /\ UNCHANGED <<inventory, os, contexts, devices, discovered, subs, accepting, pump, callbacks, ending, native>>

NeverLooks == FALSE

StoppedMeanwhile == stopping

(* The second critical section: the manager may have stopped in between. The *)
(* context is then destroyed under the manager's mutex.  When the adapter has*)
(* to tell the manager of other contexts of the window, FindRecord waits for *)
(* that mutex, which its own thread holds, and the sink's stays locked too.  *)
WaitsForItself ==
  LET w == sdl.ctx[step.c].target
  IN sink /\ sdl.win[w].alive /\ BoundTo(sdl, w) # {step.c}

CreateContextOnRuntime ==
  /\ step.op = "create"
  /\ step' = NoStep
  /\ IF StoppedMeanwhile
     THEN /\ ~WaitsForItself
          /\ sdl' = DestroyInputContext(sdl, step.c, TRUE)
          /\ UNCHANGED <<rec, contexts>>
     ELSE /\ rec' = Configured([rec EXCEPT ![step.c].life = "Open"], sdl, step.c)
          /\ contexts' = contexts \cup {step.c}
          /\ UNCHANGED sdl
  /\ UNCHANGED <<inventory, os, devices, discovered, subs, runtime, callbacks, ending, budget>>

(* It stops for ever at the first of them, before the text input is looked at*)
DestroyContextUnderLock ==
  /\ step.op = "create" /\ StoppedMeanwhile /\ WaitsForItself
  /\ step' = [op |-> "deadlocked"]
  /\ LET w == sdl.ctx[step.c].target
         gone == [sdl EXCEPT !.ctx[step.c] = NoContext]
     IN \E first \in BoundTo(gone, w) : sdl' = RefreshedUpTo(gone, w, first)
  /\ UNCHANGED <<inventory, os, tables, runtime, callbacks, ending, budget>>

Mutated(cmd, ok) == IF cmd.op = "enable" THEN SetContextEnabled(sdl, cmd.c, cmd.b, ok)
                    ELSE IF cmd.op = "capture" THEN SetContextCapture(sdl, cmd.c, cmd.b, ok)
                    ELSE SetRelativePointerMode(sdl, cmd.c, cmd.b, ok)

(* The mutation tells the manager of the window's contexts while it runs, so *)
(* the record is compared with a configuration it has already taken over.    *)
Taken(cmd, r, s) ==
  LET disabled == r[cmd.c].enabled /\ ~s.ctx[cmd.c].enabled
  IN Configured(IF disabled THEN [r EXCEPT ![cmd.c].pressed = {}] ELSE r, s, cmd.c)

Reports(cmd) == sdl.win[sdl.ctx[cmd.c].target].alive /\ (cmd.op = "enable" \/ sdl.ctx[cmd.c].enabled)

Told(cmd, s) == IF Reports(cmd) THEN ApplyTargetConfiguration(rec, s, s.ctx[cmd.c].target, FALSE) ELSE rec

MutateOnRuntime(cmd, ok) ==
  /\ Runs(cmd)
  /\ IF stopping \/ rec[cmd.c].life # "Open" \/ ~sdl.ctx[cmd.c].live
     THEN UNCHANGED <<sdl, rec>>
     ELSE /\ sdl' = Mutated(cmd, ok)
          /\ rec' = Taken(cmd, Told(cmd, sdl'), sdl')
  /\ UNCHANGED <<inventory, os, contexts, devices, discovered, subs, accepting, pump, step, callbacks, ending, native>>

DestroyContext(cmd) ==
  /\ Runs(cmd)
  /\ IF stopping \/ cmd.c \notin contexts \/ rec[cmd.c].life = "Destroyed"
     THEN UNCHANGED <<rec, step>>
     ELSE /\ rec' = [rec EXCEPT ![cmd.c].life = "Destroying"]
          /\ step' = [op |-> "destroy", c |-> cmd.c]
  /\ UNCHANGED <<adapter, contexts, devices, discovered, subs, accepting, pump, callbacks, ending, native>>

(* The adapter fails only if it does not know the context.                   *)
DestroyContextOnRuntime ==
  /\ step.op = "destroy"
  /\ step' = NoStep
  /\ sdl' = DestroyInputContext(sdl, step.c, TRUE)
  /\ contexts' = contexts \ {step.c}
  /\ LET told == ApplyTargetConfiguration(rec, sdl', sdl.ctx[step.c].target, FALSE)
     IN rec' = [told EXCEPT ![step.c].life = "Destroyed", ![step.c].pressed = {}]
  /\ subs' = Deactivated(TopicsOf({step.c}))
  /\ UNCHANGED <<inventory, os, devices, discovered, runtime, callbacks, ending, budget>>

(* ShutdownAsync on the event thread: detach, then destroy, then shut down.  *)
CleanupOnRuntime(cmd) ==
  /\ Runs(cmd)
  /\ IF stopping
     THEN UNCHANGED <<sdl, tables, stopping, sink>>
     ELSE /\ stopping' = TRUE /\ sink' = FALSE
          /\ rec' = DestroyRecords(contexts)
          /\ contexts' = {}
          /\ subs' = Deactivated(TopicsOf(contexts) \cup {<<"devices">>})
          /\ devices' = [d \in Devices |-> 0] /\ UNCHANGED discovered
          /\ sdl' = ShutdownInput(DestroyAll(sdl, contexts))
  /\ UNCHANGED <<inventory, os, accepting, pump, step, callbacks, teardown, owned, native>>

(* What ShutdownFallback posted for contexts it had detached itself.         *)
Cleanup(cs) ==
  /\ pump = "draining" /\ Idle
  /\ queue # <<>> /\ Head(queue) = [op |-> "cleanup", cs |-> cs]
  /\ queue' = Tail(queue)
  /\ sdl' = ShutdownInput(DestroyAll(sdl, cs))
  /\ UNCHANGED <<inventory, os, tables, accepting, pump, step, callbacks, ending, budget>>

------------------------------------------------------------------------------
(* Publishing platform input.                                               *)

AfterKeyboard(pressed, kind, down) == With(pressed, kind, down)
AfterPointerButton(pressed, kind, down) == With(pressed, kind, down)
AfterTouch(pressed, kind, down) == With(pressed, kind, down)
AfterPressed(pressed, kind, down) == pressed \cup {kind}

AfterPlain(pressed, kind, down) == pressed

After(pressed, kind, down) == IF kind = "key" THEN AfterKeyboard(pressed, kind, down)
                              ELSE IF kind = "button" THEN AfterPointerButton(pressed, kind, down)
                              ELSE IF kind = "touch" THEN AfterTouch(pressed, kind, down)
                              ELSE AfterPlain(pressed, kind, down)

Publish(c, kind, down) ==
  /\ pump = "draining" /\ Idle
  /\ queue # <<>> /\ Head(queue) = [op |-> "publish", c |-> c, kind |-> kind, down |-> down]
  /\ queue' = Tail(queue)
  /\ IF stopping \/ c \notin contexts \/ rec[c].life # "Open" \/ ~rec[c].enabled
     THEN UNCHANGED <<rec, calls>>
     ELSE /\ rec' = [rec EXCEPT ![c].pressed = After(@, kind, down)]
          /\ calls' = SnapshotSubscriptions(<<c, kind>>)
  /\ UNCHANGED <<adapter, contexts, devices, discovered, subs, accepting, pump, step, running,
                 fenced, ending, budget>>

(* The flag is read before the lock is taken: a thread may stop the manager  *)
(* in between.  (Input of a context is published in one step: its record is  *)
(* marked before such a thread goes on, and that is read under the lock.)    *)
TakeDeviceEvent ==
  /\ pump = "draining" /\ Idle
  /\ queue # <<>> /\ Head(queue).op = "device"
  /\ queue' = Tail(queue)
  /\ step' = IF stopping THEN NoStep ELSE Head(queue)
  /\ UNCHANGED <<adapter, tables, accepting, pump, callbacks, ending, budget>>

AlreadyKnown(d, version) == devices[d] # 0

NothingNew(d, version) == devices[d] = version

PublishDeviceChanged ==
  /\ step.op = "device"
  /\ step' = NoStep
  /\ IF NothingNew(step.d, step.version)
     THEN UNCHANGED <<devices, calls>>
     ELSE /\ devices' = [devices EXCEPT ![step.d] = step.version]
          /\ calls' = SnapshotSubscriptions(<<"devices">>)
  /\ UNCHANGED <<adapter, rec, contexts, discovered, subs, runtime, running, fenced, ending, budget>>

Known(d) == devices[d] # 0

DiscoverConnectedDevicesOnRuntime ==
  /\ pump = "draining" /\ Idle
  /\ queue # <<>> /\ Head(queue).op = "discover"
  /\ queue' = Tail(queue)
  /\ discovered' = TRUE
  /\ devices' = IF stopping THEN devices
                ELSE [d \in Devices |-> IF Known(d) THEN devices[d] ELSE inventory[d]]
  /\ UNCHANGED <<adapter, rec, contexts, subs, accepting, pump, step, callbacks, ending, budget>>

(* InvokeSubscriptions, in the order they were made: one that was reset since*)
(* the snapshot is skipped.                                                  *)
StillActive(s) == subs[s].life = "on"

Invoke ==
  /\ step = NoStep /\ running = NoSub
  /\ \E s \in calls : /\ \A r \in calls : s <= r
                      /\ calls' = calls \ {s}
                      /\ running' = IF StillActive(s) THEN s ELSE NoSub
  /\ UNCHANGED <<adapter, tables, runtime, step, fenced, ending, budget>>

CallbackReturns ==
  /\ InCallback
  /\ running' = NoSub
  /\ UNCHANGED <<adapter, tables, runtime, step, calls, fenced, ending, budget>>

ResetInCallback(s) ==
  /\ InCallback
  /\ Calls
  /\ subs[s].life = "on"
  /\ subs' = [subs EXCEPT ![s].life = "off"]
  /\ UNCHANGED <<adapter, rec, contexts, devices, discovered, runtime, step, callbacks, ending, native>>

------------------------------------------------------------------------------
(* Other threads.                                                           *)

Submit(cmd) ==
  /\ Calls
  /\ accepting /\ ~stopping
  /\ Admissible(cmd)
  /\ queue' = Append(queue, cmd)
  /\ UNCHANGED <<adapter, tables, accepting, pump, step, callbacks, ending, native>>

Subscribe(s, topic) ==
  /\ Calls
  /\ subs[s].life = "free" /\ \A r \in Subs : r < s => subs[r].life # "free"
  /\ IF topic = <<"devices">> THEN ~stopping ELSE rec[topic[1]].life = "Open"
  /\ subs' = [subs EXCEPT ![s] = [topic |-> topic, life |-> "on"]]
  /\ UNCHANGED <<adapter, rec, contexts, devices, discovered, runtime, step, callbacks, ending, native>>

(* Deactivate waits for the callback it fences to return.                    *)
NeverWaits(s) == TRUE

MayDeactivate(s) == running # s

Reset(s) ==
  /\ Calls
  /\ subs[s].life = "on"
  /\ MayDeactivate(s)
  /\ subs' = [subs EXCEPT ![s].life = "off"]
  /\ fenced' = fenced \cup {s}
  /\ UNCHANGED <<adapter, rec, contexts, devices, discovered, runtime, step, calls, running, ending, native>>

(* The destructor on another thread (ShutdownFallback), or ShutdownAsync     *)
(* when the runtime admits nothing any more.                                 *)
BeginTeardown ==
  /\ Calls
  /\ teardown = "none" /\ ~stopping
  /\ stopping' = TRUE
  /\ teardown' = "detaching"
  /\ UNCHANGED <<adapter, tables, runtime, step, callbacks, sink, owned, native>>

DetachAllContexts ==
  /\ teardown = "detaching"
  /\ step.op # "deadlocked"          (* it waits for the mutex of the sink *)
  /\ sink' = FALSE
  /\ owned' = contexts
  /\ contexts' = {}
  /\ teardown' = "marking"
  /\ UNCHANGED <<adapter, rec, devices, discovered, subs, runtime, step, callbacks, stopping, budget>>

MarkRecordDestroyed(c) ==
  /\ teardown = "marking"
  /\ c \in owned /\ rec[c].life # "Destroyed"
  /\ rec' = [rec EXCEPT ![c].life = "Destroyed", ![c].pressed = {}]
  /\ UNCHANGED <<adapter, contexts, devices, discovered, subs, runtime, step, callbacks, ending, budget>>

(* Subscriptions of the records are fenced one after another, then those of  *)
(* the devices, which were taken out of the manager with its inventory.      *)
ToFence == {s \in Subs : /\ subs[s].life = "on"
                         /\ subs[s].topic \in IF teardown = "marking" THEN TopicsOf(owned) ELSE {<<"devices">>}}

Fence(s) ==
  /\ \/ teardown = "marking" /\ \A c \in owned : rec[c].life = "Destroyed"
     \/ teardown = "fencing"
  /\ s \in ToFence
  /\ MayDeactivate(s)
  /\ subs' = [subs EXCEPT ![s].life = "off"]
  /\ fenced' = fenced \cup {s}
  /\ UNCHANGED <<adapter, rec, contexts, devices, discovered, runtime, step, calls, running, ending, budget>>

DeactivateManagerSubscriptions ==
  /\ teardown = "marking"
  /\ \A c \in owned : rec[c].life = "Destroyed"
  /\ ToFence = {}
  /\ teardown' = "fencing"
  /\ devices' = [d \in Devices |-> 0]
  /\ UNCHANGED <<adapter, rec, contexts, discovered, subs, runtime, step, callbacks, stopping, sink, owned, budget>>

PostCleanup ==
  /\ teardown = "fencing" /\ ToFence = {}
  /\ teardown' = "done"
  /\ queue' = IF accepting THEN Append(queue, [op |-> "cleanup", cs |-> owned]) ELSE queue
  /\ UNCHANGED <<adapter, tables, accepting, pump, step, callbacks, stopping, sink, owned, budget>>

RequestStop ==
  /\ Calls
  /\ accepting
  /\ accepting' = FALSE
  /\ UNCHANGED <<adapter, tables, queue, pump, step, callbacks, ending, native>>

------------------------------------------------------------------------------
(* The windows and the system.  Window commands come from the window manager.*)

WindowInput(w, b, ok) ==
  /\ pump = "draining" /\ Idle
  /\ queue # <<>> /\ Head(queue) = [op |-> "window", w |-> w, b |-> b]
  /\ queue' = Tail(queue)
  /\ IF ~sdl.win[w].alive
     THEN UNCHANGED <<sdl, rec>>
     ELSE /\ sdl' = SetInputEnabled(sdl, w, b, ok)
          /\ IF sdl.win[w].enabled = b THEN UNCHANGED rec ELSE Refreshed(sdl', w, ~b)
  /\ UNCHANGED <<inventory, os, contexts, devices, discovered, subs, accepting, pump, step, callbacks, ending, budget>>

(* Any other mutation reads back what the system says of the window.         *)
WindowMutation(w) ==
  /\ pump = "draining" /\ Idle
  /\ queue # <<>> /\ Head(queue) = [op |-> "mutate", w |-> w]
  /\ queue' = Tail(queue)
  /\ sdl' = IF sdl.win[w].alive THEN Query(sdl, w) ELSE sdl
  /\ UNCHANGED <<inventory, os, tables, accepting, pump, step, callbacks, ending, budget>>

WindowCommands == [op : {"window"}, w : Windows, b : BOOLEAN] \cup [op : {"mutate"}, w : Windows]

SubmitWindow(cmd) ==
  /\ Calls
  /\ accepting
  /\ queue' = Append(queue, cmd)
  /\ UNCHANGED <<adapter, tables, accepting, pump, step, callbacks, ending, native>>

Happens == /\ native < MaxNative /\ native + requests < MaxBoth
           /\ native' = native + 1

(* The system moves the focus at any time, and tells so later, in order.     *)
FocusMoves(w) ==
  /\ pump \in {"draining", "waiting"}
  /\ Happens
  /\ os.focus # w
  /\ w # NoWindow => sdl.win[w].alive
  /\ os' = [focus |-> w,
            events |-> os.events \o (IF os.focus = NoWindow THEN <<>> ELSE <<[t |-> "lost", w |-> os.focus]>>)
                                \o (IF w = NoWindow THEN <<>> ELSE <<[t |-> "gained", w |-> w]>>)]
  /\ UNCHANGED <<sdl, inventory, tables, runtime, step, callbacks, ending, requests>>

(* The focus as far as it was told: keys and text go there.                  *)
FocusTold == IF os.events = <<>> THEN os.focus
             ELSE IF Head(os.events).t = "lost" THEN Head(os.events).w ELSE NoWindow

(* Start, with the devices that are connected, and the turns of the loop:    *)
(* the pump is asked for an event when the queue was found empty.            *)
Post(events) == queue' = IF accepting /\ sink THEN queue \o events ELSE queue

StartPump(connected) ==
  /\ pump = "off" /\ accepting
  /\ pump' = "draining"
  /\ inventory' = [d \in Devices |-> IF d \in connected THEN 1 ELSE 0]
  /\ \E ds \in SetToSeqs(connected) : Post([i \in DOMAIN ds |-> AddOrUpdateDevice(ds[i], 1)[1]])
  /\ UNCHANGED <<sdl, os, tables, accepting, step, callbacks, ending, budget>>

Wait ==
  /\ pump = "draining" /\ Idle
  /\ queue = <<>> /\ accepting
  /\ pump' = "waiting"
  /\ UNCHANGED <<adapter, tables, queue, accepting, step, callbacks, ending, budget>>

Woken ==
  /\ pump = "waiting"
  /\ queue # <<>> \/ ~accepting
  /\ pump' = "draining"
  /\ UNCHANGED <<adapter, tables, queue, accepting, step, callbacks, ending, budget>>

(* One event for each turn.  Other than the focus nothing of an event is     *)
(* known before it is delivered.                                             *)
Delivered == pump = "waiting" /\ pump' = "draining"

Occurs == Delivered /\ Happens

DispatchFocus(w, gained, ok) ==
  /\ Delivered
  /\ os.events # <<>> /\ Head(os.events) = [t |-> IF gained THEN "gained" ELSE "lost", w |-> w]
  /\ os' = [os EXCEPT !.events = Tail(@)]
  /\ IF ~sdl.win[w].alive
     THEN UNCHANGED <<sdl, rec>>
     ELSE /\ sdl' = IF gained THEN FocusGained(sdl, w, ok) ELSE FocusLost(sdl, w, ok)
          /\ IF gained /\ ~sdl.win[w].enabled THEN UNCHANGED rec ELSE Refreshed(sdl', w, ~gained)
  /\ UNCHANGED <<inventory, contexts, devices, discovered, subs, queue, accepting, step, callbacks, ending, budget>>

(* A close that is agreed to, or a window the system took away.              *)
DispatchClosed(w, taken, ok) ==
  /\ Occurs
  /\ sdl.win[w].alive
  /\ os' = [os EXCEPT !.focus = IF @ = w THEN NoWindow ELSE @]
  /\ LET last == IF taken THEN InvalidateRemovedInputTarget(sdl, w, ok) ELSE PrepareWindowRemoval(sdl, {w})
     IN /\ rec' = ApplyTargetConfiguration(rec, last, w, TRUE)
        /\ sdl' = Erase(last, {w})
  /\ UNCHANGED <<inventory, contexts, devices, discovered, subs, queue, accepting, step, callbacks, ending, requests>>

Published(cs, kind, down) ==
  [i \in DOMAIN cs |-> [op |-> "publish", c |-> cs[i], kind |-> kind, down |-> down]]

DispatchInput(w, kind, down) ==
  /\ Occurs
  /\ kind \in {"key", "text"} => FocusTold = w
  /\ kind \in PlainKinds => down
  /\ \E cs \in SetToSeqs(InputTargetsForWindow(sdl, w)) : Post(Published(cs, kind, down))
  /\ UNCHANGED <<adapter, tables, accepting, step, callbacks, ending, requests>>

(* A finger on a device that is not known makes it known first.              *)
DispatchTouchEvent(w, d, down) ==
  /\ Occurs
  /\ "touch" \in PressKinds
  /\ LET added == sink /\ inventory[d] = 0
     IN /\ inventory' = IF added THEN [inventory EXCEPT ![d] = 1] ELSE inventory
        /\ \E cs \in SetToSeqs(InputTargetsForWindow(sdl, w)) :
             Post((IF added THEN AddOrUpdateDevice(d, 1) ELSE <<>>) \o Published(cs, "touch", down))
  /\ UNCHANGED <<sdl, os, tables, accepting, step, callbacks, ending, requests>>

DispatchDeviceEvent(d, version) ==
  /\ Occurs
  /\ inventory' = [inventory EXCEPT ![d] = version]
  /\ Post(IF version = 0 THEN RemoveDevice(d) ELSE AddOrUpdateDevice(d, version))
  /\ UNCHANGED <<sdl, os, tables, accepting, step, callbacks, ending, requests>>

(* The runtime stops its pump when it is drained.                            *)
StopPump ==
  /\ pump = "draining" /\ Idle
  /\ ~accepting /\ queue = <<>>
  /\ pump' = "stopped"
  /\ sdl' = ShutdownWindows(ShutdownInput(sdl))
  /\ inventory' = [d \in Devices |-> 0]
  /\ UNCHANGED <<os, tables, queue, accepting, step, callbacks, ending, budget>>

------------------------------------------------------------------------------

Execute(cmd) ==
  \/ cmd.op = "create" /\ \E ok \in BOOLEAN : CreateContext(cmd, ok)
  \/ cmd.op \in {"enable", "capture", "relative"} /\ \E ok \in BOOLEAN : MutateOnRuntime(cmd, ok)
  \/ cmd.op = "destroy" /\ DestroyContext(cmd)
  \/ cmd.op = "shutdown" /\ CleanupOnRuntime(cmd)

Executes == \E cmd \in Commands : Execute(cmd)

EventThread ==
  \/ Executes
  \/ CreateContextOnRuntime
  \/ DestroyContextUnderLock
  \/ DestroyContextOnRuntime
  \/ \E cs \in SUBSET Contexts : Cleanup(cs)
  \/ \E c \in Contexts, kind \in Kinds, down \in BOOLEAN : Publish(c, kind, down)
  \/ TakeDeviceEvent
  \/ PublishDeviceChanged
  \/ DiscoverConnectedDevicesOnRuntime
  \/ Invoke
  \/ CallbackReturns
  \/ \E w \in Windows, b, ok \in BOOLEAN : WindowInput(w, b, ok)
  \/ \E w \in Windows : WindowMutation(w)
  \/ Woken
  \/ StopPump

Teardown ==
  \/ DetachAllContexts
  \/ \E c \in Contexts : MarkRecordDestroyed(c)
  \/ \E s \in Subs : Fence(s)
  \/ DeactivateManagerSubscriptions
  \/ PostCleanup

Delivery ==
  \/ \E w \in Windows, gained, ok \in BOOLEAN : DispatchFocus(w, gained, ok)
  \/ \E w \in Windows, taken, ok \in BOOLEAN : DispatchClosed(w, taken, ok)
  \/ \E w \in Windows, kind \in Kinds \ {"touch"}, down \in BOOLEAN : DispatchInput(w, kind, down)
  \/ \E w \in Windows, d \in Devices, down \in BOOLEAN : DispatchTouchEvent(w, d, down)
  \/ \E d \in Devices, v \in Versions : DispatchDeviceEvent(d, v)

OtherThreads ==
  \/ \E cmd \in Commands : Submit(cmd)
  \/ \E cmd \in WindowCommands : SubmitWindow(cmd)
  \/ \E s \in Subs, topic \in Topics : Subscribe(s, topic)
  \/ \E s \in Subs : Reset(s)
  \/ BeginTeardown
  \/ RequestStop

Next == \/ EventThread \/ Teardown \/ Delivery \/ OtherThreads
        \/ \E s \in Subs : ResetInCallback(s)
        \/ \E connected \in SUBSET Devices : StartPump(connected)
        \/ \E w \in Windows \cup {NoWindow} : FocusMoves(w)
        \/ Wait

Spec == Init /\ [][Next]_vars

------------------------------------------------------------------------------

(* The type invariant.                                                       *)
InputTypeOK ==
  /\ SDLTypeOK
  /\ rec \in [Contexts -> [life : {"None", "Open", "Destroying", "Destroyed"}, enabled : BOOLEAN,
                           captured : BOOLEAN, relative : BOOLEAN, pressed : SUBSET PressKinds]]
  /\ contexts \subseteq Contexts /\ owned \subseteq Contexts
  /\ devices \in [Devices -> Versions]
  /\ \A s \in Subs : subs[s].topic \in Topics \cup {<<>>} /\ subs[s].life \in {"free", "on", "off"}
  /\ {discovered, stopping, sink, accepting} \subseteq BOOLEAN
  /\ pump \in {"off", "draining", "waiting", "stopped"}
  /\ step.op \in {"none", "create", "destroy", "device", "deadlocked"}
  /\ calls \subseteq Subs /\ running \in Subs \cup {NoSub} /\ fenced \subseteq Subs
  /\ teardown \in {"none", "detaching", "marking", "fencing", "done"}

(* A facade shows what the adapter does: between two commands the contexts   *)
(* that can be found are those the adapter routes to, each with the adapter's*)
(* enablement, capture and relative mode, although the two sides are changed *)
(* by mutations, by focus, by closing windows and by changes of other        *)
(* contexts of the window (MutateOnRuntime, ApplyTargetConfiguration).       *)
FacadeMatchesAdapter ==
  (step.op \in {"none", "device"} /\ teardown = "none" /\ pump # "stopped") =>
    \A c \in Contexts :
      /\ c \in contexts <=> sdl.ctx[c].live
      /\ c \in contexts => /\ rec[c].life = "Open"
                           /\ rec[c].enabled = sdl.ctx[c].enabled
                           /\ rec[c].captured = sdl.ctx[c].captured
                           /\ rec[c].relative = sdl.ctx[c].relative

(* Manager, adapter and system agree: what a facade shows is what the adapter *)
(* does, and what the adapter asked of the system is still wanted, unless the*)
(* event thread stopped in the middle of it, in DestroyContextUnderLock      *)
(* (OnTargetInputChanged, RefreshTargetPointerModes).                        *)
LayersAgree == FacadeMatchesAdapter /\ (step.op # "deadlocked" => PointerModesFollowTarget)

(* Keys whose release goes elsewhere do not stay pressed: once the loss of   *)
(* the focus is handled, no context of the window has a key pressed, whatever*)
(* was queued when the focus moved (DispatchWindowEvent, QueuePlatformEvent).*)
FocusLossReleases ==
  \A c \in contexts :
    LET w == sdl.ctx[c].target
    IN (/\ sink /\ sdl.ctx[c].live /\ sdl.win[w].alive /\ os.focus # w
        /\ \A i \in DOMAIN os.events : os.events[i] # [t |-> "lost", w |-> w])
       => "key" \notin rec[c].pressed

(* Discovery runs once, late, beside changes that are queued: when none is   *)
(* left the manager lists the devices that are connected, as they are now.   *)
DevicesConverge ==
  (/\ discovered /\ ~stopping /\ accepting /\ step = NoStep
   /\ \A i \in DOMAIN queue : queue[i].op # "device") => devices = inventory

(* A subscription reset by another thread never runs its callback after the  *)
(* reset returned, although the callback was taken before; and none is left  *)
(* when the manager has stopped, although subscriptions race with that.      *)
FencedNeverRuns ==
  /\ running \notin fenced
  /\ (stopping /\ teardown \in {"none", "done"}) => \A s \in Subs : subs[s].life # "on"

(* A shutdown, by command or by a destructor on another thread, leaves every *)
(* facade destroyed and no context or capture in the adapter once the event  *)
(* thread has done what it was left, a half-made context included.  It does  *)
(* not come to that when the thread waits for itself, which only a destructor*)
(* that another thread runs beside a creation brings about, never a command, *)
(* and only before it has detached the sink (CreateContextOnRuntime,         *)
(* ShutdownFallback).                                                        *)
ShutdownReleases ==
  /\ (/\ stopping /\ teardown \in {"none", "done"} /\ step = NoStep
      /\ pump = "stopped" \/ (pump # "off" /\ accepting)
      /\ \A i \in DOMAIN queue : queue[i].op # "cleanup")
     => /\ \A c \in Contexts : rec[c].life \in {"None", "Destroyed"} /\ ~sdl.ctx[c].live
        /\ ~sdl.capture
  /\ step.op = "deadlocked" => teardown = "detaching" /\ sink

(* "Manager shutdown closes all remaining contexts before releasing platform *)
(* input state" (Input.md:168): it does so, unless the event thread has      *)
(* locked the manager's mutex twice (CreateContextOnRuntime, FindRecord).    *)
NeverLocksTwice == step.op # "deadlocked"

(* "Disabling a context atomically clears pressed keys, buttons, and touches *)
(* from its next state snapshot" (IInputContext.hpp:48).                     *)
DisabledHoldsNothing ==
  \A c \in Contexts : (step = NoStep /\ rec[c].life = "Open" /\ ~rec[c].enabled) => rec[c].pressed = {}
===============================================================================
