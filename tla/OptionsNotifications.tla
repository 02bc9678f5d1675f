------------------------ MODULE OptionsNotifications -------------------------
(***************************************************************************)
(* How OptionsMonitor tells its observers of a published value             *)
(* (OptionsMonitor.inl: RegisterCallback, InvokeCallback, the publishing   *)
(* half of PublishLocked, DispatchNotifications and the cancel action of a *)
(* subscription).  A snapshot is named by its version; what the versions   *)
(* hold, and which publications are rejected or deduplicated, is the       *)
(* subject of OptionsPublication.                                          *)
(*                                                                         *)
(* Every thread has a stack of the monitor's functions it is inside.  User *)
(* code runs when the stack is empty or has an observer's callback on top, *)
(* and may call the monitor again from there.  Each critical section of    *)
(* CallbackState::mutex or CallbackSlot::mutex is one step.                *)
(***************************************************************************)
EXTENDS Integers, Sequences

CONSTANTS
  Threads,               (* the threads of the process                      *)
  NoThread,              (* the default std::thread::id                     *)
  Slots,                 (* the observers that may be registered            *)
  MaxVersion,            (* bound: publications                             *)
  MaxDepth               (* bound: nested calls of the monitor              *)

ASSUME ThreadAssumption == NoThread \notin Threads
ASSUME BoundAssumption == MaxVersion \in Nat /\ MaxDepth \in Nat

VARIABLES
  published,             (* the version of the published state              *)
  callbacks, notifications, dispatching,       (* struct CallbackState      *)
  phase,                 (* CallbackSlot::active and initializing           *)
  lastValue, pending, invoking,                (* struct CallbackSlot       *)
  token,                 (* the OptionsSubscription of the slot             *)
  stack,                 (* the calls each thread is inside, innermost first *)
  delivered,             (* history: the changes given to each callback     *)
  resetter               (* history: the thread that reset the subscription *)

callbackState == <<callbacks, notifications, dispatching>>
slot == <<phase, lastValue, pending, invoking>>
vars == <<published, callbackState, slot, token, stack, delivered, resetter>>

NoSnapshot == -1         (* the empty previous pointer                      *)
Version == 0 .. MaxVersion
Change == [previous : {NoSnapshot} \cup Version, version : Version]
NoChange == [previous |-> NoSnapshot, version |-> NoSnapshot]
Notification == [change : Change, callbacks : SUBSET Slots]

Phases == {"unused", "initializing", "active", "inactive"}
Tokens == {"none", "held", "resetting", "gone"}

------------------------------------------------------------------------------
(* The functions a thread can be inside.                                     *)

Observing(s) == [op |-> "observe", slot |-> s]
Dispatching(note) == [op |-> "dispatch", change |-> note.change, todo |-> note.callbacks]
Entering(s, change) == [op |-> "enter", slot |-> s, change |-> change]
Invoking(s, change) == [op |-> "invoke", slot |-> s, change |-> change]
Resetting(s) == [op |-> "reset", slot |-> s]
Waiting(s) == [op |-> "wait", slot |-> s]

Frame == [op : {"observe", "reset", "wait"}, slot : Slots]
         \cup [op : {"dispatch"}, change : Change \cup {NoChange}, todo : SUBSET Slots]
         \cup [op : {"enter", "invoke"}, slot : Slots, change : Change]

Inside(t, op) == stack[t] # <<>> /\ Head(stack[t]).op = op
Top(t) == Head(stack[t])
Called(t, frame) == [stack EXCEPT ![t] = <<frame>> \o @]
Returned(t) == [stack EXCEPT ![t] = Tail(@)]
Became(t, frame) == [stack EXCEPT ![t] = <<frame>> \o Tail(@)]

Frames(t) == {stack[t][i] : i \in DOMAIN stack[t]}

MayCall(t) == /\ stack[t] = <<>> \/ Inside(t, "invoke")
              /\ Len(stack[t]) < MaxDepth

Init == /\ published = 0
        /\ callbacks = {}
        /\ notifications = <<>>
        /\ dispatching = FALSE
        /\ phase = [s \in Slots |-> "unused"]
        /\ lastValue = [s \in Slots |-> NoSnapshot]
        /\ pending = [s \in Slots |-> NoChange]
        /\ invoking = [s \in Slots |-> NoThread]
        /\ token = [s \in Slots |-> "none"]
        /\ stack = [t \in Threads |-> <<>>]
        /\ delivered = [s \in Slots |-> <<>>]
        /\ resetter = [s \in Slots |-> NoThread]

------------------------------------------------------------------------------
(* PublishLocked, once the candidate is accepted and differs.  A notification *)
(* still in the queue is replaced by the new one, which keeps the earliest    *)
(* skipped predecessor; the thread that finds no dispatcher becomes it.       *)

NewNotification ==
  [change |-> [previous |-> published, version |-> published + 1],
   callbacks |-> callbacks]

Coalesce(queue, note) ==
  IF queue = <<>> THEN <<note>>
  ELSE [queue EXCEPT ![Len(queue)] =
          [note EXCEPT !.change.previous = queue[Len(queue)].change.previous]]

BecomesDispatcher == ~dispatching

Publish(t) ==
  /\ MayCall(t)
  /\ published < MaxVersion
  /\ published' = published + 1
  /\ notifications' = Coalesce(notifications, NewNotification)
  /\ dispatching' = TRUE
  /\ stack' = IF BecomesDispatcher
              THEN Called(t, Dispatching([change |-> NoChange, callbacks |-> {}]))
              ELSE stack
  /\ UNCHANGED <<callbacks, slot, token, delivered, resetter>>

------------------------------------------------------------------------------
(* DispatchNotifications.                                                    *)

StopsDispatching(queue) == queue = <<>>

TakeNotification(t) ==
  /\ Inside(t, "dispatch")
  /\ Top(t).todo = {}
  /\ IF StopsDispatching(notifications)
     THEN /\ dispatching' = FALSE
          /\ stack' = Returned(t)
          /\ UNCHANGED notifications
     ELSE /\ stack' = Became(t, Dispatching(Head(notifications)))
          /\ notifications' = Tail(notifications)
          /\ UNCHANGED dispatching
  /\ UNCHANGED <<published, callbacks, slot, token, delivered, resetter>>

(* A change that arrives while Observe still delivers the initial value is   *)
(* buffered; an already buffered one only takes over the newer snapshot.     *)
Buffered(s, change) ==
  IF pending[s] = NoChange THEN change
  ELSE [pending[s] EXCEPT !.version = change.version]

NeverBuffers(s) == FALSE

MustBuffer(s) == phase[s] = "initializing"

(* One slot of the notification; its order in the map is arbitrary.          *)
ConsiderSlot(t) ==
  /\ Inside(t, "dispatch")
  /\ \E s \in Top(t).todo :
       LET rest == [Top(t) EXCEPT !.todo = @ \ {s}]
           change == Top(t).change
       IN /\ IF MustBuffer(s)
             THEN pending' = [pending EXCEPT ![s] = Buffered(s, change)]
             ELSE UNCHANGED pending
          /\ stack' = IF phase[s] = "active"
                      THEN [stack EXCEPT ![t] = <<Entering(s, change), rest>> \o Tail(@)]
                      ELSE Became(t, rest)
  /\ UNCHANGED <<published, callbackState, phase, lastValue, invoking, token,
                 delivered, resetter>>

------------------------------------------------------------------------------
(* InvokeCallback: the checks before the callback runs, and its return.      *)

AsPublished(s, change) == change

Rebased(s, change) ==
  IF change.previous = NoSnapshot THEN change
  ELSE [change EXCEPT !.previous = lastValue[s]]

MayInvoke(s) == phase[s] \in {"initializing", "active"}

EnterCallback(t) ==
  /\ Inside(t, "enter")
  /\ LET s == Top(t).slot
         change == Rebased(s, Top(t).change)
     IN IF MayInvoke(s)
        THEN /\ stack' = Became(t, Invoking(s, change))
             /\ invoking' = [invoking EXCEPT ![s] = t]
             /\ delivered' = [delivered EXCEPT ![s] = Append(@, change)]
        ELSE /\ stack' = Returned(t)
             /\ UNCHANGED <<invoking, delivered>>
  /\ UNCHANGED <<published, callbackState, phase, lastValue, pending, token, resetter>>

LeaveCallback(t) ==
  /\ Inside(t, "invoke")
  /\ LET s == Top(t).slot
     IN /\ lastValue' = [lastValue EXCEPT ![s] = Top(t).change.version]
        /\ invoking' = [invoking EXCEPT ![s] = NoThread]
  /\ stack' = Returned(t)
  /\ UNCHANGED <<published, callbackState, phase, pending, token, delivered, resetter>>

------------------------------------------------------------------------------
(* RegisterCallback, behind OnChange and Observe.                            *)

Register(s, first) ==
  /\ phase[s] = "unused"
  /\ phase' = [phase EXCEPT ![s] = first]
  /\ lastValue' = [lastValue EXCEPT ![s] = published]
  /\ callbacks' = callbacks \cup {s}
  /\ UNCHANGED <<published, notifications, dispatching, pending, invoking,
                 delivered, resetter>>

OnChange(t, s) ==
  /\ MayCall(t)
  /\ Register(s, "active")
  /\ token' = [token EXCEPT ![s] = "held"]
  /\ UNCHANGED stack

InitialPhase == "initializing"

Observe(t, s) ==
  /\ MayCall(t)
  /\ Register(s, InitialPhase)
  /\ stack' = [stack EXCEPT ![t] =
       <<Entering(s, [previous |-> NoSnapshot, version |-> published]),
         Observing(s)>> \o @]
  /\ UNCHANGED token

(* The loop that drains what was buffered during the initial delivery.  Only *)
(* this thread can reach the slot before the token is returned.              *)
EndsInitialization(s) == pending[s] = NoChange

DrainPending(t) ==
  /\ Inside(t, "observe")
  /\ LET s == Top(t).slot
     IN IF EndsInitialization(s)
        THEN /\ phase' = [phase EXCEPT ![s] = "active"]
             /\ token' = [token EXCEPT ![s] = "held"]
             /\ stack' = Returned(t)
             /\ UNCHANGED pending
        ELSE /\ stack' = Called(t, Entering(s, pending[s]))
             /\ pending' = [pending EXCEPT ![s] = NoChange]
             /\ UNCHANGED <<phase, token>>
  /\ UNCHANGED <<published, callbackState, lastValue, invoking, delivered, resetter>>

------------------------------------------------------------------------------
(* OptionsSubscription::Reset, by whoever owns the token.                    *)

Reset(t, s) ==
  /\ MayCall(t)
  /\ token[s] = "held"
  /\ token' = [token EXCEPT ![s] = "resetting"]
  /\ callbacks' = callbacks \ {s}
  /\ stack' = Called(t, Resetting(s))
  /\ resetter' = [resetter EXCEPT ![s] = t]
  /\ UNCHANGED <<published, notifications, dispatching, slot, delivered>>

NeverWaits(t, s) == FALSE

WaitsForItself(t, s) == invoking[s] # NoThread

MustWait(t, s) == invoking[s] \notin {NoThread, t}

Deactivate(t) ==
  /\ Inside(t, "reset")
  /\ LET s == Top(t).slot
     IN /\ phase' = [phase EXCEPT ![s] = "inactive"]
        /\ pending' = [pending EXCEPT ![s] = NoChange]
        /\ IF MustWait(t, s)
           THEN stack' = Became(t, Waiting(s)) /\ UNCHANGED token
           ELSE stack' = Returned(t) /\ token' = [token EXCEPT ![s] = "gone"]
  /\ UNCHANGED <<published, callbackState, lastValue, invoking, delivered, resetter>>

FinishReset(t) ==
  /\ Inside(t, "wait")
  /\ invoking[Top(t).slot] = NoThread
  /\ token' = [token EXCEPT ![Top(t).slot] = "gone"]
  /\ stack' = Returned(t)
  /\ UNCHANGED <<published, callbackState, slot, delivered, resetter>>

------------------------------------------------------------------------------
Calls(t) == Publish(t) \/ \E s \in Slots : OnChange(t, s) \/ Observe(t, s) \/ Reset(t, s)

Proceed(t) == \/ TakeNotification(t) \/ ConsiderSlot(t)
              \/ EnterCallback(t) \/ LeaveCallback(t)
              \/ DrainPending(t) \/ Deactivate(t) \/ FinishReset(t)

Next == \E t \in Threads : Calls(t) \/ Proceed(t)

Spec == Init /\ [][Next]_vars

(* Threads keep running and callbacks return; nobody has to call.            *)
FairSpec == Spec /\ \A t \in Threads : WF_vars(Proceed(t))

------------------------------------------------------------------------------
(* Every variable has its type.                                              *)
TypeOK == /\ published \in Version
          /\ callbacks \subseteq Slots
          /\ notifications \in Seq(Notification)
          /\ dispatching \in BOOLEAN
          /\ phase \in [Slots -> Phases]
          /\ lastValue \in [Slots -> {NoSnapshot} \cup Version]
          /\ pending \in [Slots -> Change \cup {NoChange}]
          /\ invoking \in [Slots -> Threads \cup {NoThread}]
          /\ token \in [Slots -> Tokens]
          /\ stack \in [Threads -> Seq(Frame)]
          /\ delivered \in [Slots -> Seq(Change)]
          /\ resetter \in [Slots -> Threads \cup {NoThread}]

Dispatchers == {t \in Threads : \E f \in Frames(t) : f.op = "dispatch"}

(* However many threads publish, and even when a callback publishes from     *)
(* inside a notification, exactly one call of DispatchNotifications is       *)
(* running while dispatching is set, at most one notification is queued      *)
(* behind the one in flight, and a queued one always has a dispatcher.       *)
OneDispatcher ==
  /\ \A t \in Threads : \A i, j \in DOMAIN stack[t] :
       stack[t][i].op = "dispatch" /\ stack[t][j].op = "dispatch" => i = j
  /\ \A t, u \in Dispatchers : t = u
  /\ dispatching <=> Dispatchers # {}
  /\ Len(notifications) <= 1
  /\ notifications # <<>> => dispatching

(* The initial delivery of Observe and the dispatcher never run the callback *)
(* of an observer at the same time, nor one inside the other, and the slot   *)
(* names the thread that runs it.                                            *)
CallbackNotReentered ==
  \A s \in Slots : \A t \in Threads : \A i \in DOMAIN stack[t] :
    stack[t][i].op = "invoke" /\ stack[t][i].slot = s =>
      /\ invoking[s] = t
      /\ \A j \in DOMAIN stack[t] :
           stack[t][j].op = "invoke" /\ stack[t][j].slot = s => i = j

(* An observer sees versions in increasing order, whatever was coalesced,    *)
(* buffered or published from inside a callback, and the previous snapshot   *)
(* of each change is exactly the one it was given before.                    *)
DeliveriesChain ==
  \A s \in Slots : \A i \in DOMAIN delivered[s] :
    LET change == delivered[s][i]
    IN /\ change.version <= published
       /\ change.previous < change.version
       /\ i > 1 => change.previous = delivered[s][i - 1].version

(* The newest published version never falls between registration, queue,     *)
(* buffer and dispatcher: every registered observer that does not have it    *)
(* yet will still be given it by a call in progress.                         *)
OnItsWay(s) ==
  \/ \E i \in DOMAIN notifications :
       notifications[i].change.version = published /\ s \in notifications[i].callbacks
  \/ pending[s].version = published
  \/ \E t \in Threads : \E f \in Frames(t) :
       \/ f.op = "dispatch" /\ f.change.version = published /\ s \in f.todo
       \/ f.op \in {"enter", "invoke"} /\ f.slot = s /\ f.change.version = published

LatestIsOnItsWay ==
  \A s \in callbacks : lastValue[s] = published \/ OnItsWay(s)

(* Once Reset has returned, the callback runs nowhere, except around the     *)
(* very call of Reset when the callback reset its own subscription: what the *)
(* callback captured can be destroyed.                                       *)
ResetFences ==
  \A s \in Slots : token[s] = "gone" =>
    \A t \in Threads : \A f \in Frames(t) :
      f.op = "invoke" /\ f.slot = s => t = resetter[s]

(* The thread that dispatches never waits in Reset for a callback of another *)
(* thread: a subscription that can be reset has its callback run by the      *)
(* dispatcher alone, so Reset cannot close a circle of waiting threads.      *)
DispatcherNeverWaits ==
  \A t \in Dispatchers : \A f \in Frames(t) : f.op # "wait"

(* The protocol of dispatcher and slots: one dispatcher, callbacks that do    *)
(* not run into each other, deliveries without a gap, and no version that    *)
(* stays behind (PublishLocked, DispatchNotifications, InvokeCallback).      *)
DispatchIsOrderly ==
  /\ TypeOK
  /\ OneDispatcher
  /\ CallbackNotReentered
  /\ DeliveriesChain
  /\ LatestIsOnItsWay
  /\ DispatcherNeverWaits

(* Reset returns, even when it waits for a callback on another thread.       *)
ResetReturns == \A s \in Slots : (token[s] = "resetting") ~> (token[s] = "gone")

------------------------------------------------------------------------------
(* The abstract feed.  An observer counts the version of its last delivery   *)
(* as seen, or before that the version current at OnChange.                  *)

Seen(s) == IF delivered[s] # <<>> THEN delivered[s][Len(delivered[s])].version
           ELSE IF phase[s] = "initializing" THEN NoSnapshot
           ELSE lastValue[s]

Subscribed(s) == IF phase[s] = "unused" THEN "no"
                 ELSE IF phase[s] = "inactive" THEN "over"
                 ELSE "yes"

Feed == INSTANCE StateFeed WITH
  Observers <- Slots, version <- published,
  seen <- [s \in Slots |-> Seen(s)],
  subscribed <- [s \in Slots |-> Subscribed(s)]

(* Whatever the interleaving, observers are fed as StateFeed describes, and  *)
(* every one that stays subscribed is eventually given something newer.      *)
ImplementsFeed == Feed!Spec
==============================================================================
