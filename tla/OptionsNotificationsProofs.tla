------------------------ MODULE OptionsNotificationsProofs -------------------------
(* For any number of threads, observers, publications and nested calls: once       *)
(* OptionsSubscription::Reset has returned the callback runs nowhere, but in the   *)
(* thread that reset the subscription from inside it; one thread dispatches, and   *)
(* what the observers are given has no gap and no version stays behind; and the    *)
(* observers are fed as StateFeed describes.                                       *)
EXTENDS OptionsNotifications, TLAPS

(***********************************************************************************)
(* Types.                                                                          *)
(***********************************************************************************)
(* A dispatcher that has slots to consider has a notification.                     *)
Loaded == {f \in Frame : f.op = "dispatch" /\ f.todo # {} => f.change \in Change}

TypeInv == TypeOK /\ stack \in [Threads -> Seq(Loaded)]

LEMMA LoadedIsFrame ==
  /\ Loaded \subseteq Frame
  /\ \A x \in [Threads -> Seq(Loaded)] : x \in [Threads -> Seq(Frame)]
<1>1. Loaded \subseteq Frame
  BY DEF Loaded
<1>2. ASSUME NEW q \in Seq(Loaded) PROVE q \in Seq(Frame)
  BY <1>1
<1> QED BY <1>1, <1>2

LEMMA FrameTypes ==
  /\ \A s \in Slots : {Observing(s), Resetting(s), Waiting(s)} \subseteq Loaded
  /\ \A s \in Slots, c \in Change : {Entering(s, c), Invoking(s, c)} \subseteq Loaded
  /\ \A c \in Change \cup {NoChange}, S \in SUBSET Slots :
       S = {} \/ c \in Change => [op |-> "dispatch", change |-> c, todo |-> S] \in Loaded
<1>1. ASSUME NEW s \in Slots PROVE {Observing(s), Resetting(s), Waiting(s)} \subseteq Loaded
  BY DEF Observing, Resetting, Waiting, Frame, Loaded
<1>2. ASSUME NEW s \in Slots, NEW c \in Change
      PROVE  {Entering(s, c), Invoking(s, c)} \subseteq Loaded
  BY DEF Entering, Invoking, Frame, Loaded
<1>3. ASSUME NEW c \in Change \cup {NoChange}, NEW S \in SUBSET Slots, S = {} \/ c \in Change
      PROVE  [op |-> "dispatch", change |-> c, todo |-> S] \in Loaded
  <2> DEFINE f == [op |-> "dispatch", change |-> c, todo |-> S]
  <2>1. f \in [op : {"dispatch"}, change : Change \cup {NoChange}, todo : SUBSET Slots]
    OBVIOUS
  <2>2. f \in Frame
    BY <2>1 DEF Frame
  <2>3. f.todo = S /\ f.change = c
    OBVIOUS
  <2> QED BY <1>3, <2>2, <2>3 DEF Loaded
<1> QED BY <1>1, <1>2, <1>3

LEMMA FrameFields ==
  ASSUME NEW f \in Loaded
  PROVE  /\ f.op \in {"observe", "reset", "wait", "dispatch", "enter", "invoke"}
         /\ f.op # "dispatch" => f.slot \in Slots
         /\ f.op \in {"enter", "invoke"} => f.change \in Change
         /\ f.op = "dispatch" => f.change \in Change \cup {NoChange} /\ f.todo \subseteq Slots
         /\ f.op = "dispatch" /\ f.todo # {} => f.change \in Change
BY DEF Frame, Loaded

LEMMA ChangeTypes ==
  /\ NoSnapshot \notin Version
  /\ \A c \in Change : c.previous \in {NoSnapshot} \cup Version /\ c.version \in Version
  /\ \A p \in {NoSnapshot} \cup Version, v \in Version :
       [previous |-> p, version |-> v] \in Change
  /\ \A c \in Change, p \in {NoSnapshot} \cup Version : [c EXCEPT !.previous = p] \in Change
  /\ \A c \in Change, v \in Version : [c EXCEPT !.version = v] \in Change
<1>1. NoSnapshot \notin Version
  BY BoundAssumption DEF NoSnapshot, Version
<1>2. \A c \in Change : c.previous \in {NoSnapshot} \cup Version /\ c.version \in Version
  BY DEF Change
<1>3. \A p \in {NoSnapshot} \cup Version, v \in Version :
        [previous |-> p, version |-> v] \in Change
  BY DEF Change
<1>4. \A c \in Change, p \in {NoSnapshot} \cup Version : [c EXCEPT !.previous = p] \in Change
  BY DEF Change
<1>5. \A c \in Change, v \in Version : [c EXCEPT !.version = v] \in Change
  BY DEF Change
<1> QED BY <1>1, <1>2, <1>3, <1>4, <1>5

(* A thread that is inside a function has it on top of its stack.                  *)
LEMMA TopIsFrame ==
  ASSUME TypeInv, NEW t \in Threads, stack[t] # <<>>
  PROVE  /\ Top(t) \in Loaded
         /\ Tail(stack[t]) \in Seq(Loaded)
         /\ stack[t] \in Seq(Loaded)
BY DEF TypeInv, Top

LEMMA CoalesceType ==
  ASSUME NEW q \in Seq(Notification), NEW note \in Notification
  PROVE  Coalesce(q, note) \in Seq(Notification)
<1>1. CASE q = <<>>
  BY <1>1 DEF Coalesce
<1>2. CASE q # <<>>
  <2> DEFINE last == q[Len(q)]
             new == [note EXCEPT !.change.previous = last.change.previous]
  <2>1. Len(q) \in 1 .. Len(q) /\ last \in Notification
    BY <1>2
  <2>2. last.change \in Change /\ note.change \in Change /\ note.callbacks \subseteq Slots
    BY <2>1 DEF Notification
  <2>3. last.change.previous \in {NoSnapshot} \cup Version
    BY <2>2, ChangeTypes
  <2>4. new = [note EXCEPT !.change = [note.change EXCEPT !.previous = last.change.previous]]
    BY DEF Notification
  <2>5. [note.change EXCEPT !.previous = last.change.previous] \in Change
    BY <2>2, <2>3, ChangeTypes
  <2>6. new \in Notification
    BY <2>4, <2>5 DEF Notification
  <2> HIDE DEF new
  <2>7. [q EXCEPT ![Len(q)] = new] \in Seq(Notification)
    BY <2>1, <2>6
  <2> QED BY <1>2, <2>7 DEF Coalesce, new
<1> QED BY <1>1, <1>2

(* What a step of thread t may do to the stacks.                                   *)
LEMMA StackTypes ==
  ASSUME TypeInv, NEW t \in Threads, NEW f \in Loaded
  PROVE  /\ Called(t, f) \in [Threads -> Seq(Loaded)]
         /\ stack[t] # <<>> => /\ Returned(t) \in [Threads -> Seq(Loaded)]
                               /\ Became(t, f) \in [Threads -> Seq(Loaded)]
<1>1. stack \in [Threads -> Seq(Loaded)]
  BY DEF TypeInv
<1>2. <<f>> \o stack[t] \in Seq(Loaded)
  BY <1>1
<1>3. Called(t, f) \in [Threads -> Seq(Loaded)]
  BY <1>1, <1>2 DEF Called
<1>4. ASSUME stack[t] # <<>>
      PROVE  /\ Returned(t) \in [Threads -> Seq(Loaded)]
             /\ Became(t, f) \in [Threads -> Seq(Loaded)]
  <2>1. Tail(stack[t]) \in Seq(Loaded)
    BY <1>4, TopIsFrame
  <2>2. <<f>> \o Tail(stack[t]) \in Seq(Loaded)
    BY <2>1
  <2> QED BY <1>1, <2>1, <2>2 DEF Returned, Became
<1> QED BY <1>3, <1>4

LEMMA TypeInit == Init => TypeInv
<1> SUFFICES ASSUME Init PROVE TypeInv
  OBVIOUS
<1>1. published \in Version /\ callbacks \subseteq Slots
  BY BoundAssumption DEF Init, Version
<1>2. dispatching \in BOOLEAN
  BY DEF Init
<1>9. notifications \in Seq(Notification)
  <2>1. notifications = <<>>
    BY DEF Init
  <2> QED BY <2>1
<1>3. phase \in [Slots -> Phases] /\ token \in [Slots -> Tokens]
  BY DEF Init, Phases, Tokens
<1>4. lastValue \in [Slots -> {NoSnapshot} \cup Version]
  BY DEF Init
<1>5. pending \in [Slots -> Change \cup {NoChange}]
  BY DEF Init
<1>6. /\ invoking \in [Slots -> Threads \cup {NoThread}]
      /\ resetter \in [Slots -> Threads \cup {NoThread}]
  BY DEF Init
<1>7. stack \in [Threads -> Seq(Loaded)]
  BY DEF Init
<1>8. delivered \in [Slots -> Seq(Change)]
  BY DEF Init
<1> QED BY <1>1, <1>2, <1>3, <1>4, <1>5, <1>6, <1>7, <1>8, <1>9, LoadedIsFrame DEF TypeInv, TypeOK

LEMMA TypeCalls ==
  ASSUME TypeInv, NEW t \in Threads, Calls(t)
  PROVE  TypeInv'
<1>1. CASE Publish(t)
  <2>1. /\ published' = published + 1 /\ published < MaxVersion
        /\ notifications' = Coalesce(notifications, NewNotification)
        /\ dispatching' = TRUE
        /\ UNCHANGED <<callbacks, phase, lastValue, pending, invoking, token, delivered,
                       resetter>>
    BY <1>1 DEF Publish, slot
  <2>2. published \in Version /\ published' \in Version
    BY <2>1, BoundAssumption DEF TypeInv, TypeOK, Version
  <2>3. NewNotification \in Notification
    <3>1. [previous |-> published, version |-> published + 1] \in Change
      BY <2>1, <2>2 DEF Change
    <3> QED BY <3>1 DEF NewNotification, Notification, TypeInv, TypeOK
  <2>4. notifications' \in Seq(Notification)
    BY <2>1, <2>3, CoalesceType DEF TypeInv, TypeOK
  <2>5. Dispatching([change |-> NoChange, callbacks |-> {}]) \in Loaded
    BY FrameTypes DEF Dispatching
  <2>6. stack' \in [Threads -> Seq(Loaded)]
    BY <1>1, <2>5, StackTypes DEF Publish, TypeInv, TypeOK
  <2> QED BY <2>1, <2>2, <2>4, <2>6, LoadedIsFrame DEF TypeInv, TypeOK
<1>2. ASSUME NEW s \in Slots, OnChange(t, s) PROVE TypeInv'
  <2>1. /\ phase' = [phase EXCEPT ![s] = "active"]
        /\ lastValue' = [lastValue EXCEPT ![s] = published]
        /\ callbacks' = callbacks \cup {s}
        /\ token' = [token EXCEPT ![s] = "held"]
        /\ UNCHANGED <<published, notifications, dispatching, pending, invoking, stack,
                       delivered, resetter>>
    BY <1>2 DEF OnChange, Register
  <2>2. phase' \in [Slots -> Phases] /\ token' \in [Slots -> Tokens]
    BY <2>1 DEF TypeInv, TypeOK, Phases, Tokens
  <2>3. lastValue' \in [Slots -> {NoSnapshot} \cup Version] /\ callbacks' \subseteq Slots
    BY <2>1 DEF TypeInv, TypeOK
  <2> QED BY <2>1, <2>2, <2>3, LoadedIsFrame DEF TypeInv, TypeOK
<1>3. ASSUME NEW s \in Slots, Observe(t, s) PROVE TypeInv'
  <2> DEFINE entering == Entering(s, [previous |-> NoSnapshot, version |-> published])
  <2>1. /\ phase' = [phase EXCEPT ![s] = "initializing"]
        /\ lastValue' = [lastValue EXCEPT ![s] = published]
        /\ callbacks' = callbacks \cup {s}
        /\ stack' = [stack EXCEPT ![t] = <<entering, Observing(s)>> \o @]
        /\ UNCHANGED <<published, notifications, dispatching, pending, invoking, token,
                       delivered, resetter>>
    BY <1>3 DEF Observe, Register, InitialPhase
  <2>2. phase' \in [Slots -> Phases]
    BY <2>1 DEF TypeInv, TypeOK, Phases
  <2>3. lastValue' \in [Slots -> {NoSnapshot} \cup Version] /\ callbacks' \subseteq Slots
    BY <2>1 DEF TypeInv, TypeOK
  <2>4. entering \in Loaded /\ Observing(s) \in Loaded
    BY ChangeTypes, FrameTypes DEF TypeInv, TypeOK
  <2> HIDE DEF entering
  <2>5. <<entering, Observing(s)>> \o stack[t] \in Seq(Loaded)
    BY <2>4 DEF TypeInv, TypeOK
  <2>6. stack' \in [Threads -> Seq(Loaded)]
    BY <2>1, <2>5 DEF TypeInv, TypeOK
  <2> QED BY <2>1, <2>2, <2>3, <2>6, LoadedIsFrame DEF TypeInv, TypeOK
<1>4. ASSUME NEW s \in Slots, Reset(t, s) PROVE TypeInv'
  <2>1. /\ token' = [token EXCEPT ![s] = "resetting"]
        /\ callbacks' = callbacks \ {s}
        /\ stack' = Called(t, Resetting(s))
        /\ resetter' = [resetter EXCEPT ![s] = t]
        /\ UNCHANGED <<published, notifications, dispatching, phase, lastValue, pending,
                       invoking, delivered>>
    BY <1>4 DEF Reset, slot
  <2>2. token' \in [Slots -> Tokens] /\ callbacks' \subseteq Slots
    BY <2>1 DEF TypeInv, TypeOK, Tokens
  <2>3. resetter' \in [Slots -> Threads \cup {NoThread}]
    BY <2>1 DEF TypeInv, TypeOK
  <2>4. stack' \in [Threads -> Seq(Loaded)]
    BY <2>1, FrameTypes, StackTypes
  <2> QED BY <2>1, <2>2, <2>3, <2>4, LoadedIsFrame DEF TypeInv, TypeOK
<1> QED BY <1>1, <1>2, <1>3, <1>4 DEF Calls

LEMMA TypeProceed ==
  ASSUME TypeInv, NEW t \in Threads, Proceed(t)
  PROVE  TypeInv'
<1>1. stack[t] # <<>> /\ Top(t) \in Loaded /\ stack[t] \in Seq(Loaded)
  BY TopIsFrame DEF Proceed, TakeNotification, ConsiderSlot, EnterCallback, LeaveCallback,
                    DrainPending, Deactivate, FinishReset, Inside
<1>2. CASE TakeNotification(t)
  <2>1. CASE notifications = <<>>
    <3>1. /\ dispatching' = FALSE /\ stack' = Returned(t)
          /\ UNCHANGED <<notifications, published, callbacks, phase, lastValue, pending,
                         invoking, token, delivered, resetter>>
      BY <1>2, <2>1 DEF TakeNotification, StopsDispatching, slot
    <3>2. stack' \in [Threads -> Seq(Loaded)]
      BY <1>1, <3>1, StackTypes
    <3> QED BY <3>1, <3>2, LoadedIsFrame DEF TypeInv, TypeOK
  <2>2. CASE notifications # <<>>
    <3>1. /\ stack' = Became(t, Dispatching(Head(notifications)))
          /\ notifications' = Tail(notifications)
          /\ UNCHANGED <<dispatching, published, callbacks, phase, lastValue, pending,
                         invoking, token, delivered, resetter>>
      BY <1>2, <2>2 DEF TakeNotification, StopsDispatching, slot
    <3>2. Head(notifications) \in Notification /\ notifications' \in Seq(Notification)
      BY <2>2, <3>1 DEF TypeInv, TypeOK
    <3>3. /\ Head(notifications).change \in Change
          /\ Head(notifications).callbacks \in SUBSET Slots
      BY <3>2 DEF Notification
    <3>4. Dispatching(Head(notifications)) \in Loaded
      BY <3>3, FrameTypes DEF Dispatching
    <3>5. stack' \in [Threads -> Seq(Loaded)]
      BY <1>1, <3>1, <3>4, StackTypes
    <3> QED BY <3>1, <3>2, <3>5, LoadedIsFrame DEF TypeInv, TypeOK
  <2> QED BY <2>1, <2>2
<1>3. CASE ConsiderSlot(t)
  <2>1. Top(t).op = "dispatch"
    BY <1>3 DEF ConsiderSlot, Inside, Top
  <2>2. PICK s \in Top(t).todo :
          LET rest == [Top(t) EXCEPT !.todo = @ \ {s}]
              change == Top(t).change
          IN /\ IF MustBuffer(s)
                THEN pending' = [pending EXCEPT ![s] = Buffered(s, change)]
                ELSE UNCHANGED pending
             /\ stack' = IF phase[s] = "active"
                         THEN [stack EXCEPT ![t] = <<Entering(s, change), rest>> \o Tail(@)]
                         ELSE Became(t, rest)
    BY <1>3 DEF ConsiderSlot
  <2>3. Top(t).change \in Change /\ s \in Slots /\ Top(t).todo \in SUBSET Slots
    BY <1>1, <2>1, <2>2, FrameFields
  <2> DEFINE rest == [Top(t) EXCEPT !.todo = @ \ {s}]
             change == Top(t).change
  <2>4. rest = [op |-> "dispatch", change |-> change, todo |-> Top(t).todo \ {s}]
    <3>1. Top(t) \in [op : {"dispatch"}, change : Change \cup {NoChange}, todo : SUBSET Slots]
      BY <1>1, <2>1 DEF Loaded, Frame
    <3> QED BY <2>1, <3>1
  <2>5. rest \in Loaded /\ Entering(s, change) \in Loaded
    BY <2>3, <2>4, FrameTypes
  <2>6. Buffered(s, change) \in Change \cup {NoChange}
    BY <2>3, ChangeTypes DEF Buffered, TypeInv, TypeOK
  <2>7. pending' \in [Slots -> Change \cup {NoChange}]
    BY <2>2, <2>6 DEF TypeInv, TypeOK
  <2>8. <<Entering(s, change), rest>> \o Tail(stack[t]) \in Seq(Loaded)
    BY <1>1, <2>5, TopIsFrame
  <2>9. stack' \in [Threads -> Seq(Loaded)]
    <3>1. CASE phase[s] = "active"
      <4>1. stack' = [stack EXCEPT ![t] = <<Entering(s, change), rest>> \o Tail(stack[t])]
        BY <2>2, <3>1
      <4> QED BY <2>8, <4>1 DEF TypeInv
    <3>2. CASE phase[s] # "active"
      <4>1. stack' = Became(t, rest)
        BY <2>2, <3>2
      <4> QED BY <1>1, <2>5, <4>1, StackTypes
    <3> QED BY <3>1, <3>2
  <2>10. UNCHANGED <<published, callbacks, notifications, dispatching, phase, lastValue,
                     invoking, token, delivered, resetter>>
    BY <1>3 DEF ConsiderSlot, callbackState
  <2> QED BY <2>7, <2>9, <2>10, LoadedIsFrame DEF TypeInv, TypeOK
<1>4. CASE EnterCallback(t)
  <2> DEFINE s == Top(t).slot
             change == Rebased(s, Top(t).change)
  <2>1. Top(t).op = "enter"
    BY <1>4 DEF EnterCallback, Inside, Top
  <2>2. s \in Slots /\ Top(t).change \in Change
    BY <1>1, <2>1, FrameFields
  <2>3. change \in Change
    BY <2>2, ChangeTypes DEF Rebased, TypeInv, TypeOK
  <2>4. UNCHANGED <<published, callbacks, notifications, dispatching, phase, lastValue,
                    pending, token, resetter>>
    BY <1>4 DEF EnterCallback, callbackState
  <2>5. CASE MayInvoke(s)
    <3>1. /\ stack' = Became(t, Invoking(s, change))
          /\ invoking' = [invoking EXCEPT ![s] = t]
          /\ delivered' = [delivered EXCEPT ![s] = Append(@, change)]
      BY <1>4, <2>5 DEF EnterCallback
    <3>2. stack' \in [Threads -> Seq(Loaded)]
      BY <1>1, <2>2, <2>3, <3>1, FrameTypes, StackTypes
    <3>3. invoking' \in [Slots -> Threads \cup {NoThread}]
      BY <3>1 DEF TypeInv, TypeOK
    <3>4. Append(delivered[s], change) \in Seq(Change)
      BY <2>2, <2>3 DEF TypeInv, TypeOK
    <3>5. delivered' \in [Slots -> Seq(Change)]
      BY <3>1, <3>4 DEF TypeInv, TypeOK
    <3> QED BY <2>4, <3>2, <3>3, <3>5, LoadedIsFrame DEF TypeInv, TypeOK
  <2>6. CASE ~MayInvoke(s)
    <3>1. stack' = Returned(t) /\ UNCHANGED <<invoking, delivered>>
      BY <1>4, <2>6 DEF EnterCallback
    <3>2. stack' \in [Threads -> Seq(Loaded)]
      BY <1>1, <2>2, <3>1, FrameTypes, StackTypes
    <3> QED BY <2>4, <3>1, <3>2, LoadedIsFrame DEF TypeInv, TypeOK
  <2> QED BY <2>5, <2>6
<1>5. CASE LeaveCallback(t)
  <2> DEFINE s == Top(t).slot
  <2>1. Top(t).op = "invoke"
    BY <1>5 DEF LeaveCallback, Inside, Top
  <2>2. s \in Slots /\ Top(t).change.version \in Version
    BY <1>1, <2>1, FrameFields, ChangeTypes
  <2>3. /\ lastValue' = [lastValue EXCEPT ![s] = Top(t).change.version]
        /\ invoking' = [invoking EXCEPT ![s] = NoThread]
        /\ stack' = Returned(t)
        /\ UNCHANGED <<published, callbacks, notifications, dispatching, phase, pending,
                       token, delivered, resetter>>
    BY <1>5 DEF LeaveCallback, callbackState
  <2>4. lastValue' \in [Slots -> {NoSnapshot} \cup Version]
    BY <2>2, <2>3 DEF TypeInv, TypeOK
  <2>5. invoking' \in [Slots -> Threads \cup {NoThread}]
    BY <2>3 DEF TypeInv, TypeOK
  <2>6. stack' \in [Threads -> Seq(Loaded)]
    BY <1>1, <2>2, <2>3, FrameTypes, StackTypes
  <2> QED BY <2>3, <2>4, <2>5, <2>6, LoadedIsFrame DEF TypeInv, TypeOK
<1>6. CASE DrainPending(t)
  <2> DEFINE s == Top(t).slot
  <2>1. Top(t).op = "observe"
    BY <1>6 DEF DrainPending, Inside, Top
  <2>2. s \in Slots
    BY <1>1, <2>1, FrameFields
  <2>3. UNCHANGED <<published, callbacks, notifications, dispatching, lastValue, invoking,
                    delivered, resetter>>
    BY <1>6 DEF DrainPending, callbackState
  <2>4. CASE pending[s] = NoChange
    <3>1. /\ phase' = [phase EXCEPT ![s] = "active"]
          /\ token' = [token EXCEPT ![s] = "held"]
          /\ stack' = Returned(t)
          /\ pending' = pending
      BY <1>6, <2>4 DEF DrainPending, EndsInitialization
    <3>2. phase' \in [Slots -> Phases] /\ token' \in [Slots -> Tokens]
      BY <3>1 DEF TypeInv, TypeOK, Phases, Tokens
    <3>3. stack' \in [Threads -> Seq(Loaded)]
      BY <1>1, <2>2, <3>1, FrameTypes, StackTypes
    <3> QED BY <2>3, <3>1, <3>2, <3>3, LoadedIsFrame DEF TypeInv, TypeOK
  <2>5. CASE pending[s] # NoChange
    <3>1. /\ stack' = Called(t, Entering(s, pending[s]))
          /\ pending' = [pending EXCEPT ![s] = NoChange]
          /\ UNCHANGED <<phase, token>>
      BY <1>6, <2>5 DEF DrainPending, EndsInitialization
    <3>2. pending[s] \in Change
      BY <2>2, <2>5 DEF TypeInv, TypeOK
    <3>3. stack' \in [Threads -> Seq(Loaded)]
      BY <2>2, <3>1, <3>2, FrameTypes, StackTypes
    <3>4. pending' \in [Slots -> Change \cup {NoChange}]
      BY <3>1 DEF TypeInv, TypeOK
    <3> QED BY <2>3, <3>1, <3>3, <3>4, LoadedIsFrame DEF TypeInv, TypeOK
  <2> QED BY <2>4, <2>5
<1>7. CASE Deactivate(t)
  <2> DEFINE s == Top(t).slot
  <2>1. Top(t).op = "reset"
    BY <1>7 DEF Deactivate, Inside, Top
  <2>2. s \in Slots
    BY <1>1, <2>1, FrameFields
  <2>3. /\ phase' = [phase EXCEPT ![s] = "inactive"]
        /\ pending' = [pending EXCEPT ![s] = NoChange]
        /\ \/ stack' = Became(t, Waiting(s)) /\ token' = token
           \/ stack' = Returned(t) /\ token' = [token EXCEPT ![s] = "gone"]
        /\ UNCHANGED <<published, callbacks, notifications, dispatching, lastValue, invoking,
                       delivered, resetter>>
    BY <1>7 DEF Deactivate, callbackState
  <2>4. phase' \in [Slots -> Phases] /\ token' \in [Slots -> Tokens]
    BY <2>3 DEF TypeInv, TypeOK, Phases, Tokens
  <2>5. pending' \in [Slots -> Change \cup {NoChange}]
    BY <2>3 DEF TypeInv, TypeOK
  <2>6. stack' \in [Threads -> Seq(Loaded)]
    BY <1>1, <2>2, <2>3, FrameTypes, StackTypes
  <2> QED BY <2>3, <2>4, <2>5, <2>6, LoadedIsFrame DEF TypeInv, TypeOK
<1>8. CASE FinishReset(t)
  <2>1. /\ stack' = Returned(t)
        /\ token' = [token EXCEPT ![Top(t).slot] = "gone"]
        /\ UNCHANGED <<published, callbacks, notifications, dispatching, phase, lastValue,
                       pending, invoking, delivered, resetter>>
    BY <1>8 DEF FinishReset, callbackState, slot
  <2>2. token' \in [Slots -> Tokens]
    BY <2>1 DEF TypeInv, TypeOK, Tokens
  <2>3. stack' \in [Threads -> Seq(Loaded)]
    BY <1>1, <2>1, StackTypes
  <2> QED BY <2>1, <2>2, <2>3, LoadedIsFrame DEF TypeInv, TypeOK
<1> QED BY <1>2, <1>3, <1>4, <1>5, <1>6, <1>7, <1>8 DEF Proceed

LEMMA TypeInvHolds == Spec => []TypeInv
<1>1. TypeInv /\ [Next]_vars => TypeInv'
  <2>1. TypeInv /\ UNCHANGED vars => TypeInv'
    BY DEF TypeInv, TypeOK, vars, callbackState, slot
  <2> QED BY <2>1, TypeCalls, TypeProceed DEF Next
<1> QED BY <1>1, TypeInit, PTL DEF Spec

(***********************************************************************************)
(* Stacks, counted from the bottom: a call keeps the place of those below it.      *)
(***********************************************************************************)
Depth(t) == Len(stack[t])
At(q, p) == q[Len(q) + 1 - p]

(* Thread t changes its stack above place n only, and the others nothing.          *)
Keeps(t, n) == /\ n \in 0 .. Depth(t)
               /\ \A u \in Threads \ {t} : stack'[u] = stack[u]
               /\ \A p \in 1 .. n : At(stack'[t], p) = At(stack[t], p)

LEMMA Pushing ==
  ASSUME NEW q \in Seq(Loaded), NEW f \in Loaded
  PROVE  /\ <<f>> \o q \in Seq(Loaded)
         /\ Len(<<f>> \o q) = Len(q) + 1
         /\ At(<<f>> \o q, Len(q) + 1) = f
         /\ \A p \in 1 .. Len(q) : At(<<f>> \o q, p) = At(q, p)
<1>1. Len(q) \in Nat /\ <<f>> \o q \in Seq(Loaded) /\ Len(<<f>> \o q) = Len(q) + 1
  OBVIOUS
<1>2. (<<f>> \o q)[1] = f
  OBVIOUS
<1>3. \A i \in 1 .. Len(q) : (<<f>> \o q)[i + 1] = q[i]
  OBVIOUS
<1>4. ASSUME NEW p \in 1 .. Len(q) PROVE At(<<f>> \o q, p) = At(q, p)
  <2>1. /\ Len(q) + 1 - p \in 1 .. Len(q)
        /\ (Len(q) + 1) + 1 - p = (Len(q) + 1 - p) + 1
    BY <1>1
  <2> QED BY <1>1, <1>3, <2>1 DEF At
<1>5. At(<<f>> \o q, Len(q) + 1) = f
  <2>1. (Len(q) + 1) + 1 - (Len(q) + 1) = 1
    BY <1>1
  <2> QED BY <1>1, <1>2, <2>1 DEF At
<1> QED BY <1>1, <1>4, <1>5

LEMMA Popping ==
  ASSUME NEW q \in Seq(Loaded), q # <<>>
  PROVE  /\ Tail(q) \in Seq(Loaded)
         /\ Len(q) \in Nat \ {0}
         /\ Len(Tail(q)) = Len(q) - 1
         /\ At(q, Len(q)) = Head(q)
         /\ \A p \in 1 .. Len(q) - 1 : At(Tail(q), p) = At(q, p)
<1>1. Len(q) \in Nat \ {0} /\ Tail(q) \in Seq(Loaded) /\ Len(Tail(q)) = Len(q) - 1
  OBVIOUS
<1>2. Head(q) = q[1] /\ \A i \in 1 .. Len(q) - 1 : Tail(q)[i] = q[i + 1]
  OBVIOUS
<1>3. ASSUME NEW p \in 1 .. Len(q) - 1 PROVE At(Tail(q), p) = At(q, p)
  <2>1. /\ (Len(q) - 1) + 1 - p \in 1 .. Len(q) - 1
        /\ ((Len(q) - 1) + 1 - p) + 1 = Len(q) + 1 - p
    BY <1>1
  <2> QED BY <1>1, <1>2, <2>1 DEF At
<1>4. At(q, Len(q)) = Head(q)
  <2>1. Len(q) + 1 - Len(q) = 1
    BY <1>1
  <2> QED BY <1>2, <2>1 DEF At
<1> QED BY <1>1, <1>3, <1>4

LEMMA PushingTwo ==
  ASSUME NEW q \in Seq(Loaded), NEW f \in Loaded, NEW g \in Loaded
  PROVE  <<g, f>> \o q = <<g>> \o (<<f>> \o q)
OBVIOUS

LEMMA CalledStack ==
  ASSUME TypeInv, NEW t \in Threads, NEW f \in Loaded, stack' = Called(t, f)
  PROVE  /\ Keeps(t, Depth(t)) /\ Depth(t)' = Depth(t) + 1
         /\ At(stack'[t], Depth(t) + 1) = f
<1>1. stack[t] \in Seq(Loaded) /\ stack'[t] = <<f>> \o stack[t]
  BY DEF TypeInv, Called
<1>2. \A u \in Threads \ {t} : stack'[u] = stack[u]
  BY DEF TypeInv, Called
<1>3. Depth(t) \in Nat
  BY <1>1 DEF Depth
<1> QED BY <1>1, <1>2, <1>3, Pushing DEF Keeps, Depth

LEMMA ReturnedStack ==
  ASSUME TypeInv, NEW t \in Threads, stack[t] # <<>>, stack' = Returned(t)
  PROVE  Keeps(t, Depth(t) - 1) /\ Depth(t)' = Depth(t) - 1
<1>1. stack[t] \in Seq(Loaded) /\ stack'[t] = Tail(stack[t])
  BY DEF TypeInv, Returned
<1>2. \A u \in Threads \ {t} : stack'[u] = stack[u]
  BY DEF TypeInv, Returned
<1>3. Depth(t) \in Nat \ {0}
  BY <1>1, Popping DEF Depth
<1> QED BY <1>1, <1>2, <1>3, Popping DEF Keeps, Depth

LEMMA BecameStack ==
  ASSUME TypeInv, NEW t \in Threads, NEW f \in Loaded, stack[t] # <<>>, stack' = Became(t, f)
  PROVE  /\ Keeps(t, Depth(t) - 1) /\ Depth(t)' = Depth(t)
         /\ At(stack'[t], Depth(t)) = f
<1> DEFINE r == Tail(stack[t])
           n == Len(stack[t])
<1>1. \A u \in Threads \ {t} : stack'[u] = stack[u]
  BY DEF TypeInv, Became
<1>2. stack'[t] = <<f>> \o r
  BY DEF TypeInv, Became
<1>3. /\ n \in Nat \ {0}
      /\ r \in Seq(Loaded) /\ Len(r) = n - 1
      /\ \A p \in 1 .. n - 1 : At(r, p) = At(stack[t], p)
  BY Popping DEF TypeInv
<1> HIDE DEF r
<1>4. /\ Len(<<f>> \o r) = Len(r) + 1
      /\ At(<<f>> \o r, Len(r) + 1) = f
      /\ \A p \in 1 .. Len(r) : At(<<f>> \o r, p) = At(r, p)
  BY <1>3, Pushing
<1> HIDE DEF n
<1>5. Len(r) + 1 = n /\ n - 1 \in 0 .. n
  BY <1>3
<1>6. /\ Len(stack'[t]) = n /\ At(stack'[t], n) = f
      /\ \A p \in 1 .. n - 1 : At(stack'[t], p) = At(stack[t], p)
  BY <1>2, <1>3, <1>4, <1>5
<1> QED BY <1>1, <1>5, <1>6 DEF Keeps, Depth, n

(* Two calls at once: f below, g on top of it.                                     *)
LEMMA PushingBoth ==
  ASSUME NEW q \in Seq(Loaded), NEW f \in Loaded, NEW g \in Loaded
  PROVE  /\ Len(<<g, f>> \o q) = Len(q) + 2
         /\ At(<<g, f>> \o q, Len(q) + 1) = f
         /\ At(<<g, f>> \o q, Len(q) + 2) = g
         /\ \A p \in 1 .. Len(q) : At(<<g, f>> \o q, p) = At(q, p)
<1> DEFINE r == <<f>> \o q
           n == Len(q)
<1>1. <<g, f>> \o q = <<g>> \o r
  BY PushingTwo
<1>2. /\ r \in Seq(Loaded) /\ Len(r) = n + 1
      /\ At(r, n + 1) = f
      /\ \A p \in 1 .. n : At(r, p) = At(q, p)
  BY Pushing
<1> HIDE DEF r
<1>3. /\ Len(<<g>> \o r) = Len(r) + 1
      /\ At(<<g>> \o r, Len(r) + 1) = g
      /\ \A p \in 1 .. Len(r) : At(<<g>> \o r, p) = At(r, p)
  BY <1>2, Pushing
<1>4. n \in Nat
  OBVIOUS
<1> HIDE DEF n
<1>5. (n + 1) + 1 = n + 2 /\ n + 1 \in 1 .. n + 1 /\ \A p \in 1 .. n : p \in 1 .. n + 1
  BY <1>4
<1>6. /\ Len(<<g>> \o r) = n + 2
      /\ At(<<g>> \o r, n + 1) = f /\ At(<<g>> \o r, n + 2) = g
      /\ \A p \in 1 .. n : At(<<g>> \o r, p) = At(q, p)
  BY <1>2, <1>3, <1>5
<1> QED BY <1>1, <1>6 DEF n

LEMMA CalledTwo ==
  ASSUME TypeInv, NEW t \in Threads, NEW f \in Loaded, NEW g \in Loaded,
         stack' = [stack EXCEPT ![t] = <<g, f>> \o @]
  PROVE  /\ Keeps(t, Depth(t)) /\ Depth(t)' = Depth(t) + 2
         /\ At(stack'[t], Depth(t) + 1) = f
         /\ At(stack'[t], Depth(t) + 2) = g
<1>1. stack[t] \in Seq(Loaded) /\ stack'[t] = <<g, f>> \o stack[t]
  BY DEF TypeInv
<1>2. \A u \in Threads \ {t} : stack'[u] = stack[u]
  BY DEF TypeInv
<1>3. Len(stack[t]) \in 0 .. Len(stack[t])
  BY <1>1
<1> QED BY <1>1, <1>2, <1>3, PushingBoth DEF Keeps, Depth

LEMMA BecameTwo ==
  ASSUME TypeInv, NEW t \in Threads, NEW f \in Loaded, NEW g \in Loaded, stack[t] # <<>>,
         stack' = [stack EXCEPT ![t] = <<g, f>> \o Tail(@)]
  PROVE  /\ Keeps(t, Depth(t) - 1) /\ Depth(t)' = Depth(t) + 1
         /\ At(stack'[t], Depth(t)) = f
         /\ At(stack'[t], Depth(t) + 1) = g
<1> DEFINE r == Tail(stack[t])
           n == Len(stack[t])
<1>1. \A u \in Threads \ {t} : stack'[u] = stack[u]
  BY DEF TypeInv
<1>2. stack'[t] = <<g, f>> \o r
  BY DEF TypeInv
<1>3. /\ n \in Nat \ {0}
      /\ r \in Seq(Loaded) /\ Len(r) = n - 1
      /\ \A p \in 1 .. n - 1 : At(r, p) = At(stack[t], p)
  BY Popping DEF TypeInv
<1> HIDE DEF r
<1>4. /\ Len(<<g, f>> \o r) = Len(r) + 2
      /\ At(<<g, f>> \o r, Len(r) + 1) = f
      /\ At(<<g, f>> \o r, Len(r) + 2) = g
      /\ \A p \in 1 .. Len(r) : At(<<g, f>> \o r, p) = At(r, p)
  BY <1>3, PushingBoth
<1> HIDE DEF n
<1>5. Len(r) + 1 = n /\ Len(r) + 2 = n + 1 /\ n - 1 \in 0 .. n
  BY <1>3
<1>6. /\ Len(stack'[t]) = n + 1 /\ At(stack'[t], n) = f /\ At(stack'[t], n + 1) = g
      /\ \A p \in 1 .. n - 1 : At(stack'[t], p) = At(stack[t], p)
  BY <1>2, <1>3, <1>4, <1>5
<1> QED BY <1>1, <1>5, <1>6 DEF Keeps, Depth, n

(***********************************************************************************)
(* What is where.                                                                  *)
(***********************************************************************************)
DispatchAt(u, p) == p \in 1 .. Depth(u) /\ At(stack[u], p).op = "dispatch"
InitialAt(u, p, s) == /\ p \in 1 .. Depth(u)
                      /\ At(stack[u], p).op = "observe" /\ At(stack[u], p).slot = s
EndingAt(u, p, s) == /\ p \in 1 .. Depth(u)
                     /\ At(stack[u], p).op \in {"reset", "wait"} /\ At(stack[u], p).slot = s
WaitAt(u, p, s) == /\ p \in 1 .. Depth(u)
                   /\ At(stack[u], p).op = "wait" /\ At(stack[u], p).slot = s
EnterAt(u, p, s) == /\ p \in 1 .. Depth(u)
                    /\ At(stack[u], p).op = "enter" /\ At(stack[u], p).slot = s
InvokeAt(u, p, s) == /\ p \in 1 .. Depth(u)
                     /\ At(stack[u], p).op = "invoke" /\ At(stack[u], p).slot = s
CallAt(u, p, s) == EnterAt(u, p, s) \/ InvokeAt(u, p, s)

(* A step of t that leaves n places and puts as many frames on them as it likes.   *)
Old(t, n, u, p) == u # t \/ p <= n

LEMMA WhatIsWhere ==
  ASSUME TypeInv, NEW t \in Threads, NEW n \in Nat, Keeps(t, n),
         Depth(t)' \in Nat, n <= Depth(t)',
         NEW u \in Threads, NEW p \in Nat
  PROVE  /\ Old(t, n, u, p) =>
              /\ DispatchAt(u, p)' <=> DispatchAt(u, p)
              /\ \A s \in Slots : /\ InitialAt(u, p, s)' <=> InitialAt(u, p, s)
                                  /\ EndingAt(u, p, s)' <=> EndingAt(u, p, s)
                                  /\ WaitAt(u, p, s)' <=> WaitAt(u, p, s)
                                  /\ EnterAt(u, p, s)' <=> EnterAt(u, p, s)
                                  /\ InvokeAt(u, p, s)' <=> InvokeAt(u, p, s)
         /\ ~Old(t, n, u, p) => u = t /\ p > n
         /\ u = t /\ p > Depth(t)' =>
              /\ ~DispatchAt(u, p)'
              /\ \A s \in Slots : /\ ~InitialAt(u, p, s)' /\ ~EndingAt(u, p, s)'
                                  /\ ~WaitAt(u, p, s)'
                                  /\ ~EnterAt(u, p, s)' /\ ~InvokeAt(u, p, s)'
<1>1. Depth(t) \in Nat /\ Depth(u) \in Nat
  BY DEF TypeInv, Depth
<1>2. ASSUME Old(t, n, u, p)
      PROVE  /\ p \in 1 .. Depth(u)' <=> p \in 1 .. Depth(u)
             /\ p \in 1 .. Depth(u) => At(stack'[u], p) = At(stack[u], p)
  <2>1. CASE u # t
    <3>1. stack'[u] = stack[u]
      BY <2>1 DEF Keeps
    <3> QED BY <3>1 DEF Depth
  <2>2. CASE u = t
    <3>1. p <= n /\ n <= Depth(t)
      BY <1>2, <2>2 DEF Old, Keeps
    <3>2. p \in 1 .. Depth(u) => p \in 1 .. n
      BY <1>1, <3>1
    <3> QED BY <1>1, <2>2, <3>1, <3>2 DEF Keeps
  <2> QED BY <2>1, <2>2
<1>3. ASSUME Old(t, n, u, p) PROVE DispatchAt(u, p)' <=> DispatchAt(u, p)
  BY <1>2, <1>3 DEF DispatchAt
<1>4. ASSUME Old(t, n, u, p), NEW s \in Slots
      PROVE  /\ InitialAt(u, p, s)' <=> InitialAt(u, p, s)
             /\ EndingAt(u, p, s)' <=> EndingAt(u, p, s)
             /\ WaitAt(u, p, s)' <=> WaitAt(u, p, s)
             /\ EnterAt(u, p, s)' <=> EnterAt(u, p, s)
             /\ InvokeAt(u, p, s)' <=> InvokeAt(u, p, s)
  BY <1>2, <1>4 DEF InitialAt, EndingAt, WaitAt, EnterAt, InvokeAt
<1>5. ASSUME ~Old(t, n, u, p) PROVE u = t /\ p > n
  BY <1>5 DEF Old
<1>6. ASSUME u = t, p > Depth(t)'
      PROVE  /\ ~DispatchAt(u, p)'
             /\ \A s \in Slots : /\ ~InitialAt(u, p, s)' /\ ~EndingAt(u, p, s)'
                                 /\ ~WaitAt(u, p, s)'
                                 /\ ~EnterAt(u, p, s)' /\ ~InvokeAt(u, p, s)'
  <2>1. p \notin 1 .. Depth(u)'
    BY <1>6
  <2> QED BY <2>1 DEF DispatchAt, InitialAt, EndingAt, WaitAt, EnterAt, InvokeAt
<1> QED BY <1>3, <1>4, <1>5, <1>6

(***********************************************************************************)
(* The invariant.                                                                  *)
(***********************************************************************************)

(* One call of DispatchNotifications at a time.                                    *)
Dispatcher == \A t, u \in Threads, p, q \in Nat :
  /\ DispatchAt(t, p) => dispatching
  /\ DispatchAt(t, p) /\ DispatchAt(u, q) => t = u /\ p = q

(* One initial delivery for a slot, while it is initializing.                      *)
Initializer == \A t, u \in Threads, p, q \in Nat, s \in Slots :
  /\ InitialAt(t, p, s) => phase[s] = "initializing"
  /\ InitialAt(t, p, s) /\ InitialAt(u, q, s) => t = u /\ p = q

(* One call of Reset for a slot, by the thread that took its token.                *)
Resetter == \A t, u \in Threads, p, q \in Nat, s \in Slots :
  /\ EndingAt(t, p, s) => token[s] = "resetting" /\ resetter[s] = t
  /\ EndingAt(t, p, s) /\ EndingAt(u, q, s) => t = u /\ p = q

(* Who waits has deactivated the slot.                                             *)
Waiter == \A t \in Threads, p \in Nat, s \in Slots :
  WaitAt(t, p, s) => EndingAt(t, p, s) /\ phase[s] = "inactive"

(* InvokeCallback is called by the initial delivery of its slot, or by the         *)
(* dispatcher once that is over.                                                   *)
Invoker == \A t \in Threads, p \in Nat, s \in Slots :
  CallAt(t, p, s) => /\ p > 1
                     /\ \/ InitialAt(t, p - 1, s)
                        \/ DispatchAt(t, p - 1) /\ phase[s] \in {"active", "inactive"}

(* The slot names the thread that runs the callback.                               *)
Named == \A t \in Threads, p \in Nat, s \in Slots :
  InvokeAt(t, p, s) => invoking[s] = t

Lifecycle == \A s \in Slots :
  /\ token[s] = "none" <=> phase[s] \in {"unused", "initializing"}
  /\ token[s] = "held" => phase[s] = "active"
  /\ token[s] = "gone" => phase[s] = "inactive"

Fence == \A t \in Threads, p \in Nat, s \in Slots :
  token[s] = "gone" /\ InvokeAt(t, p, s) => t = resetter[s]

FenceInv ==
  Dispatcher /\ Initializer /\ Resetter /\ Waiter /\ Invoker /\ Named /\ Lifecycle /\ Fence

(* Hence one call of InvokeCallback for a slot, whoever makes it.                  *)
LEMMA OneCall ==
  ASSUME FenceInv, NEW t \in Threads, NEW u \in Threads, NEW p \in Nat, NEW q \in Nat,
         NEW s \in Slots, CallAt(t, p, s), CallAt(u, q, s)
  PROVE  t = u /\ p = q
<1>1. p > 1 /\ q > 1 /\ p - 1 \in Nat /\ q - 1 \in Nat
  BY DEF FenceInv, Invoker
<1>2. InitialAt(t, p - 1, s) \/ (DispatchAt(t, p - 1) /\ phase[s] \in {"active", "inactive"})
  BY DEF FenceInv, Invoker
<1>3. InitialAt(u, q - 1, s) \/ (DispatchAt(u, q - 1) /\ phase[s] \in {"active", "inactive"})
  BY DEF FenceInv, Invoker
<1>4. /\ InitialAt(t, p - 1, s) => phase[s] = "initializing"
      /\ InitialAt(u, q - 1, s) => phase[s] = "initializing"
  BY <1>1 DEF FenceInv, Initializer
<1>5. t = u /\ p - 1 = q - 1
  BY <1>1, <1>2, <1>3, <1>4 DEF FenceInv, Initializer, Dispatcher
<1> QED BY <1>1, <1>5

(* How a frame answers the questions above.                                        *)
Is(f, op, s) == f.op = op /\ f.slot = s
IsEnding(f, s) == f.op \in {"reset", "wait"} /\ f.slot = s

(* The frame f, at a place that t has just taken.                                  *)
LEMMA PlacedFrame ==
  ASSUME NEW t \in Threads, NEW f, NEW p \in Nat, p \in 1 .. Depth(t)', At(stack'[t], p) = f
  PROVE  /\ DispatchAt(t, p)' <=> f.op = "dispatch"
         /\ \A s \in Slots : /\ InitialAt(t, p, s)' <=> Is(f, "observe", s)
                             /\ EndingAt(t, p, s)' <=> IsEnding(f, s)
                             /\ WaitAt(t, p, s)' <=> Is(f, "wait", s)
                             /\ EnterAt(t, p, s)' <=> Is(f, "enter", s)
                             /\ InvokeAt(t, p, s)' <=> Is(f, "invoke", s)
BY DEF DispatchAt, InitialAt, EndingAt, WaitAt, EnterAt, InvokeAt, Is, IsEnding

(* The frame on top of the stack.                                                  *)
LEMMA TopFrame ==
  ASSUME TypeInv, NEW t \in Threads, stack[t] # <<>>
  PROVE  /\ Depth(t) \in Nat \ {0}
         /\ DispatchAt(t, Depth(t)) <=> Top(t).op = "dispatch"
         /\ \A s \in Slots : /\ InitialAt(t, Depth(t), s) <=> Is(Top(t), "observe", s)
                             /\ EndingAt(t, Depth(t), s) <=> IsEnding(Top(t), s)
                             /\ WaitAt(t, Depth(t), s) <=> Is(Top(t), "wait", s)
                             /\ EnterAt(t, Depth(t), s) <=> Is(Top(t), "enter", s)
                             /\ InvokeAt(t, Depth(t), s) <=> Is(Top(t), "invoke", s)
<1>1. stack[t] \in Seq(Loaded)
  BY DEF TypeInv
<1>2. Depth(t) \in Nat \ {0} /\ At(stack[t], Depth(t)) = Top(t)
  BY <1>1, Popping DEF Depth, Top
<1>3. Depth(t) \in 1 .. Depth(t)
  BY <1>2
<1> QED BY <1>2, <1>3 DEF DispatchAt, InitialAt, EndingAt, WaitAt, EnterAt, InvokeAt, Is, IsEnding

(* Nothing is above the top.                                                       *)
LEMMA NothingAbove ==
  ASSUME TypeInv, NEW t \in Threads, NEW p \in Nat, p > Depth(t)
  PROVE  ~DispatchAt(t, p) /\ \A s \in Slots : /\ ~InitialAt(t, p, s) /\ ~EndingAt(t, p, s)
                                               /\ ~WaitAt(t, p, s)
                                               /\ ~EnterAt(t, p, s) /\ ~InvokeAt(t, p, s)
<1>1. Depth(t) \in Nat
  BY DEF TypeInv, Depth
<1>2. p \notin 1 .. Depth(t)
  BY <1>1
<1> QED BY <1>2 DEF DispatchAt, InitialAt, EndingAt, WaitAt, EnterAt, InvokeAt

(* t is put at place m, a new one or the top one of its stack, with f there, and   *)
(* nothing above.                                                                  *)
LEMMA OneFrame ==
  ASSUME TypeInv, NEW t \in Threads, NEW f, NEW m \in Nat \ {0},
         Keeps(t, m - 1), Depth(t)' = m, At(stack'[t], m) = f,
         m \in {Depth(t), Depth(t) + 1},
         NEW u \in Threads, NEW p \in Nat
  PROVE  /\ DispatchAt(u, p)' <=> IF u = t /\ p = m THEN f.op = "dispatch" ELSE DispatchAt(u, p)
         /\ \A s \in Slots :
              /\ InitialAt(u, p, s)' <=> IF u = t /\ p = m THEN Is(f, "observe", s)
                                                           ELSE InitialAt(u, p, s)
              /\ EndingAt(u, p, s)' <=> IF u = t /\ p = m THEN IsEnding(f, s)
                                                          ELSE EndingAt(u, p, s)
              /\ WaitAt(u, p, s)' <=> IF u = t /\ p = m THEN Is(f, "wait", s)
                                                         ELSE WaitAt(u, p, s)
              /\ EnterAt(u, p, s)' <=> IF u = t /\ p = m THEN Is(f, "enter", s)
                                                         ELSE EnterAt(u, p, s)
              /\ InvokeAt(u, p, s)' <=> IF u = t /\ p = m THEN Is(f, "invoke", s)
                                                          ELSE InvokeAt(u, p, s)
<1>1. m - 1 \in Nat /\ m - 1 <= Depth(t)' /\ Depth(t)' \in Nat /\ m \in 1 .. Depth(t)'
  OBVIOUS
<1>2. CASE u = t /\ p = m
  BY <1>1, <1>2, PlacedFrame
<1>3. CASE u # t \/ p <= m - 1
  BY <1>1, <1>3, WhatIsWhere DEF Old
<1>4. CASE u = t /\ p > m
  <2>1. p > Depth(t)
    BY <1>4 DEF TypeInv, Depth
  <2> QED BY <1>1, <1>4, <2>1, WhatIsWhere, NothingAbove
<1> QED BY <1>2, <1>3, <1>4

(* t returns.                                                                      *)
LEMMA NoFrame ==
  ASSUME TypeInv, NEW t \in Threads, stack[t] # <<>>, stack' = Returned(t),
         NEW u \in Threads, NEW p \in Nat
  PROVE  /\ DispatchAt(u, p)' <=> DispatchAt(u, p) /\ ~(u = t /\ p = Depth(t))
         /\ \A s \in Slots :
              /\ InitialAt(u, p, s)' <=> InitialAt(u, p, s) /\ ~(u = t /\ p = Depth(t))
              /\ EndingAt(u, p, s)' <=> EndingAt(u, p, s) /\ ~(u = t /\ p = Depth(t))
              /\ WaitAt(u, p, s)' <=> WaitAt(u, p, s) /\ ~(u = t /\ p = Depth(t))
              /\ EnterAt(u, p, s)' <=> EnterAt(u, p, s) /\ ~(u = t /\ p = Depth(t))
              /\ InvokeAt(u, p, s)' <=> InvokeAt(u, p, s) /\ ~(u = t /\ p = Depth(t))
<1>1. Keeps(t, Depth(t) - 1) /\ Depth(t)' = Depth(t) - 1 /\ Depth(t) \in Nat \ {0}
  BY ReturnedStack, TopFrame
<1>2. Depth(t) - 1 \in Nat /\ Depth(t)' \in Nat /\ Depth(t) - 1 <= Depth(t)'
  BY <1>1
<1>3. CASE u # t \/ p <= Depth(t) - 1
  <2>1. ~(u = t /\ p = Depth(t))
    BY <1>1, <1>3
  <2> QED BY <1>1, <1>2, <1>3, <2>1, WhatIsWhere DEF Old
<1>4. CASE u = t /\ p = Depth(t)
  BY <1>1, <1>2, <1>4, WhatIsWhere
<1>5. CASE u = t /\ p > Depth(t)
  <2>1. p > Depth(t)'
    BY <1>1, <1>5
  <2> QED BY <1>1, <1>2, <1>5, <2>1, WhatIsWhere, NothingAbove
<1> QED BY <1>1, <1>3, <1>4, <1>5

(* t is put at place m with f, and calls g from there.                             *)
LEMMA TwoFrames ==
  ASSUME TypeInv, NEW t \in Threads, NEW f, NEW g, NEW m \in Nat \ {0},
         Keeps(t, m - 1), Depth(t)' = m + 1,
         At(stack'[t], m) = f, At(stack'[t], m + 1) = g,
         m \in {Depth(t), Depth(t) + 1},
         NEW u \in Threads, NEW p \in Nat
  PROVE  /\ DispatchAt(u, p)' <=> IF u = t /\ p = m THEN f.op = "dispatch"
                                  ELSE IF u = t /\ p = m + 1 THEN g.op = "dispatch"
                                  ELSE DispatchAt(u, p)
         /\ \A s \in Slots :
              /\ InitialAt(u, p, s)' <=> IF u = t /\ p = m THEN Is(f, "observe", s)
                                         ELSE IF u = t /\ p = m + 1 THEN Is(g, "observe", s)
                                         ELSE InitialAt(u, p, s)
              /\ EndingAt(u, p, s)' <=> IF u = t /\ p = m THEN IsEnding(f, s)
                                        ELSE IF u = t /\ p = m + 1 THEN IsEnding(g, s)
                                        ELSE EndingAt(u, p, s)
              /\ WaitAt(u, p, s)' <=> IF u = t /\ p = m THEN Is(f, "wait", s)
                                       ELSE IF u = t /\ p = m + 1 THEN Is(g, "wait", s)
                                       ELSE WaitAt(u, p, s)
              /\ EnterAt(u, p, s)' <=> IF u = t /\ p = m THEN Is(f, "enter", s)
                                       ELSE IF u = t /\ p = m + 1 THEN Is(g, "enter", s)
                                       ELSE EnterAt(u, p, s)
              /\ InvokeAt(u, p, s)' <=> IF u = t /\ p = m THEN Is(f, "invoke", s)
                                        ELSE IF u = t /\ p = m + 1 THEN Is(g, "invoke", s)
                                        ELSE InvokeAt(u, p, s)
<1>1. /\ m - 1 \in Nat /\ m - 1 <= Depth(t)' /\ Depth(t)' \in Nat
      /\ m \in 1 .. Depth(t)' /\ m + 1 \in 1 .. Depth(t)' /\ m + 1 \in Nat /\ m + 1 # m
  OBVIOUS
<1>2. CASE u = t /\ p = m
  BY <1>1, <1>2, PlacedFrame
<1>3. CASE u = t /\ p = m + 1
  BY <1>1, <1>3, PlacedFrame
<1>4. CASE u # t \/ p <= m - 1
  <2>1. ~(u = t /\ p = m) /\ ~(u = t /\ p = m + 1)
    BY <1>4
  <2> QED BY <1>1, <1>4, <2>1, WhatIsWhere DEF Old
<1>5. CASE u = t /\ p > m + 1
  <2>1. p > Depth(t) /\ p > Depth(t)' /\ p # m /\ p # m + 1
    BY <1>5 DEF TypeInv, Depth
  <2> QED BY <1>1, <1>5, <2>1, WhatIsWhere, NothingAbove
<1> QED BY <1>2, <1>3, <1>4, <1>5

(* The same, for each way a function of the module changes the stack.              *)
New(t, u, p, n) == u = t /\ p = n

LEMMA AfterCall ==
  ASSUME TypeInv, NEW t \in Threads, NEW f \in Loaded, stack' = Called(t, f)
  PROVE  \A u \in Threads, p \in Nat :
           /\ DispatchAt(u, p)' <=>
                (DispatchAt(u, p)
                 \/ (New(t, u, p, Depth(t) + 1) /\ f.op = "dispatch"))
           /\ \A s \in Slots :
                /\ InitialAt(u, p, s)' <=>
                     (InitialAt(u, p, s)
                      \/ (New(t, u, p, Depth(t) + 1) /\ Is(f, "observe", s)))
                /\ EndingAt(u, p, s)' <=>
                     (EndingAt(u, p, s)
                      \/ (New(t, u, p, Depth(t) + 1) /\ IsEnding(f, s)))
                /\ WaitAt(u, p, s)' <=>
                     (WaitAt(u, p, s)
                      \/ (New(t, u, p, Depth(t) + 1) /\ Is(f, "wait", s)))
                /\ EnterAt(u, p, s)' <=>
                     (EnterAt(u, p, s)
                      \/ (New(t, u, p, Depth(t) + 1) /\ Is(f, "enter", s)))
                /\ InvokeAt(u, p, s)' <=>
                     (InvokeAt(u, p, s)
                      \/ (New(t, u, p, Depth(t) + 1) /\ Is(f, "invoke", s)))
<1> TAKE u \in Threads, p \in Nat
<1>1. /\ Keeps(t, Depth(t)) /\ Depth(t)' = Depth(t) + 1 /\ At(stack'[t], Depth(t) + 1) = f
      /\ Depth(t) \in Nat
  BY CalledStack DEF TypeInv, Depth
<1>2. Depth(t) + 1 \in Nat \ {0} /\ (Depth(t) + 1) - 1 = Depth(t)
  BY <1>1
<1>3. New(t, u, p, Depth(t) + 1) =>
        /\ ~DispatchAt(u, p)
        /\ \A s \in Slots : /\ ~InitialAt(u, p, s) /\ ~EndingAt(u, p, s)
                            /\ ~WaitAt(u, p, s)
                            /\ ~EnterAt(u, p, s) /\ ~InvokeAt(u, p, s)
  BY <1>1, NothingAbove DEF New
<1> QED BY <1>1, <1>2, <1>3, OneFrame DEF New

LEMMA AfterReplacing ==
  ASSUME TypeInv, NEW t \in Threads, NEW f \in Loaded, stack[t] # <<>>, stack' = Became(t, f)
  PROVE  \A u \in Threads, p \in Nat :
           /\ DispatchAt(u, p)' <=>
                     ((DispatchAt(u, p) /\ ~New(t, u, p, Depth(t)))
                      \/ (New(t, u, p, Depth(t)) /\ f.op = "dispatch"))
           /\ \A s \in Slots :
                /\ InitialAt(u, p, s)' <=>
                     ((InitialAt(u, p, s) /\ ~New(t, u, p, Depth(t)))
                      \/ (New(t, u, p, Depth(t)) /\ Is(f, "observe", s)))
                /\ EndingAt(u, p, s)' <=>
                     ((EndingAt(u, p, s) /\ ~New(t, u, p, Depth(t)))
                      \/ (New(t, u, p, Depth(t)) /\ IsEnding(f, s)))
                /\ WaitAt(u, p, s)' <=>
                     ((WaitAt(u, p, s) /\ ~New(t, u, p, Depth(t)))
                      \/ (New(t, u, p, Depth(t)) /\ Is(f, "wait", s)))
                /\ EnterAt(u, p, s)' <=>
                     ((EnterAt(u, p, s) /\ ~New(t, u, p, Depth(t)))
                      \/ (New(t, u, p, Depth(t)) /\ Is(f, "enter", s)))
                /\ InvokeAt(u, p, s)' <=>
                     ((InvokeAt(u, p, s) /\ ~New(t, u, p, Depth(t)))
                      \/ (New(t, u, p, Depth(t)) /\ Is(f, "invoke", s)))
<1> TAKE u \in Threads, p \in Nat
<1>1. /\ Keeps(t, Depth(t) - 1) /\ Depth(t)' = Depth(t) /\ At(stack'[t], Depth(t)) = f
      /\ Depth(t) \in Nat \ {0}
  BY BecameStack, TopFrame
<1> QED BY <1>1, OneFrame DEF New

LEMMA AfterReturn ==
  ASSUME TypeInv, NEW t \in Threads, stack[t] # <<>>, stack' = Returned(t)
  PROVE  \A u \in Threads, p \in Nat :
           /\ DispatchAt(u, p)' <=> (DispatchAt(u, p) /\ ~New(t, u, p, Depth(t)))
           /\ \A s \in Slots :
                /\ InitialAt(u, p, s)' <=> (InitialAt(u, p, s) /\ ~New(t, u, p, Depth(t)))
                /\ EndingAt(u, p, s)' <=> (EndingAt(u, p, s) /\ ~New(t, u, p, Depth(t)))
                /\ WaitAt(u, p, s)' <=> (WaitAt(u, p, s) /\ ~New(t, u, p, Depth(t)))
                /\ EnterAt(u, p, s)' <=> (EnterAt(u, p, s) /\ ~New(t, u, p, Depth(t)))
                /\ InvokeAt(u, p, s)' <=> (InvokeAt(u, p, s) /\ ~New(t, u, p, Depth(t)))
<1> TAKE u \in Threads, p \in Nat
<1> QED BY NoFrame DEF New

LEMMA AfterTwoCalls ==
  ASSUME TypeInv, NEW t \in Threads, NEW f \in Loaded, NEW g \in Loaded,
         stack' = [stack EXCEPT ![t] = <<g, f>> \o @]
  PROVE  \A u \in Threads, p \in Nat :
           /\ DispatchAt(u, p)' <=>
                     (DispatchAt(u, p)
                      \/ (New(t, u, p, Depth(t) + 1) /\ f.op = "dispatch")
                      \/ (New(t, u, p, Depth(t) + 2) /\ g.op = "dispatch"))
           /\ \A s \in Slots :
                /\ InitialAt(u, p, s)' <=>
                     (InitialAt(u, p, s)
                      \/ (New(t, u, p, Depth(t) + 1) /\ Is(f, "observe", s))
                      \/ (New(t, u, p, Depth(t) + 2) /\ Is(g, "observe", s)))
                /\ EndingAt(u, p, s)' <=>
                     (EndingAt(u, p, s)
                      \/ (New(t, u, p, Depth(t) + 1) /\ IsEnding(f, s))
                      \/ (New(t, u, p, Depth(t) + 2) /\ IsEnding(g, s)))
                /\ WaitAt(u, p, s)' <=>
                     (WaitAt(u, p, s)
                      \/ (New(t, u, p, Depth(t) + 1) /\ Is(f, "wait", s))
                      \/ (New(t, u, p, Depth(t) + 2) /\ Is(g, "wait", s)))
                /\ EnterAt(u, p, s)' <=>
                     (EnterAt(u, p, s)
                      \/ (New(t, u, p, Depth(t) + 1) /\ Is(f, "enter", s))
                      \/ (New(t, u, p, Depth(t) + 2) /\ Is(g, "enter", s)))
                /\ InvokeAt(u, p, s)' <=>
                     (InvokeAt(u, p, s)
                      \/ (New(t, u, p, Depth(t) + 1) /\ Is(f, "invoke", s))
                      \/ (New(t, u, p, Depth(t) + 2) /\ Is(g, "invoke", s)))
<1> TAKE u \in Threads, p \in Nat
<1>0. Depth(t) \in Nat
  BY DEF TypeInv, Depth
<1>1. /\ Keeps(t, Depth(t)) /\ Depth(t)' = Depth(t) + 2
      /\ At(stack'[t], Depth(t) + 1) = f /\ At(stack'[t], Depth(t) + 2) = g
      /\ Depth(t) \in Nat
  BY <1>0, CalledTwo
<1>2. /\ Depth(t) + 1 \in Nat \ {0} /\ (Depth(t) + 1) - 1 = Depth(t)
      /\ (Depth(t) + 1) + 1 = Depth(t) + 2 /\ Depth(t) + 1 # Depth(t) + 2
  BY <1>1
<1>3. New(t, u, p, Depth(t) + 1) \/ New(t, u, p, Depth(t) + 2) =>
        /\ ~DispatchAt(u, p)
        /\ \A s \in Slots : /\ ~InitialAt(u, p, s) /\ ~EndingAt(u, p, s)
                            /\ ~WaitAt(u, p, s)
                            /\ ~EnterAt(u, p, s) /\ ~InvokeAt(u, p, s)
  BY <1>1, NothingAbove DEF New
<1>4. CASE New(t, u, p, Depth(t) + 1)
  BY <1>1, <1>2, <1>3, <1>4, TwoFrames DEF New
<1>5. CASE New(t, u, p, Depth(t) + 2)
  <2>0. PICK m \in Nat \ {0} : m = Depth(t) + 1
    BY <1>2
  <2>1. /\ u = t /\ p = m + 1 /\ p # m /\ m \in Nat \ {0}
        /\ Keeps(t, m - 1) /\ Depth(t)' = m + 1
        /\ At(stack'[t], m) = f /\ At(stack'[t], m + 1) = g
        /\ m \in {Depth(t), Depth(t) + 1} /\ ~New(t, u, p, m)
    BY <1>1, <1>2, <1>5, <2>0 DEF New
  <2>2. DispatchAt(u, p)' <=> g.op = "dispatch"
    BY <2>1, TwoFrames
  <2>3. \A s \in Slots : InitialAt(u, p, s)' <=> Is(g, "observe", s)
    BY <2>1, TwoFrames
  <2>4. \A s \in Slots : EndingAt(u, p, s)' <=> IsEnding(g, s)
    BY <2>1, TwoFrames
  <2>5. \A s \in Slots : WaitAt(u, p, s)' <=> Is(g, "wait", s)
    BY <2>1, TwoFrames
  <2>6. \A s \in Slots : EnterAt(u, p, s)' <=> Is(g, "enter", s)
    BY <2>1, TwoFrames
  <2>7. \A s \in Slots : InvokeAt(u, p, s)' <=> Is(g, "invoke", s)
    BY <2>1, TwoFrames, SMTT(30)
  <2> QED BY <1>3, <1>5, <2>0, <2>1, <2>2, <2>3, <2>4, <2>5, <2>6, <2>7 DEF New
<1>6. CASE ~New(t, u, p, Depth(t) + 1) /\ ~New(t, u, p, Depth(t) + 2)
  BY <1>1, <1>2, <1>6, TwoFrames DEF New
<1> QED BY <1>4, <1>5, <1>6

LEMMA AfterReplacingAndCall ==
  ASSUME TypeInv, NEW t \in Threads, NEW f \in Loaded, NEW g \in Loaded, stack[t] # <<>>,
         stack' = [stack EXCEPT ![t] = <<g, f>> \o Tail(@)]
  PROVE  \A u \in Threads, p \in Nat :
           /\ DispatchAt(u, p)' <=>
                     ((DispatchAt(u, p) /\ ~New(t, u, p, Depth(t)))
                      \/ (New(t, u, p, Depth(t)) /\ f.op = "dispatch")
                      \/ (New(t, u, p, Depth(t) + 1) /\ g.op = "dispatch"))
           /\ \A s \in Slots :
                /\ InitialAt(u, p, s)' <=>
                     ((InitialAt(u, p, s) /\ ~New(t, u, p, Depth(t)))
                      \/ (New(t, u, p, Depth(t)) /\ Is(f, "observe", s))
                      \/ (New(t, u, p, Depth(t) + 1) /\ Is(g, "observe", s)))
                /\ EndingAt(u, p, s)' <=>
                     ((EndingAt(u, p, s) /\ ~New(t, u, p, Depth(t)))
                      \/ (New(t, u, p, Depth(t)) /\ IsEnding(f, s))
                      \/ (New(t, u, p, Depth(t) + 1) /\ IsEnding(g, s)))
                /\ WaitAt(u, p, s)' <=>
                     ((WaitAt(u, p, s) /\ ~New(t, u, p, Depth(t)))
                      \/ (New(t, u, p, Depth(t)) /\ Is(f, "wait", s))
                      \/ (New(t, u, p, Depth(t) + 1) /\ Is(g, "wait", s)))
                /\ EnterAt(u, p, s)' <=>
                     ((EnterAt(u, p, s) /\ ~New(t, u, p, Depth(t)))
                      \/ (New(t, u, p, Depth(t)) /\ Is(f, "enter", s))
                      \/ (New(t, u, p, Depth(t) + 1) /\ Is(g, "enter", s)))
                /\ InvokeAt(u, p, s)' <=>
                     ((InvokeAt(u, p, s) /\ ~New(t, u, p, Depth(t)))
                      \/ (New(t, u, p, Depth(t)) /\ Is(f, "invoke", s))
                      \/ (New(t, u, p, Depth(t) + 1) /\ Is(g, "invoke", s)))
<1> TAKE u \in Threads, p \in Nat
<1>1. /\ Keeps(t, Depth(t) - 1) /\ Depth(t)' = Depth(t) + 1
      /\ At(stack'[t], Depth(t)) = f /\ At(stack'[t], Depth(t) + 1) = g
      /\ Depth(t) \in Nat \ {0}
  BY BecameTwo, TopFrame
<1>2. Depth(t) # Depth(t) + 1
  BY <1>1
<1>3. New(t, u, p, Depth(t) + 1) =>
        /\ ~DispatchAt(u, p)
        /\ \A s \in Slots : /\ ~InitialAt(u, p, s) /\ ~EndingAt(u, p, s)
                            /\ ~WaitAt(u, p, s)
                            /\ ~EnterAt(u, p, s) /\ ~InvokeAt(u, p, s)
  BY <1>1, NothingAbove DEF New
<1>4. CASE New(t, u, p, Depth(t))
  BY <1>1, <1>2, <1>4, TwoFrames DEF New
<1>5. CASE New(t, u, p, Depth(t) + 1)
  BY <1>1, <1>2, <1>3, <1>5, TwoFrames DEF New
<1>6. CASE ~New(t, u, p, Depth(t)) /\ ~New(t, u, p, Depth(t) + 1)
  BY <1>1, <1>6, TwoFrames DEF New
<1> QED BY <1>4, <1>5, <1>6

LEMMA AfterNothing ==
  ASSUME stack' = stack
  PROVE  \A u \in Threads, p \in Nat :
          /\ DispatchAt(u, p)' <=> DispatchAt(u, p)
          /\ \A s \in Slots :
               /\ InitialAt(u, p, s)' <=> InitialAt(u, p, s)
               /\ EndingAt(u, p, s)' <=> EndingAt(u, p, s)
               /\ WaitAt(u, p, s)' <=> WaitAt(u, p, s)
               /\ EnterAt(u, p, s)' <=> EnterAt(u, p, s)
               /\ InvokeAt(u, p, s)' <=> InvokeAt(u, p, s)
BY DEF DispatchAt, InitialAt, EndingAt, WaitAt, EnterAt, InvokeAt, Depth, At

(***********************************************************************************)
(* Every step keeps the invariant.                                                 *)
(***********************************************************************************)
LEMMA FenceInit == Init => FenceInv
<1> SUFFICES ASSUME Init PROVE FenceInv
  OBVIOUS
<1>1. \A u \in Threads, p \in Nat :
        ~DispatchAt(u, p) /\ \A s \in Slots : /\ ~InitialAt(u, p, s) /\ ~EndingAt(u, p, s)
                                              /\ ~WaitAt(u, p, s)
                                              /\ ~CallAt(u, p, s) /\ ~InvokeAt(u, p, s)
  <2> TAKE u \in Threads, p \in Nat
  <2>1. Depth(u) = 0 /\ p \notin 1 .. Depth(u)
    BY DEF Init, Depth
  <2> QED BY <2>1 DEF DispatchAt, InitialAt, EndingAt, CallAt, WaitAt, EnterAt, InvokeAt
<1>2. Lifecycle
  BY DEF Init, Lifecycle
<1> QED BY <1>1, <1>2 DEF FenceInv, Dispatcher, Initializer, Resetter, Waiter, Invoker, Named,
                                      Fence

LEMMA FenceReset ==
  ASSUME TypeInv, FenceInv, NEW t \in Threads, NEW s0 \in Slots, Reset(t, s0)
  PROVE  FenceInv'
<1>1. /\ token[s0] = "held" /\ token' = [token EXCEPT ![s0] = "resetting"]
      /\ stack' = Called(t, Resetting(s0))
      /\ resetter' = [resetter EXCEPT ![s0] = t]
      /\ UNCHANGED <<dispatching, phase, invoking>>
  BY DEF Reset, slot
<1>2. Resetting(s0) \in Loaded
  BY FrameTypes
<1>3. \A u \in Threads, p \in Nat :
        /\ DispatchAt(u, p)' <=> DispatchAt(u, p)
        /\ \A s \in Slots :
             /\ InitialAt(u, p, s)' <=> InitialAt(u, p, s)
             /\ EndingAt(u, p, s)' <=>
                  (EndingAt(u, p, s)
                   \/ (New(t, u, p, Depth(t) + 1) /\ s = s0))
             /\ WaitAt(u, p, s)' <=> WaitAt(u, p, s)
             /\ EnterAt(u, p, s)' <=> EnterAt(u, p, s)
             /\ InvokeAt(u, p, s)' <=> InvokeAt(u, p, s)
  BY <1>1, <1>2, AfterCall DEF Resetting, Is, IsEnding
<1>4. Dispatcher'
  BY <1>1, <1>3 DEF FenceInv, Dispatcher
<1>5. Initializer'
  BY <1>1, <1>3 DEF FenceInv, Initializer
<1>6. Resetter'
  BY <1>1, <1>3 DEF FenceInv, Resetter, New, TypeInv, TypeOK
<1>11. Waiter'
  BY <1>1, <1>3 DEF FenceInv, Waiter, TypeInv, TypeOK
<1>7. Invoker'
  BY <1>1, <1>3 DEF FenceInv, Invoker, CallAt
<1>8. Named'
  BY <1>1, <1>3 DEF FenceInv, Named
<1>9. Lifecycle'
  BY <1>1 DEF FenceInv, Lifecycle, TypeInv, TypeOK
<1>10. Fence'
  BY <1>1, <1>3 DEF FenceInv, Fence, TypeInv, TypeOK
<1> QED BY <1>4, <1>5, <1>6, <1>11, <1>7, <1>8, <1>9, <1>10 DEF FenceInv

LEMMA FencePublish ==
  ASSUME TypeInv, FenceInv, NEW t \in Threads, Publish(t)
  PROVE  FenceInv'
<1>1. /\ dispatching' = TRUE
      /\ UNCHANGED <<phase, token, invoking, resetter>>
  BY DEF Publish, slot
<1>2. Dispatching([change |-> NoChange, callbacks |-> {}]) \in Loaded
  BY FrameTypes DEF Dispatching
<1>3. \A u \in Threads, p \in Nat :
        /\ DispatchAt(u, p)' <=>
             (DispatchAt(u, p)
              \/ (New(t, u, p, Depth(t) + 1) /\ ~dispatching))
        /\ \A s \in Slots :
             /\ InitialAt(u, p, s)' <=> InitialAt(u, p, s)
             /\ EndingAt(u, p, s)' <=> EndingAt(u, p, s)
             /\ WaitAt(u, p, s)' <=> WaitAt(u, p, s)
             /\ EnterAt(u, p, s)' <=> EnterAt(u, p, s)
             /\ InvokeAt(u, p, s)' <=> InvokeAt(u, p, s)
  <2>1. CASE dispatching
    <3>1. stack' = stack
      BY <2>1 DEF Publish, BecomesDispatcher
    <3> QED BY <2>1, <3>1, AfterNothing
  <2>2. CASE ~dispatching
    <3>1. stack' = Called(t, Dispatching([change |-> NoChange, callbacks |-> {}]))
      BY <2>2 DEF Publish, BecomesDispatcher
    <3> QED BY <1>2, <2>2, <3>1, AfterCall DEF Dispatching, Is, IsEnding
  <2> QED BY <2>1, <2>2
<1>4. Dispatcher'
  BY <1>1, <1>3 DEF FenceInv, Dispatcher, New
<1>5. Initializer'
  BY <1>1, <1>3 DEF FenceInv, Initializer
<1>6. Resetter'
  BY <1>1, <1>3 DEF FenceInv, Resetter
<1>11. Waiter'
  BY <1>1, <1>3 DEF FenceInv, Waiter, TypeInv, TypeOK
<1>7. Invoker'
  BY <1>1, <1>3 DEF FenceInv, Invoker, CallAt
<1>8. Named' /\ Lifecycle' /\ Fence'
  BY <1>1, <1>3 DEF FenceInv, Named, Lifecycle, Fence
<1> QED BY <1>4, <1>5, <1>6, <1>11, <1>7, <1>8 DEF FenceInv

(* Registration: nobody knows the slot yet.                                        *)
LEMMA FenceOnChange ==
  ASSUME TypeInv, FenceInv, NEW t \in Threads, NEW s0 \in Slots, OnChange(t, s0)
  PROVE  FenceInv'
<1>1. /\ phase[s0] = "unused" /\ phase' = [phase EXCEPT ![s0] = "active"]
      /\ token' = [token EXCEPT ![s0] = "held"]
      /\ stack' = stack
      /\ UNCHANGED <<dispatching, invoking, resetter>>
  BY DEF OnChange, Register
<1>3. \A u \in Threads, p \in Nat :
        /\ DispatchAt(u, p)' <=> DispatchAt(u, p)
        /\ \A s \in Slots :
             /\ InitialAt(u, p, s)' <=> InitialAt(u, p, s)
             /\ EndingAt(u, p, s)' <=> EndingAt(u, p, s)
             /\ WaitAt(u, p, s)' <=> WaitAt(u, p, s)
             /\ EnterAt(u, p, s)' <=> EnterAt(u, p, s)
             /\ InvokeAt(u, p, s)' <=> InvokeAt(u, p, s)
  BY <1>1, AfterNothing
<1>4. Dispatcher'
  BY <1>1, <1>3 DEF FenceInv, Dispatcher
<1>5. Initializer'
  BY <1>1, <1>3 DEF FenceInv, Initializer, TypeInv, TypeOK
<1>6. Resetter'
  BY <1>1, <1>3 DEF FenceInv, Resetter, Lifecycle, TypeInv, TypeOK
<1>11. Waiter'
  BY <1>1, <1>3 DEF FenceInv, Waiter, TypeInv, TypeOK
<1>7. Invoker'
  BY <1>1, <1>3 DEF FenceInv, Invoker, CallAt, TypeInv, TypeOK
<1>8. Named'
  BY <1>1, <1>3 DEF FenceInv, Named
<1>9. Lifecycle'
  BY <1>1 DEF FenceInv, Lifecycle, TypeInv, TypeOK
<1>10. Fence'
  BY <1>1, <1>3 DEF FenceInv, Fence, TypeInv, TypeOK
<1> QED BY <1>4, <1>5, <1>6, <1>11, <1>7, <1>8, <1>9, <1>10 DEF FenceInv

LEMMA FenceObserve ==
  ASSUME TypeInv, FenceInv, NEW t \in Threads, NEW s0 \in Slots, Observe(t, s0)
  PROVE  FenceInv'
<1> DEFINE f == Observing(s0)
           g == Entering(s0, [previous |-> NoSnapshot, version |-> published])
<1>1. /\ phase[s0] = "unused" /\ phase' = [phase EXCEPT ![s0] = "initializing"]
      /\ stack' = [stack EXCEPT ![t] = <<g, f>> \o @]
      /\ UNCHANGED <<dispatching, invoking, resetter, token>>
  BY DEF Observe, Register, InitialPhase
<1>2. g \in Loaded /\ f \in Loaded
  BY ChangeTypes, FrameTypes DEF TypeInv, TypeOK
<1>3. \A u \in Threads, p \in Nat :
        /\ DispatchAt(u, p)' <=> DispatchAt(u, p)
        /\ \A s \in Slots :
             /\ InitialAt(u, p, s)' <=>
                  (InitialAt(u, p, s)
                   \/ (New(t, u, p, Depth(t) + 1) /\ s = s0))
             /\ EndingAt(u, p, s)' <=> EndingAt(u, p, s)
             /\ WaitAt(u, p, s)' <=> WaitAt(u, p, s)
             /\ EnterAt(u, p, s)' <=>
                  (EnterAt(u, p, s)
                   \/ (New(t, u, p, Depth(t) + 2) /\ s = s0))
             /\ InvokeAt(u, p, s)' <=> InvokeAt(u, p, s)
  <2>1. /\ Is(g, "enter", s0) /\ Is(f, "observe", s0)
        /\ g.op # "dispatch" /\ f.op # "dispatch"
        /\ \A s \in Slots : /\ Is(g, "enter", s) <=> s = s0
                            /\ Is(f, "observe", s) <=> s = s0
                            /\ ~Is(g, "invoke", s) /\ ~Is(g, "observe", s)
                            /\ ~IsEnding(g, s) /\ ~Is(g, "wait", s)
                            /\ ~Is(f, "invoke", s) /\ ~Is(f, "enter", s)
                            /\ ~IsEnding(f, s) /\ ~Is(f, "wait", s)
    BY DEF Entering, Observing, Is, IsEnding
  <2> HIDE DEF f, g
  <2> TAKE u \in Threads, p \in Nat
  <2>2. DispatchAt(u, p)' <=> DispatchAt(u, p)
    BY <1>1, <1>2, <2>1, AfterTwoCalls
  <2>3. \A s \in Slots :
        /\ InitialAt(u, p, s)' <=>
             (InitialAt(u, p, s)
              \/ (New(t, u, p, Depth(t) + 1) /\ Is(f, "observe", s))
                     \/ (New(t, u, p, Depth(t) + 2) /\ Is(g, "observe", s)))
        /\ EndingAt(u, p, s)' <=>
             (EndingAt(u, p, s)
              \/ (New(t, u, p, Depth(t) + 1) /\ IsEnding(f, s))
                     \/ (New(t, u, p, Depth(t) + 2) /\ IsEnding(g, s)))
        /\ WaitAt(u, p, s)' <=>
             (WaitAt(u, p, s)
              \/ (New(t, u, p, Depth(t) + 1) /\ Is(f, "wait", s))
                     \/ (New(t, u, p, Depth(t) + 2) /\ Is(g, "wait", s)))
        /\ EnterAt(u, p, s)' <=>
             (EnterAt(u, p, s)
              \/ (New(t, u, p, Depth(t) + 1) /\ Is(f, "enter", s))
                     \/ (New(t, u, p, Depth(t) + 2) /\ Is(g, "enter", s)))
        /\ InvokeAt(u, p, s)' <=>
             (InvokeAt(u, p, s)
              \/ (New(t, u, p, Depth(t) + 1) /\ Is(f, "invoke", s))
                     \/ (New(t, u, p, Depth(t) + 2) /\ Is(g, "invoke", s)))
    BY <1>1, <1>2, AfterTwoCalls
  <2> QED BY <2>1, <2>2, <2>3
<1>4. Dispatcher'
  BY <1>1, <1>3 DEF FenceInv, Dispatcher
<1>5. Initializer'
  BY <1>1, <1>3 DEF FenceInv, Initializer, New, TypeInv, TypeOK
<1>6. Resetter'
  BY <1>1, <1>3 DEF FenceInv, Resetter
<1>11. Waiter'
  BY <1>1, <1>3 DEF FenceInv, Waiter, TypeInv, TypeOK
<1>7. Invoker'
  <2> SUFFICES ASSUME NEW u \in Threads, NEW p \in Nat, NEW s \in Slots, CallAt(u, p, s)'
               PROVE  /\ p > 1
                      /\ \/ InitialAt(u, p - 1, s)'
                         \/ DispatchAt(u, p - 1)' /\ phase'[s] \in {"active", "inactive"}
    BY DEF Invoker
  <2>1. CASE CallAt(u, p, s)
    <3>1. p > 1 /\ p - 1 \in Nat
      BY <2>1 DEF FenceInv, Invoker
    <3>2. \/ InitialAt(u, p - 1, s)
          \/ DispatchAt(u, p - 1) /\ phase[s] \in {"active", "inactive"}
      BY <2>1 DEF FenceInv, Invoker
    <3> QED BY <1>1, <1>3, <3>1, <3>2 DEF TypeInv, TypeOK
  <2>2. CASE New(t, u, p, Depth(t) + 2) /\ s = s0
    <3>1. Depth(t) \in Nat
      BY DEF TypeInv, Depth
    <3>2. p > 1 /\ p - 1 \in Nat /\ New(t, u, p - 1, Depth(t) + 1)
      BY <2>2, <3>1 DEF New
    <3> QED BY <1>3, <2>2, <3>2
  <2> QED BY <1>3, <2>1, <2>2 DEF CallAt
<1>8. Named'
  BY <1>1, <1>3 DEF FenceInv, Named
<1>9. Lifecycle'
  BY <1>1 DEF FenceInv, Lifecycle, TypeInv, TypeOK
<1>10. Fence'
  BY <1>1, <1>3 DEF FenceInv, Fence
<1> QED BY <1>4, <1>5, <1>6, <1>11, <1>7, <1>8, <1>9, <1>10 DEF FenceInv

(* A call of InvokeCallback is on top, or below what its callback does: what it    *)
(* was made from is never on top.                                                  *)
LEMMA CallerStays ==
  ASSUME TypeInv, FenceInv, NEW t \in Threads, stack[t] # <<>>,
         NEW u \in Threads, NEW p \in Nat, NEW s \in Slots, CallAt(u, p, s)
  PROVE  /\ p > 1 /\ p - 1 \in Nat
         /\ ~New(t, u, p - 1, Depth(t))
         /\ \/ InitialAt(u, p - 1, s)
            \/ DispatchAt(u, p - 1) /\ phase[s] \in {"active", "inactive"}
<1>1. p > 1 /\ p - 1 \in Nat
  BY DEF FenceInv, Invoker
<1>2. Depth(t) \in Nat
  BY TopFrame
<1>3. ASSUME New(t, u, p - 1, Depth(t)) PROVE FALSE
  <2>1. u = t /\ p > Depth(t)
    BY <1>1, <1>2, <1>3 DEF New
  <2> QED BY <2>1, NothingAbove DEF CallAt
<1> QED BY <1>1, <1>3 DEF FenceInv, Invoker

LEMMA FenceTakeNotification ==
  ASSUME TypeInv, FenceInv, NEW t \in Threads, TakeNotification(t)
  PROVE  FenceInv'
<1>1. /\ stack[t] # <<>> /\ Top(t).op = "dispatch"
      /\ UNCHANGED <<phase, token, invoking, resetter>>
  BY DEF TakeNotification, Inside, Top, slot
<1>2. /\ Depth(t) \in Nat \ {0} /\ DispatchAt(t, Depth(t))
      /\ \A s \in Slots : /\ ~InitialAt(t, Depth(t), s) /\ ~EndingAt(t, Depth(t), s)
                          /\ ~WaitAt(t, Depth(t), s)
                          /\ ~EnterAt(t, Depth(t), s) /\ ~InvokeAt(t, Depth(t), s)
  BY <1>1, TopFrame DEF Is, IsEnding
<1>3. \A u \in Threads, p \in Nat :
        /\ DispatchAt(u, p)' <=> (DispatchAt(u, p) /\ dispatching')
        /\ \A s \in Slots :
             /\ InitialAt(u, p, s)' <=> InitialAt(u, p, s)
             /\ EndingAt(u, p, s)' <=> EndingAt(u, p, s)
             /\ WaitAt(u, p, s)' <=> WaitAt(u, p, s)
             /\ EnterAt(u, p, s)' <=> EnterAt(u, p, s)
             /\ InvokeAt(u, p, s)' <=> InvokeAt(u, p, s)
  <2>1. CASE notifications = <<>>
    <3>1. stack' = Returned(t) /\ dispatching' = FALSE
      BY <2>1 DEF TakeNotification, StopsDispatching
    <3>2. \A u \in Threads, p \in Nat : DispatchAt(u, p) => New(t, u, p, Depth(t))
      BY <1>2 DEF FenceInv, Dispatcher, New
    <3> QED BY <1>1, <1>2, <3>1, <3>2, AfterReturn DEF New
  <2>2. CASE notifications # <<>>
    <3> DEFINE f == Dispatching(Head(notifications))
    <3>1. stack' = Became(t, f) /\ dispatching' = dispatching
      BY <2>2 DEF TakeNotification, StopsDispatching
    <3>2. f \in Loaded /\ f.op = "dispatch"
      <4>1. Head(notifications) \in Notification
        BY <2>2 DEF TypeInv, TypeOK
      <4>2. /\ Head(notifications).change \in Change
            /\ Head(notifications).callbacks \in SUBSET Slots
        BY <4>1 DEF Notification
      <4> QED BY <4>2, FrameTypes DEF Dispatching
    <3>3. dispatching' = TRUE
      BY <1>2, <3>1 DEF FenceInv, Dispatcher, TypeInv, TypeOK
    <3> HIDE DEF f
    <3> QED BY <1>1, <1>2, <3>1, <3>2, <3>3, AfterReplacing DEF New, Is, IsEnding
  <2> QED BY <2>1, <2>2
<1>4. Dispatcher'
  BY <1>1, <1>3 DEF FenceInv, Dispatcher
<1>5. Initializer'
  BY <1>1, <1>3 DEF FenceInv, Initializer
<1>6. Resetter'
  BY <1>1, <1>3 DEF FenceInv, Resetter
<1>11. Waiter'
  BY <1>1, <1>3 DEF FenceInv, Waiter
<1>7. Invoker'
  <2> SUFFICES ASSUME NEW u \in Threads, NEW p \in Nat, NEW s \in Slots, CallAt(u, p, s)'
               PROVE  /\ p > 1
                      /\ \/ InitialAt(u, p - 1, s)'
                         \/ DispatchAt(u, p - 1)' /\ phase'[s] \in {"active", "inactive"}
    BY DEF Invoker
  <2>1. CallAt(u, p, s)
    BY <1>3 DEF CallAt
  <2>2. /\ p > 1 /\ p - 1 \in Nat /\ ~New(t, u, p - 1, Depth(t))
        /\ \/ InitialAt(u, p - 1, s)
           \/ DispatchAt(u, p - 1) /\ phase[s] \in {"active", "inactive"}
    BY <1>1, <2>1, CallerStays
  <2>3. DispatchAt(u, p - 1) => DispatchAt(u, p - 1)'
    BY <1>2, <2>2 DEF FenceInv, Dispatcher, New
  <2> QED BY <1>1, <1>3, <2>2, <2>3
<1>8. Named'
  BY <1>1, <1>3 DEF FenceInv, Named
<1>9. Lifecycle'
  BY <1>1 DEF FenceInv, Lifecycle
<1>10. Fence'
  BY <1>1, <1>3 DEF FenceInv, Fence
<1> QED BY <1>4, <1>5, <1>6, <1>11, <1>7, <1>8, <1>9, <1>10 DEF FenceInv

LEMMA FenceLeaveCallback ==
  ASSUME TypeInv, FenceInv, NEW t \in Threads, LeaveCallback(t)
  PROVE  FenceInv'
<1> DEFINE s0 == Top(t).slot
<1>1. /\ stack[t] # <<>> /\ Top(t).op = "invoke"
      /\ stack' = Returned(t)
      /\ invoking' = [invoking EXCEPT ![s0] = NoThread]
      /\ UNCHANGED <<dispatching, phase, token, resetter>>
  BY DEF LeaveCallback, Inside, Top, callbackState
<1>2. /\ Depth(t) \in Nat \ {0} /\ ~DispatchAt(t, Depth(t)) /\ InvokeAt(t, Depth(t), s0)
      /\ s0 \in Slots
      /\ \A s \in Slots : /\ ~InitialAt(t, Depth(t), s) /\ ~EndingAt(t, Depth(t), s)
                          /\ ~WaitAt(t, Depth(t), s) /\ ~EnterAt(t, Depth(t), s)
  BY <1>1, TopFrame, TopIsFrame, FrameFields DEF Is, IsEnding
<1> HIDE DEF s0
<1>3. \A u \in Threads, p \in Nat :
        /\ DispatchAt(u, p)' <=> DispatchAt(u, p)
        /\ \A s \in Slots :
             /\ InitialAt(u, p, s)' <=> InitialAt(u, p, s)
             /\ EndingAt(u, p, s)' <=> EndingAt(u, p, s)
             /\ WaitAt(u, p, s)' <=> WaitAt(u, p, s)
             /\ EnterAt(u, p, s)' <=> EnterAt(u, p, s)
             /\ InvokeAt(u, p, s)' <=> (InvokeAt(u, p, s) /\ ~New(t, u, p, Depth(t)))
  BY <1>1, <1>2, AfterReturn DEF New
<1>12. \A u \in Threads, p \in Nat :
         InvokeAt(u, p, s0) => New(t, u, p, Depth(t))
  BY <1>2, OneCall DEF CallAt, New
<1>4. Dispatcher'
  BY <1>1, <1>3 DEF FenceInv, Dispatcher
<1>5. Initializer'
  BY <1>1, <1>3 DEF FenceInv, Initializer
<1>6. Resetter'
  BY <1>1, <1>3 DEF FenceInv, Resetter
<1>11. Waiter'
  BY <1>1, <1>3 DEF FenceInv, Waiter
<1>7. Invoker'
  <2> SUFFICES ASSUME NEW u \in Threads, NEW p \in Nat, NEW s \in Slots, CallAt(u, p, s)'
               PROVE  /\ p > 1
                      /\ \/ InitialAt(u, p - 1, s)'
                         \/ DispatchAt(u, p - 1)' /\ phase'[s] \in {"active", "inactive"}
    BY DEF Invoker
  <2>1. CallAt(u, p, s)
    BY <1>3 DEF CallAt
  <2> QED BY <1>1, <1>3, <2>1, CallerStays DEF TypeInv, TypeOK
<1>8. Named'
  BY <1>1, <1>3, <1>12 DEF FenceInv, Named, TypeInv, TypeOK
<1>9. Lifecycle'
  BY <1>1 DEF FenceInv, Lifecycle
<1>10. Fence'
  BY <1>1, <1>3 DEF FenceInv, Fence
<1> QED BY <1>4, <1>5, <1>6, <1>11, <1>7, <1>8, <1>9, <1>10 DEF FenceInv

LEMMA FenceFinishReset ==
  ASSUME TypeInv, FenceInv, NEW t \in Threads, FinishReset(t)
  PROVE  FenceInv'
<1> DEFINE s0 == Top(t).slot
<1>1. /\ stack[t] # <<>> /\ Top(t).op = "wait"
      /\ stack' = Returned(t)
      /\ invoking[s0] = NoThread
      /\ token' = [token EXCEPT ![s0] = "gone"]
      /\ UNCHANGED <<dispatching, phase, invoking, resetter>>
  BY DEF FinishReset, Inside, Top, callbackState, slot
<1>2. /\ Depth(t) \in Nat \ {0} /\ ~DispatchAt(t, Depth(t))
      /\ EndingAt(t, Depth(t), s0) /\ WaitAt(t, Depth(t), s0)
      /\ s0 \in Slots
      /\ \A s \in Slots : /\ ~InitialAt(t, Depth(t), s)
                          /\ ~EnterAt(t, Depth(t), s) /\ ~InvokeAt(t, Depth(t), s)
  BY <1>1, TopFrame, TopIsFrame, FrameFields DEF Is, IsEnding
<1> HIDE DEF s0
<1>3. \A u \in Threads, p \in Nat :
        /\ DispatchAt(u, p)' <=> DispatchAt(u, p)
        /\ \A s \in Slots :
             /\ InitialAt(u, p, s)' <=> InitialAt(u, p, s)
             /\ EndingAt(u, p, s)' <=> (EndingAt(u, p, s) /\ ~New(t, u, p, Depth(t)))
             /\ WaitAt(u, p, s)' <=> (WaitAt(u, p, s) /\ ~New(t, u, p, Depth(t)))
             /\ EnterAt(u, p, s)' <=> EnterAt(u, p, s)
             /\ InvokeAt(u, p, s)' <=> InvokeAt(u, p, s)
  BY <1>1, <1>2, AfterReturn DEF New
<1>12. /\ phase[s0] = "inactive"
       /\ \A u \in Threads, p \in Nat : EndingAt(u, p, s0) => New(t, u, p, Depth(t))
       /\ \A u \in Threads, p \in Nat : ~InvokeAt(u, p, s0)
  BY <1>1, <1>2, ThreadAssumption DEF FenceInv, Waiter, Resetter, Named, New
<1>4. Dispatcher'
  BY <1>1, <1>3 DEF FenceInv, Dispatcher
<1>5. Initializer'
  BY <1>1, <1>3 DEF FenceInv, Initializer
<1>6. Resetter'
  BY <1>1, <1>3, <1>12 DEF FenceInv, Resetter, TypeInv, TypeOK
<1>11. Waiter'
  BY <1>1, <1>3 DEF FenceInv, Waiter
<1>7. Invoker'
  <2> SUFFICES ASSUME NEW u \in Threads, NEW p \in Nat, NEW s \in Slots, CallAt(u, p, s)'
               PROVE  /\ p > 1
                      /\ \/ InitialAt(u, p - 1, s)'
                         \/ DispatchAt(u, p - 1)' /\ phase'[s] \in {"active", "inactive"}
    BY DEF Invoker
  <2>1. CallAt(u, p, s)
    BY <1>3 DEF CallAt
  <2> QED BY <1>1, <1>3, <2>1, CallerStays DEF TypeInv, TypeOK
<1>8. Named'
  BY <1>1, <1>3 DEF FenceInv, Named
<1>9. Lifecycle'
  BY <1>1, <1>2, <1>12 DEF FenceInv, Lifecycle, TypeInv, TypeOK
<1>10. Fence'
  BY <1>1, <1>3, <1>12 DEF FenceInv, Fence, TypeInv, TypeOK
<1> QED BY <1>4, <1>5, <1>6, <1>11, <1>7, <1>8, <1>9, <1>10 DEF FenceInv

LEMMA FenceEnterCallback ==
  ASSUME TypeInv, FenceInv, NEW t \in Threads, EnterCallback(t)
  PROVE  FenceInv'
<1> DEFINE s0 == Top(t).slot
           c == Rebased(s0, Top(t).change)
           f == Invoking(s0, c)
<1>1. /\ stack[t] # <<>> /\ Top(t).op = "enter"
      /\ IF MayInvoke(s0)
         THEN stack' = Became(t, f) /\ invoking' = [invoking EXCEPT ![s0] = t]
         ELSE stack' = Returned(t) /\ invoking' = invoking
      /\ UNCHANGED <<dispatching, phase, token, resetter>>
  BY DEF EnterCallback, Inside, Top, callbackState
<1>2. /\ Depth(t) \in Nat \ {0} /\ ~DispatchAt(t, Depth(t)) /\ EnterAt(t, Depth(t), s0)
      /\ s0 \in Slots
      /\ \A s \in Slots : /\ ~InitialAt(t, Depth(t), s) /\ ~EndingAt(t, Depth(t), s)
                          /\ ~WaitAt(t, Depth(t), s) /\ ~InvokeAt(t, Depth(t), s)
                          /\ EnterAt(t, Depth(t), s) => s = s0
  BY <1>1, TopFrame, TopIsFrame, FrameFields DEF Is, IsEnding
<1>12. f \in Loaded /\ f.op = "invoke" /\ f.slot = s0
  <2>1. Top(t).change \in Change
    BY <1>1, TopIsFrame, FrameFields
  <2>2. lastValue[s0] \in {NoSnapshot} \cup Version
    BY <1>2 DEF TypeInv, TypeOK
  <2>3. c \in Change
    BY <2>1, <2>2, ChangeTypes DEF Rebased
  <2> QED BY <1>2, <2>3, FrameTypes DEF Invoking
<1> HIDE DEF s0, c, f
<1>3. \A u \in Threads, p \in Nat :
        /\ DispatchAt(u, p)' <=> DispatchAt(u, p)
        /\ \A s \in Slots :
             /\ InitialAt(u, p, s)' <=> InitialAt(u, p, s)
             /\ EndingAt(u, p, s)' <=> EndingAt(u, p, s)
             /\ WaitAt(u, p, s)' <=> WaitAt(u, p, s)
             /\ EnterAt(u, p, s)' <=> (EnterAt(u, p, s) /\ ~New(t, u, p, Depth(t)))
             /\ InvokeAt(u, p, s)' <=>
                  (InvokeAt(u, p, s)
                   \/ (New(t, u, p, Depth(t)) /\ s = s0 /\ MayInvoke(s0)))
  <2>1. CASE MayInvoke(s0)
    <3>1. stack' = Became(t, f)
      BY <1>1, <2>1
    <3> QED BY <1>1, <1>2, <1>12, <2>1, <3>1, AfterReplacing DEF New, Is, IsEnding
  <2>2. CASE ~MayInvoke(s0)
    <3>1. stack' = Returned(t)
      BY <1>1, <2>2
    <3> QED BY <1>1, <1>2, <2>2, <3>1, AfterReturn DEF New
  <2> QED BY <2>1, <2>2
<1>13. \A u \in Threads, p \in Nat : ~InvokeAt(u, p, s0)
  <2> TAKE u \in Threads, p \in Nat
  <2> QED BY <1>2, OneCall DEF CallAt
<1>4. Dispatcher'
  BY <1>1, <1>3 DEF FenceInv, Dispatcher
<1>5. Initializer'
  BY <1>1, <1>3 DEF FenceInv, Initializer
<1>6. Resetter'
  BY <1>1, <1>3 DEF FenceInv, Resetter
<1>11. Waiter'
  BY <1>1, <1>3 DEF FenceInv, Waiter
<1>7. Invoker'
  <2> SUFFICES ASSUME NEW u \in Threads, NEW p \in Nat, NEW s \in Slots, CallAt(u, p, s)'
               PROVE  /\ p > 1
                      /\ \/ InitialAt(u, p - 1, s)'
                         \/ DispatchAt(u, p - 1)' /\ phase'[s] \in {"active", "inactive"}
    BY DEF Invoker
  <2>1. CallAt(u, p, s)
    BY <1>3, <1>2 DEF CallAt, New
  <2> QED BY <1>1, <1>3, <2>1, CallerStays DEF TypeInv, TypeOK
<1>8. Named'
  <2> SUFFICES ASSUME NEW u \in Threads, NEW p \in Nat, NEW s \in Slots, InvokeAt(u, p, s)'
               PROVE  invoking'[s] = u
    BY DEF Named
  <2>1. CASE InvokeAt(u, p, s)
    <3>1. s # s0 /\ invoking[s] = u
      BY <1>13, <2>1 DEF FenceInv, Named
    <3>2. invoking'[s] = invoking[s]
      BY <1>1, <3>1 DEF TypeInv, TypeOK
    <3> QED BY <3>1, <3>2
  <2>2. CASE u = t /\ s = s0 /\ MayInvoke(s0)
    <3>1. invoking' = [invoking EXCEPT ![s0] = t]
      BY <1>1, <2>2
    <3> QED BY <2>2, <3>1 DEF TypeInv, TypeOK
  <2> QED BY <1>3, <2>1, <2>2 DEF New
<1>9. Lifecycle'
  BY <1>1 DEF FenceInv, Lifecycle
<1>10. Fence'
  BY <1>1, <1>3 DEF FenceInv, Fence, Lifecycle, MayInvoke
<1> QED BY <1>4, <1>5, <1>6, <1>11, <1>7, <1>8, <1>9, <1>10 DEF FenceInv

LEMMA FenceConsiderSlot ==
  ASSUME TypeInv, FenceInv, NEW t \in Threads, ConsiderSlot(t)
  PROVE  FenceInv'
<1>1. /\ stack[t] # <<>> /\ Top(t).op = "dispatch"
      /\ UNCHANGED <<dispatching, phase, invoking, token, resetter>>
  BY DEF ConsiderSlot, Inside, Top, callbackState
<1>14. PICK s0 \in Top(t).todo :
         IF phase[s0] = "active"
         THEN stack' = [stack EXCEPT ![t] = <<Entering(s0, Top(t).change),
                                              [Top(t) EXCEPT !.todo = @ \ {s0}]>> \o Tail(@)]
         ELSE stack' = Became(t, [Top(t) EXCEPT !.todo = @ \ {s0}])
  BY DEF ConsiderSlot
<1> DEFINE c == Top(t).change
           f == [Top(t) EXCEPT !.todo = @ \ {s0}]
           g == Entering(s0, c)
<1>12. /\ s0 \in Slots
       /\ f \in Loaded /\ f.op = "dispatch"
       /\ g \in Loaded /\ g.op = "enter" /\ g.slot = s0
  <2>1. c \in Change /\ s0 \in Slots /\ Top(t).todo \in SUBSET Slots
    BY <1>1, <1>14, TopIsFrame, FrameFields
  <2>2. Top(t) \in [op : {"dispatch"}, change : Change \cup {NoChange}, todo : SUBSET Slots]
    BY <1>1, TopIsFrame DEF Loaded, Frame
  <2>3. f = [op |-> "dispatch", change |-> c, todo |-> Top(t).todo \ {s0}]
    <3>1. Top(t).op = "dispatch"
      BY <1>1
    <3> QED BY <2>2, <3>1
  <2> QED BY <2>1, <2>3, FrameTypes DEF Entering
<1>15. IF phase[s0] = "active"
       THEN stack' = [stack EXCEPT ![t] = <<g, f>> \o Tail(@)]
       ELSE stack' = Became(t, f)
  BY <1>14
<1> HIDE DEF f, g, c
<1>2. /\ Depth(t) \in Nat \ {0} /\ DispatchAt(t, Depth(t))
      /\ \A s \in Slots : /\ ~InitialAt(t, Depth(t), s) /\ ~EndingAt(t, Depth(t), s)
                          /\ ~WaitAt(t, Depth(t), s)
                          /\ ~EnterAt(t, Depth(t), s) /\ ~InvokeAt(t, Depth(t), s)
  BY <1>1, TopFrame DEF Is, IsEnding
<1>16. /\ \A s \in Slots : /\ Is(g, "enter", s) <=> s = s0
                           /\ ~Is(g, "observe", s) /\ ~IsEnding(g, s)
                           /\ ~Is(g, "wait", s) /\ ~Is(g, "invoke", s)
                           /\ ~Is(f, "observe", s) /\ ~IsEnding(f, s)
                           /\ ~Is(f, "wait", s) /\ ~Is(f, "enter", s) /\ ~Is(f, "invoke", s)
       /\ g.op # "dispatch"
  BY <1>12 DEF Is, IsEnding
<1>3. \A u \in Threads, p \in Nat :
        /\ DispatchAt(u, p)' <=> DispatchAt(u, p)
        /\ \A s \in Slots :
             /\ InitialAt(u, p, s)' <=> InitialAt(u, p, s)
             /\ EndingAt(u, p, s)' <=> EndingAt(u, p, s)
             /\ WaitAt(u, p, s)' <=> WaitAt(u, p, s)
             /\ EnterAt(u, p, s)' <=>
                  (EnterAt(u, p, s)
                   \/ (New(t, u, p, Depth(t) + 1) /\ s = s0 /\ phase[s0] = "active"))
             /\ InvokeAt(u, p, s)' <=> InvokeAt(u, p, s)
  <2>1. CASE phase[s0] = "active"
    <3>1. stack' = [stack EXCEPT ![t] = <<g, f>> \o Tail(@)]
      BY <1>15, <2>1
    <3> TAKE u \in Threads, p \in Nat
    <3>2. DispatchAt(u, p)' <=> DispatchAt(u, p)
      <4>1. DispatchAt(u, p)' <=> ((DispatchAt(u, p) /\ ~New(t, u, p, Depth(t)))
                                   \/ (New(t, u, p, Depth(t)) /\ f.op = "dispatch")
                                   \/ (New(t, u, p, Depth(t) + 1) /\ g.op = "dispatch"))
        BY <1>1, <1>12, <3>1, AfterReplacingAndCall
      <4> QED BY <1>2, <1>12, <1>16, <4>1 DEF New
    <3>3. \A s \in Slots :
    InitialAt(u, p, s)' <=>
         ((InitialAt(u, p, s) /\ ~New(t, u, p, Depth(t)))
          \/ (New(t, u, p, Depth(t)) /\ Is(f, "observe", s))
                         \/ (New(t, u, p, Depth(t) + 1) /\ Is(g, "observe", s)))
      BY <1>1, <1>12, <3>1, AfterReplacingAndCall
    <3>4. \A s \in Slots :
    EndingAt(u, p, s)' <=>
         ((EndingAt(u, p, s) /\ ~New(t, u, p, Depth(t)))
          \/ (New(t, u, p, Depth(t)) /\ IsEnding(f, s))
                         \/ (New(t, u, p, Depth(t) + 1) /\ IsEnding(g, s)))
      BY <1>1, <1>12, <3>1, AfterReplacingAndCall
    <3>5. \A s \in Slots :
    WaitAt(u, p, s)' <=>
         ((WaitAt(u, p, s) /\ ~New(t, u, p, Depth(t)))
          \/ (New(t, u, p, Depth(t)) /\ Is(f, "wait", s))
                         \/ (New(t, u, p, Depth(t) + 1) /\ Is(g, "wait", s)))
      BY <1>1, <1>12, <3>1, AfterReplacingAndCall
    <3>6. \A s \in Slots :
    EnterAt(u, p, s)' <=>
         ((EnterAt(u, p, s) /\ ~New(t, u, p, Depth(t)))
          \/ (New(t, u, p, Depth(t)) /\ Is(f, "enter", s))
                         \/ (New(t, u, p, Depth(t) + 1) /\ Is(g, "enter", s)))
      BY <1>1, <1>12, <3>1, AfterReplacingAndCall
    <3>7. \A s \in Slots :
    InvokeAt(u, p, s)' <=>
         ((InvokeAt(u, p, s) /\ ~New(t, u, p, Depth(t)))
          \/ (New(t, u, p, Depth(t)) /\ Is(f, "invoke", s))
                         \/ (New(t, u, p, Depth(t) + 1) /\ Is(g, "invoke", s)))
      BY <1>1, <1>12, <3>1, AfterReplacingAndCall
    <3>8. ASSUME NEW s \in Slots
          PROVE  /\ InitialAt(u, p, s)' <=> InitialAt(u, p, s)
                 /\ EndingAt(u, p, s)' <=> EndingAt(u, p, s)
                 /\ WaitAt(u, p, s)' <=> WaitAt(u, p, s)
      BY <1>2, <1>16, <3>3, <3>4, <3>5 DEF New
    <3>9. ASSUME NEW s \in Slots
          PROVE  /\ EnterAt(u, p, s)' <=>
                      (EnterAt(u, p, s)
                       \/ (New(t, u, p, Depth(t) + 1) /\ s = s0 /\ phase[s0] = "active"))
                 /\ InvokeAt(u, p, s)' <=> InvokeAt(u, p, s)
      BY <1>2, <1>16, <2>1, <3>6, <3>7 DEF New
    <3> QED BY <3>2, <3>8, <3>9
  <2>2. CASE phase[s0] # "active"
    <3>1. stack' = Became(t, f)
      BY <1>15, <2>2
    <3> QED BY <1>1, <1>2, <1>12, <1>16, <2>2, <3>1, AfterReplacing DEF New
  <2> QED BY <2>1, <2>2
<1>4. Dispatcher'
  BY <1>1, <1>3 DEF FenceInv, Dispatcher
<1>5. Initializer'
  BY <1>1, <1>3 DEF FenceInv, Initializer
<1>6. Resetter'
  BY <1>1, <1>3 DEF FenceInv, Resetter
<1>11. Waiter'
  BY <1>1, <1>3 DEF FenceInv, Waiter
<1>7. Invoker'
  <2> SUFFICES ASSUME NEW u \in Threads, NEW p \in Nat, NEW s \in Slots, CallAt(u, p, s)'
               PROVE  /\ p > 1
                      /\ \/ InitialAt(u, p - 1, s)'
                         \/ DispatchAt(u, p - 1)' /\ phase'[s] \in {"active", "inactive"}
    BY DEF Invoker
  <2>1. CASE CallAt(u, p, s)
    BY <1>1, <1>3, <2>1, CallerStays
  <2>2. CASE New(t, u, p, Depth(t) + 1) /\ s = s0 /\ phase[s0] = "active"
    <3>1. p > 1 /\ p - 1 = Depth(t) /\ u = t
      BY <1>2, <2>2 DEF New
    <3> QED BY <1>1, <1>2, <1>3, <2>2, <3>1
  <2> QED BY <1>3, <2>1, <2>2 DEF CallAt
<1>8. Named'
  BY <1>1, <1>3 DEF FenceInv, Named
<1>9. Lifecycle'
  BY <1>1 DEF FenceInv, Lifecycle
<1>10. Fence'
  BY <1>1, <1>3 DEF FenceInv, Fence
<1> QED BY <1>4, <1>5, <1>6, <1>11, <1>7, <1>8, <1>9, <1>10 DEF FenceInv

LEMMA FenceDrainPending ==
  ASSUME TypeInv, FenceInv, NEW t \in Threads, DrainPending(t)
  PROVE  FenceInv'
<1> DEFINE s0 == Top(t).slot
           f == Entering(s0, pending[s0])
<1>0. /\ stack[t] # <<>> /\ Top(t).op = "observe"
      /\ IF EndsInitialization(s0)
         THEN /\ phase' = [phase EXCEPT ![s0] = "active"]
              /\ token' = [token EXCEPT ![s0] = "held"]
              /\ stack' = Returned(t)
         ELSE stack' = Called(t, f) /\ phase' = phase /\ token' = token
      /\ UNCHANGED <<dispatching, invoking, resetter>>
  BY DEF DrainPending, Inside, Top, callbackState
<1>2. /\ Depth(t) \in Nat \ {0} /\ ~DispatchAt(t, Depth(t)) /\ InitialAt(t, Depth(t), s0)
      /\ s0 \in Slots
      /\ \A s \in Slots : /\ InitialAt(t, Depth(t), s) => s = s0
                          /\ ~EndingAt(t, Depth(t), s) /\ ~WaitAt(t, Depth(t), s)
                          /\ ~EnterAt(t, Depth(t), s) /\ ~InvokeAt(t, Depth(t), s)
  BY <1>0, TopFrame, TopIsFrame, FrameFields DEF Is, IsEnding
<1>12. ~EndsInitialization(s0) => f \in Loaded /\ f.op = "enter" /\ f.slot = s0
  <2>1. ~EndsInitialization(s0) => pending[s0] \in Change
    BY <1>2 DEF EndsInitialization, TypeInv, TypeOK
  <2> QED BY <1>2, <2>1, FrameTypes DEF Entering
<1>13. phase[s0] = "initializing" /\ token[s0] = "none"
  BY <1>2 DEF FenceInv, Initializer, Lifecycle
<1>14. \A u \in Threads, p \in Nat : InitialAt(u, p, s0) => New(t, u, p, Depth(t))
  BY <1>2 DEF FenceInv, Initializer, New
<1> HIDE DEF s0, f
<1>15. CASE EndsInitialization(s0)
  <2>1. /\ phase' = [phase EXCEPT ![s0] = "active"]
        /\ token' = [token EXCEPT ![s0] = "held"]
        /\ stack' = Returned(t)
        /\ UNCHANGED <<dispatching, invoking, resetter>>
    BY <1>0, <1>15
  <2>2. \A u \in Threads, p \in Nat :
          /\ DispatchAt(u, p)' <=> DispatchAt(u, p)
          /\ \A s \in Slots :
               /\ InitialAt(u, p, s)' <=> (InitialAt(u, p, s) /\ ~New(t, u, p, Depth(t)))
               /\ EndingAt(u, p, s)' <=> EndingAt(u, p, s)
               /\ WaitAt(u, p, s)' <=> WaitAt(u, p, s)
               /\ EnterAt(u, p, s)' <=> EnterAt(u, p, s)
               /\ InvokeAt(u, p, s)' <=> InvokeAt(u, p, s)
    BY <1>0, <1>2, <2>1, AfterReturn DEF New
  <2>3. Dispatcher'
    BY <2>1, <2>2 DEF FenceInv, Dispatcher
  <2>4. Initializer'
    BY <1>14, <2>1, <2>2 DEF FenceInv, Initializer, TypeInv, TypeOK
  <2>5. Resetter'
    BY <1>13, <2>1, <2>2 DEF FenceInv, Resetter, TypeInv, TypeOK
  <2>6. Waiter'
    BY <1>13, <2>1, <2>2 DEF FenceInv, Waiter, TypeInv, TypeOK
  <2>7. Invoker'
    <3> SUFFICES ASSUME NEW u \in Threads, NEW p \in Nat, NEW s \in Slots, CallAt(u, p, s)'
                 PROVE  /\ p > 1
                        /\ \/ InitialAt(u, p - 1, s)'
                           \/ DispatchAt(u, p - 1)' /\ phase'[s] \in {"active", "inactive"}
      BY DEF Invoker
    <3>1. CallAt(u, p, s)
      BY <2>2 DEF CallAt
    <3> QED BY <1>0, <2>1, <2>2, <3>1, CallerStays DEF TypeInv, TypeOK
  <2>8. Named'
    BY <2>1, <2>2 DEF FenceInv, Named
  <2>9. Lifecycle'
    BY <2>1 DEF FenceInv, Lifecycle, TypeInv, TypeOK
  <2>10. Fence'
    BY <2>1, <2>2 DEF FenceInv, Fence, TypeInv, TypeOK
  <2> QED BY <2>3, <2>4, <2>5, <2>6, <2>7, <2>8, <2>9, <2>10 DEF FenceInv
<1>16. CASE ~EndsInitialization(s0)
  <2>1. /\ stack' = Called(t, f)
        /\ UNCHANGED <<dispatching, invoking, resetter, phase, token>>
    BY <1>0, <1>16
  <2>2. \A u \in Threads, p \in Nat :
          /\ DispatchAt(u, p)' <=> DispatchAt(u, p)
          /\ \A s \in Slots :
               /\ InitialAt(u, p, s)' <=> InitialAt(u, p, s)
               /\ EndingAt(u, p, s)' <=> EndingAt(u, p, s)
               /\ WaitAt(u, p, s)' <=> WaitAt(u, p, s)
               /\ EnterAt(u, p, s)' <=>
                    (EnterAt(u, p, s)
                     \/ (New(t, u, p, Depth(t) + 1) /\ s = s0))
               /\ InvokeAt(u, p, s)' <=> InvokeAt(u, p, s)
    BY <1>12, <1>16, <2>1, AfterCall DEF Is, IsEnding
  <2>3. Dispatcher'
    BY <2>1, <2>2 DEF FenceInv, Dispatcher
  <2>4. Initializer'
    BY <2>1, <2>2 DEF FenceInv, Initializer
  <2>5. Resetter'
    BY <2>1, <2>2 DEF FenceInv, Resetter
  <2>6. Waiter'
    BY <2>1, <2>2 DEF FenceInv, Waiter
  <2>7. Invoker'
    <3> SUFFICES ASSUME NEW u \in Threads, NEW p \in Nat, NEW s \in Slots, CallAt(u, p, s)'
                 PROVE  /\ p > 1
                        /\ \/ InitialAt(u, p - 1, s)'
                           \/ DispatchAt(u, p - 1)' /\ phase'[s] \in {"active", "inactive"}
      BY DEF Invoker
    <3>1. CASE CallAt(u, p, s)
      BY <1>0, <2>1, <2>2, <3>1, CallerStays
    <3>2. CASE New(t, u, p, Depth(t) + 1) /\ s = s0
      <4>1. p > 1 /\ p - 1 = Depth(t) /\ u = t
        BY <1>2, <3>2 DEF New
      <4> QED BY <1>2, <2>2, <3>2, <4>1
    <3> QED BY <2>2, <3>1, <3>2 DEF CallAt
  <2>8. Named' /\ Fence'
    BY <2>1, <2>2 DEF FenceInv, Named, Fence
  <2>9. Lifecycle'
    BY <2>1 DEF FenceInv, Lifecycle
  <2> QED BY <2>3, <2>4, <2>5, <2>6, <2>7, <2>8, <2>9 DEF FenceInv
<1> QED BY <1>15, <1>16

LEMMA FenceDeactivate ==
  ASSUME TypeInv, FenceInv, NEW t \in Threads, Deactivate(t)
  PROVE  FenceInv'
<1> DEFINE s0 == Top(t).slot
           f == Waiting(s0)
<1>1. /\ stack[t] # <<>> /\ Top(t).op = "reset"
      /\ phase' = [phase EXCEPT ![s0] = "inactive"]
      /\ IF MustWait(t, s0)
         THEN stack' = Became(t, f) /\ token' = token
         ELSE stack' = Returned(t) /\ token' = [token EXCEPT ![s0] = "gone"]
      /\ UNCHANGED <<dispatching, invoking, resetter>>
  BY DEF Deactivate, Inside, Top, callbackState
<1>2. /\ Depth(t) \in Nat \ {0} /\ ~DispatchAt(t, Depth(t)) /\ EndingAt(t, Depth(t), s0)
      /\ s0 \in Slots
      /\ \A s \in Slots : /\ EndingAt(t, Depth(t), s) => s = s0
                          /\ ~InitialAt(t, Depth(t), s) /\ ~WaitAt(t, Depth(t), s)
                          /\ ~EnterAt(t, Depth(t), s) /\ ~InvokeAt(t, Depth(t), s)
  BY <1>1, TopFrame, TopIsFrame, FrameFields DEF Is, IsEnding
<1>12. f \in Loaded /\ f.op = "wait" /\ f.slot = s0
  BY <1>2, FrameTypes DEF Waiting
<1>13. /\ token[s0] = "resetting" /\ resetter[s0] = t
       /\ \A u \in Threads, p \in Nat : EndingAt(u, p, s0) => New(t, u, p, Depth(t))
       /\ \A u \in Threads, p \in Nat : ~InitialAt(u, p, s0)
  BY <1>2 DEF FenceInv, Resetter, Initializer, Lifecycle, New
<1> HIDE DEF s0, f
<1>3. \A u \in Threads, p \in Nat :
        /\ DispatchAt(u, p)' <=> DispatchAt(u, p)
        /\ \A s \in Slots :
             /\ InitialAt(u, p, s)' <=> InitialAt(u, p, s)
             /\ EndingAt(u, p, s)' <=>
                  (EndingAt(u, p, s) /\ (New(t, u, p, Depth(t)) => MustWait(t, s0)))
             /\ WaitAt(u, p, s)' <=>
                  (WaitAt(u, p, s)
                   \/ (New(t, u, p, Depth(t)) /\ s = s0 /\ MustWait(t, s0)))
             /\ EnterAt(u, p, s)' <=> EnterAt(u, p, s)
             /\ InvokeAt(u, p, s)' <=> InvokeAt(u, p, s)
  <2>1. CASE MustWait(t, s0)
    <3>1. stack' = Became(t, f)
      BY <1>1, <2>1
    <3> QED BY <1>1, <1>2, <1>12, <2>1, <3>1, AfterReplacing DEF New, Is, IsEnding
  <2>2. CASE ~MustWait(t, s0)
    <3>1. stack' = Returned(t)
      BY <1>1, <2>2
    <3> QED BY <1>1, <1>2, <2>2, <3>1, AfterReturn DEF New
  <2> QED BY <2>1, <2>2
<1>14. \A s \in Slots : /\ phase'[s] = IF s = s0 THEN "inactive" ELSE phase[s]
                        /\ token'[s] = IF s = s0 /\ ~MustWait(t, s0) THEN "gone" ELSE token[s]
  BY <1>1, <1>2 DEF TypeInv, TypeOK
<1>15. ~MustWait(t, s0) => \A u \in Threads, p \in Nat : InvokeAt(u, p, s0) => u = t
  BY <1>2, ThreadAssumption DEF FenceInv, Named, MustWait
<1>4. Dispatcher'
  BY <1>1, <1>3 DEF FenceInv, Dispatcher
<1>5. Initializer'
  BY <1>3, <1>13, <1>14 DEF FenceInv, Initializer
<1>6. Resetter'
  BY <1>1, <1>3, <1>13, <1>14 DEF FenceInv, Resetter
<1>11. Waiter'
  BY <1>2, <1>3, <1>14 DEF FenceInv, Waiter, New
<1>7. Invoker'
  <2> SUFFICES ASSUME NEW u \in Threads, NEW p \in Nat, NEW s \in Slots, CallAt(u, p, s)'
               PROVE  /\ p > 1
                      /\ \/ InitialAt(u, p - 1, s)'
                         \/ DispatchAt(u, p - 1)' /\ phase'[s] \in {"active", "inactive"}
    BY DEF Invoker
  <2>1. CallAt(u, p, s)
    BY <1>3 DEF CallAt
  <2> QED BY <1>1, <1>3, <1>14, <2>1, CallerStays
<1>8. Named'
  <2> SUFFICES ASSUME NEW u \in Threads, NEW p \in Nat, NEW s \in Slots, InvokeAt(u, p, s)'
               PROVE  invoking'[s] = u
    BY DEF Named
  <2>1. InvokeAt(u, p, s)
    BY <1>3
  <2>2. invoking[s] = u
    BY <2>1 DEF FenceInv, Named
  <2> QED BY <1>1, <2>2
<1>9. Lifecycle'
  BY <1>13, <1>14 DEF FenceInv, Lifecycle
<1>10. Fence'
  <2> SUFFICES ASSUME NEW u \in Threads, NEW p \in Nat, NEW s \in Slots,
                      token'[s] = "gone", InvokeAt(u, p, s)'
               PROVE  u = resetter'[s]
    BY DEF Fence
  <2>1. InvokeAt(u, p, s) /\ UNCHANGED resetter
    BY <1>1, <1>3
  <2>2. CASE s = s0 /\ ~MustWait(t, s0)
    BY <1>13, <1>15, <2>1, <2>2
  <2>3. CASE ~(s = s0 /\ ~MustWait(t, s0))
    <3>1. token[s] = "gone"
      BY <1>14, <2>3
    <3> QED BY <2>1, <3>1 DEF FenceInv, Fence
  <2> QED BY <2>2, <2>3
<1> QED BY <1>4, <1>5, <1>6, <1>11, <1>7, <1>8, <1>9, <1>10 DEF FenceInv

LEMMA FenceNext ==
  ASSUME TypeInv, FenceInv, [Next]_vars
  PROVE  FenceInv'
<1>1. ASSUME NEW t \in Threads, Calls(t) PROVE FenceInv'
  BY <1>1, FencePublish, FenceOnChange, FenceObserve, FenceReset DEF Calls
<1>2. ASSUME NEW t \in Threads, Proceed(t) PROVE FenceInv'
  BY <1>2, FenceTakeNotification, FenceConsiderSlot, FenceEnterCallback, FenceLeaveCallback,
     FenceDrainPending, FenceDeactivate, FenceFinishReset DEF Proceed
<1>3. CASE UNCHANGED vars
  <2>1. UNCHANGED <<stack, dispatching, phase, token, invoking, resetter>>
    BY <1>3 DEF vars, callbackState, slot
  <2>2. \A u \in Threads, p \in Nat :
          /\ DispatchAt(u, p)' <=> DispatchAt(u, p)
          /\ \A s \in Slots :
               /\ InitialAt(u, p, s)' <=> InitialAt(u, p, s)
               /\ EndingAt(u, p, s)' <=> EndingAt(u, p, s)
               /\ WaitAt(u, p, s)' <=> WaitAt(u, p, s)
               /\ EnterAt(u, p, s)' <=> EnterAt(u, p, s)
               /\ InvokeAt(u, p, s)' <=> InvokeAt(u, p, s)
    BY <2>1, AfterNothing
  <2>3. Dispatcher' /\ Initializer' /\ Resetter' /\ Waiter'
    BY <2>1, <2>2 DEF FenceInv, Dispatcher, Initializer, Resetter, Waiter
  <2>4. Invoker'
    BY <2>1, <2>2 DEF FenceInv, Invoker, CallAt
  <2>5. Named' /\ Lifecycle' /\ Fence'
    BY <2>1, <2>2 DEF FenceInv, Named, Lifecycle, Fence
  <2> QED BY <2>3, <2>4, <2>5 DEF FenceInv
<1> QED BY <1>1, <1>2, <1>3 DEF Next

(* A frame of the stack is at the place that counts it from the bottom.            *)
LEMMA FrameHasPlace ==
  ASSUME TypeInv, NEW t \in Threads, NEW i \in DOMAIN stack[t], NEW s \in Slots,
         stack[t][i].op = "invoke", stack[t][i].slot = s
  PROVE  /\ Depth(t) + 1 - i \in Nat
         /\ InvokeAt(t, Depth(t) + 1 - i, s)
         /\ i \in Nat /\ Depth(t) \in Nat
<1>1. stack[t] \in Seq(Loaded)
  BY DEF TypeInv
<1>2. Depth(t) \in Nat /\ i \in 1 .. Depth(t)
  BY <1>1 DEF Depth
<1>3. PICK p \in Nat : p = Depth(t) + 1 - i
  BY <1>2
<1>4. p \in 1 .. Depth(t) /\ Depth(t) + 1 - p = i
  BY <1>2, <1>3
<1>5. InvokeAt(t, p, s)
  BY <1>4 DEF InvokeAt, At, Depth
<1> QED BY <1>2, <1>3, <1>5

LEMMA FenceIsEnough ==
  ASSUME TypeInv, FenceInv
  PROVE  ResetFences
<1> SUFFICES ASSUME NEW s \in Slots, token[s] = "gone", NEW t \in Threads,
                    NEW i \in DOMAIN stack[t],
                    stack[t][i].op = "invoke", stack[t][i].slot = s
             PROVE  t = resetter[s]
  BY DEF ResetFences, Frames
<1>1. PICK p \in Nat : InvokeAt(t, p, s)
  BY FrameHasPlace
<1> QED BY <1>1 DEF FenceInv, Fence

LEMMA OneCallIsEnough ==
  ASSUME TypeInv, FenceInv
  PROVE  CallbackNotReentered
<1> SUFFICES ASSUME NEW s \in Slots, NEW t \in Threads, NEW i \in DOMAIN stack[t],
                    stack[t][i].op = "invoke", stack[t][i].slot = s
             PROVE  /\ invoking[s] = t
                    /\ \A j \in DOMAIN stack[t] :
                         stack[t][j].op = "invoke" /\ stack[t][j].slot = s => i = j
  BY DEF CallbackNotReentered
<1>1. /\ Depth(t) + 1 - i \in Nat /\ InvokeAt(t, Depth(t) + 1 - i, s)
      /\ i \in Nat /\ Depth(t) \in Nat
  BY FrameHasPlace
<1>2. invoking[s] = t
  BY <1>1 DEF FenceInv, Named
<1>3. ASSUME NEW j \in DOMAIN stack[t], stack[t][j].op = "invoke", stack[t][j].slot = s
      PROVE  i = j
  <2>1. /\ Depth(t) + 1 - j \in Nat /\ InvokeAt(t, Depth(t) + 1 - j, s)
        /\ j \in Nat
    BY <1>3, FrameHasPlace
  <2>2. Depth(t) + 1 - i = Depth(t) + 1 - j
    BY <1>1, <2>1, OneCall DEF CallAt
  <2> QED BY <1>1, <2>1, <2>2
<1> QED BY <1>2, <1>3

LEMMA FenceInvHolds == Spec => [](TypeInv /\ FenceInv)
<1>1. Init => FenceInv
  BY FenceInit
<1>2. TypeInv /\ FenceInv /\ [Next]_vars => FenceInv'
  BY FenceNext
<1>3. Spec => []TypeInv
  BY TypeInvHolds
<1> QED BY <1>1, <1>2, <1>3, PTL DEF Spec

(* Once Reset has returned, the callback runs nowhere but in the thread that       *)
(* reset the subscription from inside it (OptionsMonitor's cancel action).         *)
THEOREM ResetFencesHolds == Spec => []ResetFences
<1>1. TypeInv /\ FenceInv => ResetFences
  BY FenceIsEnough
<1> QED BY <1>1, FenceInvHolds, PTL

(* The initial delivery of Observe and the dispatcher never run a callback at the  *)
(* same time, nor one inside the other (RegisterCallback, DispatchNotifications).  *)
THEOREM CallbackNotReenteredHolds == Spec => []CallbackNotReentered
<1>1. TypeInv /\ FenceInv => CallbackNotReentered
  BY OneCallIsEnough
<1> QED BY <1>1, FenceInvHolds, PTL

(***********************************************************************************)
(* What every thread is inside, whatever the places.                               *)
(***********************************************************************************)
Doing == UNION {Frames(t) : t \in Threads}
CallsOf(s) == {f \in Doing : f.op \in {"enter", "invoke"} /\ f.slot = s}
Elements(q) == {q[i] : i \in DOMAIN q}

LEMMA PushedElements ==
  ASSUME NEW q \in Seq(Loaded), NEW f \in Loaded
  PROVE  Elements(<<f>> \o q) = Elements(q) \cup {f}
<1> DEFINE r == <<f>> \o q
<1>1. /\ Len(q) \in Nat /\ DOMAIN q = 1 .. Len(q)
      /\ DOMAIN r = 1 .. Len(q) + 1
      /\ r[1] = f
      /\ \A i \in 1 .. Len(q) : r[i + 1] = q[i]
  OBVIOUS
<1> HIDE DEF r
<1>2. ASSUME NEW i \in 1 .. Len(q) + 1 PROVE r[i] \in Elements(q) \cup {f}
  <2>1. CASE i = 1
    BY <1>1, <2>1
  <2>2. CASE i # 1
    <3>1. i - 1 \in 1 .. Len(q) /\ (i - 1) + 1 = i
      BY <1>1, <2>2
    <3>2. r[i] = q[i - 1]
      BY <1>1, <3>1
    <3> QED BY <1>1, <3>1, <3>2 DEF Elements
  <2> QED BY <2>1, <2>2
<1>3. ASSUME NEW i \in 1 .. Len(q) PROVE q[i] \in Elements(r)
  <2>1. i + 1 \in 1 .. Len(q) + 1
    BY <1>1
  <2> QED BY <1>1, <2>1 DEF Elements
<1>4. f \in Elements(r)
  <2>1. 1 \in 1 .. Len(q) + 1
    BY <1>1
  <2> QED BY <1>1, <2>1 DEF Elements
<1>5. Elements(r) \subseteq Elements(q) \cup {f}
  BY <1>1, <1>2 DEF Elements
<1>6. Elements(q) \subseteq Elements(r)
  BY <1>1, <1>3 DEF Elements
<1> QED BY <1>4, <1>5, <1>6 DEF r

LEMMA PoppedElements ==
  ASSUME NEW q \in Seq(Loaded), q # <<>>
  PROVE  /\ Tail(q) \in Seq(Loaded) /\ Head(q) \in Loaded
         /\ Elements(q) = Elements(Tail(q)) \cup {Head(q)}
<1>1. Tail(q) \in Seq(Loaded) /\ Head(q) \in Loaded /\ q = <<Head(q)>> \o Tail(q)
  OBVIOUS
<1> QED BY <1>1, PushedElements

LEMMA PushedBothElements ==
  ASSUME NEW q \in Seq(Loaded), NEW f \in Loaded, NEW g \in Loaded
  PROVE  Elements(<<g, f>> \o q) = Elements(q) \cup {f, g}
<1> DEFINE r == <<f>> \o q
<1>1. <<g, f>> \o q = <<g>> \o r
  BY PushingTwo
<1>2. r \in Seq(Loaded)
  BY Pushing
<1>3. Elements(r) = Elements(q) \cup {f}
  BY PushedElements
<1> HIDE DEF r
<1>4. Elements(<<g>> \o r) = Elements(r) \cup {g}
  BY <1>2, PushedElements
<1> QED BY <1>1, <1>3, <1>4

(* A frame has the place that counts it from the bottom.                           *)
LEMMA PlaceOfFrame ==
  ASSUME TypeInv, NEW t \in Threads, NEW f
  PROVE  f \in Frames(t) <=> \E p \in Nat : p \in 1 .. Depth(t) /\ At(stack[t], p) = f
<1>1. stack[t] \in Seq(Loaded) /\ Depth(t) \in Nat /\ DOMAIN stack[t] = 1 .. Depth(t)
  BY DEF TypeInv, Depth
<1>2. ASSUME NEW i \in 1 .. Depth(t)
      PROVE  /\ Depth(t) + 1 - i \in Nat /\ Depth(t) + 1 - i \in 1 .. Depth(t)
             /\ Depth(t) + 1 - (Depth(t) + 1 - i) = i
  BY <1>1
<1>3. ASSUME f \in Frames(t)
      PROVE  \E p \in Nat : p \in 1 .. Depth(t) /\ At(stack[t], p) = f
  <2>1. PICK i \in 1 .. Depth(t) : stack[t][i] = f
    BY <1>1, <1>3 DEF Frames
  <2>2. PICK p \in Nat : p = Depth(t) + 1 - i
    BY <1>2
  <2>3. p \in 1 .. Depth(t) /\ Depth(t) + 1 - p = i
    BY <1>2, <2>2
  <2> QED BY <2>1, <2>3 DEF At, Depth
<1>4. ASSUME NEW p \in Nat, p \in 1 .. Depth(t), At(stack[t], p) = f
      PROVE  f \in Frames(t)
  <2>1. Depth(t) + 1 - p \in 1 .. Depth(t)
    BY <1>2, <1>4
  <2> QED BY <1>1, <1>4, <2>1 DEF Frames, At, Depth
<1> QED BY <1>3, <1>4

LEMMA FramesAreElements ==
  ASSUME NEW t \in Threads
  PROVE  Frames(t) = Elements(stack[t]) /\ Frames(t)' = Elements(stack'[t])
BY DEF Frames, Elements

LEMMA DoingTypes ==
  ASSUME TypeInv
  PROVE  Doing \subseteq Loaded /\ \A t \in Threads : Frames(t) \subseteq Loaded
<1>1. ASSUME NEW t \in Threads PROVE Frames(t) \subseteq Loaded
  BY DEF TypeInv, Frames
<1> QED BY <1>1 DEF Doing

(* No frame is at two places.                                                      *)
LEMMA OnePlace ==
  ASSUME TypeInv, FenceInv, NEW t \in Threads, NEW u \in Threads, NEW p \in Nat, NEW q \in Nat,
         p \in 1 .. Depth(t), q \in 1 .. Depth(u),
         NEW f \in Loaded, At(stack[t], p) = f,
         NEW g \in Loaded, At(stack[u], q) = g,
         \/ f.op = "dispatch" /\ g.op = "dispatch"
         \/ f.op = "observe" /\ g.op = "observe" /\ f.slot = g.slot
         \/ f.op \in {"reset", "wait"} /\ g.op \in {"reset", "wait"} /\ f.slot = g.slot
         \/ f.op \in {"enter", "invoke"} /\ g.op \in {"enter", "invoke"} /\ f.slot = g.slot
  PROVE  t = u /\ p = q
<1>1. CASE f.op = "dispatch" /\ g.op = "dispatch"
  <2>1. DispatchAt(t, p) /\ DispatchAt(u, q)
    BY <1>1 DEF DispatchAt
  <2> QED BY <2>1 DEF FenceInv, Dispatcher
<1>2. CASE f.op = "observe" /\ g.op = "observe" /\ f.slot = g.slot
  <2>1. f.slot \in Slots /\ InitialAt(t, p, f.slot) /\ InitialAt(u, q, f.slot)
    BY <1>2, FrameFields DEF InitialAt
  <2> QED BY <2>1 DEF FenceInv, Initializer
<1>3. CASE f.op \in {"reset", "wait"} /\ g.op \in {"reset", "wait"} /\ f.slot = g.slot
  <2>1. f.slot \in Slots /\ EndingAt(t, p, f.slot) /\ EndingAt(u, q, f.slot)
    BY <1>3, FrameFields DEF EndingAt
  <2> QED BY <2>1 DEF FenceInv, Resetter
<1>4. CASE f.op \in {"enter", "invoke"} /\ g.op \in {"enter", "invoke"} /\ f.slot = g.slot
  <2>1. f.slot \in Slots /\ CallAt(t, p, f.slot) /\ CallAt(u, q, f.slot)
    BY <1>4, FrameFields DEF CallAt, EnterAt, InvokeAt
  <2> QED BY <2>1, OneCall
<1> QED BY <1>1, <1>2, <1>3, <1>4

(* One dispatcher in progress, and for a slot one initial delivery, one Reset and  *)
(* one call of InvokeCallback.                                                     *)
LEMMA OneOfAKind ==
  ASSUME TypeInv, FenceInv, NEW t \in Threads, NEW u \in Threads,
         NEW f \in Frames(t), NEW g \in Frames(u),
         \/ f.op = "dispatch" /\ g.op = "dispatch"
         \/ f.op = "observe" /\ g.op = "observe" /\ f.slot = g.slot
         \/ f.op \in {"reset", "wait"} /\ g.op \in {"reset", "wait"} /\ f.slot = g.slot
         \/ f.op \in {"enter", "invoke"} /\ g.op \in {"enter", "invoke"} /\ f.slot = g.slot
  PROVE  t = u /\ f = g
<1>1. f \in Loaded /\ g \in Loaded
  BY DoingTypes
<1>2. PICK p \in Nat : p \in 1 .. Depth(t) /\ At(stack[t], p) = f
  BY PlaceOfFrame
<1>3. PICK q \in Nat : q \in 1 .. Depth(u) /\ At(stack[u], q) = g
  BY PlaceOfFrame
<1>4. t = u /\ p = q
  BY <1>1, <1>2, <1>3, OnePlace
<1> QED BY <1>2, <1>3, <1>4

(* Hence the frame on top of a stack is nowhere else.                              *)
LEMMA TopIsOnce ==
  ASSUME TypeInv, FenceInv, NEW t \in Threads, stack[t] # <<>>
  PROVE  /\ Top(t) \in Frames(t) /\ Top(t) \in Loaded
         /\ Top(t) \notin Elements(Tail(stack[t]))
         /\ \A u \in Threads \ {t} : Top(t) \notin Frames(u)
         /\ Elements(Tail(stack[t])) = Frames(t) \ {Top(t)}
<1>1. /\ stack[t] \in Seq(Loaded) /\ Top(t) \in Loaded /\ Tail(stack[t]) \in Seq(Loaded)
      /\ Frames(t) = Elements(Tail(stack[t])) \cup {Top(t)}
  BY TopIsFrame, PoppedElements, FramesAreElements DEF Top
<1> DEFINE f == Top(t)
<1>2. \/ f.op = "dispatch" /\ f.op = "dispatch"
      \/ f.op = "observe" /\ f.op = "observe" /\ f.slot = f.slot
      \/ f.op \in {"reset", "wait"} /\ f.op \in {"reset", "wait"} /\ f.slot = f.slot
      \/ f.op \in {"enter", "invoke"} /\ f.op \in {"enter", "invoke"} /\ f.slot = f.slot
  BY <1>1, FrameFields
<1>3. ASSUME NEW u \in Threads, NEW p \in Nat, p \in 1 .. Depth(u), At(stack[u], p) = f
      PROVE  u = t /\ p = Depth(t)
  <2>1. Depth(t) \in Nat /\ Depth(t) \in 1 .. Depth(t) /\ At(stack[t], Depth(t)) = f
    BY <1>1, Popping DEF Depth, Top
  <2> QED BY <1>1, <1>2, <1>3, <2>1, OnePlace
<1>4. ASSUME NEW u \in Threads \ {t}, f \in Frames(u) PROVE FALSE
  BY <1>3, <1>4, PlaceOfFrame
<1>5. ASSUME f \in Elements(Tail(stack[t])) PROVE FALSE
  <2> DEFINE r == Tail(stack[t])
  <2>1. PICK i \in DOMAIN r : r[i] = f
    BY <1>5 DEF Elements
  <2>2. /\ Depth(t) \in Nat \ {0} /\ DOMAIN r = 1 .. Depth(t) - 1 /\ r[i] = stack[t][i + 1]
    BY <1>1, <2>1 DEF Depth
  <2>3. PICK p \in Nat : p = Depth(t) - i
    BY <2>1, <2>2
  <2>4. p \in 1 .. Depth(t) /\ Depth(t) + 1 - p = i + 1 /\ p # Depth(t)
    BY <2>1, <2>2, <2>3
  <2>5. At(stack[t], p) = f
    BY <2>1, <2>2, <2>4 DEF At, Depth
  <2> QED BY <1>3, <2>4, <2>5
<1> QED BY <1>1, <1>4, <1>5

(* What a step does to what the threads are inside.                                *)
LEMMA InsideAfterCall ==
  ASSUME TypeInv, NEW t \in Threads, NEW f \in Loaded, stack' = Called(t, f)
  PROVE  /\ Frames(t)' = Frames(t) \cup {f}
         /\ \A u \in Threads \ {t} : stack'[u] = stack[u] /\ Frames(u)' = Frames(u)
         /\ Doing' = Doing \cup {f}
         /\ stack'[t] # <<>> /\ Head(stack'[t]) = f
<1>1. stack[t] \in Seq(Loaded) /\ stack'[t] = <<f>> \o stack[t]
  BY DEF TypeInv, Called
<1>2. \A u \in Threads \ {t} : stack'[u] = stack[u]
  BY DEF TypeInv, Called
<1>3. Frames(t)' = Frames(t) \cup {f}
  BY <1>1, PushedElements, FramesAreElements
<1>4. \A u \in Threads \ {t} : stack'[u] = stack[u] /\ Frames(u)' = Frames(u)
  BY <1>2 DEF Frames
<1>5. stack'[t] # <<>> /\ Head(stack'[t]) = f
  BY <1>1
<1> QED BY <1>3, <1>4, <1>5 DEF Doing

LEMMA InsideAfterReturn ==
  ASSUME TypeInv, FenceInv, NEW t \in Threads, stack[t] # <<>>, stack' = Returned(t)
  PROVE  /\ Frames(t)' = Frames(t) \ {Top(t)}
         /\ \A u \in Threads \ {t} : /\ stack'[u] = stack[u] /\ Frames(u)' = Frames(u)
                                     /\ Top(t) \notin Frames(u)
         /\ Doing' = Doing \ {Top(t)}
<1>1. stack[t] \in Seq(Loaded) /\ stack'[t] = Tail(stack[t])
  BY DEF TypeInv, Returned
<1>2. \A u \in Threads \ {t} : stack'[u] = stack[u]
  BY DEF TypeInv, Returned
<1>3. Frames(t)' = Frames(t) \ {Top(t)}
  BY <1>1, TopIsOnce, FramesAreElements
<1>4. \A u \in Threads \ {t} : /\ stack'[u] = stack[u] /\ Frames(u)' = Frames(u)
                               /\ Top(t) \notin Frames(u)
  BY <1>2, TopIsOnce DEF Frames
<1> QED BY <1>3, <1>4 DEF Doing

LEMMA InsideAfterReplacing ==
  ASSUME TypeInv, FenceInv, NEW t \in Threads, NEW f \in Loaded, stack[t] # <<>>,
         stack' = Became(t, f)
  PROVE  /\ Frames(t)' = (Frames(t) \ {Top(t)}) \cup {f}
         /\ \A u \in Threads \ {t} : /\ stack'[u] = stack[u] /\ Frames(u)' = Frames(u)
                                     /\ Top(t) \notin Frames(u)
         /\ Doing' = (Doing \ {Top(t)}) \cup {f}
         /\ stack'[t] # <<>> /\ Head(stack'[t]) = f
<1>1. stack[t] \in Seq(Loaded) /\ stack'[t] = <<f>> \o Tail(stack[t])
  BY DEF TypeInv, Became
<1>2. \A u \in Threads \ {t} : stack'[u] = stack[u]
  BY DEF TypeInv, Became
<1>3. Tail(stack[t]) \in Seq(Loaded)
  BY TopIsFrame
<1>4. Frames(t)' = (Frames(t) \ {Top(t)}) \cup {f}
  <2>1. Elements(<<f>> \o Tail(stack[t])) = Elements(Tail(stack[t])) \cup {f}
    BY <1>3, PushedElements
  <2>2. Frames(t)' = Elements(stack'[t])
    BY FramesAreElements
  <2> QED BY <1>1, <2>1, <2>2, TopIsOnce
<1>5. \A u \in Threads \ {t} : /\ stack'[u] = stack[u] /\ Frames(u)' = Frames(u)
                               /\ Top(t) \notin Frames(u)
  BY <1>2, TopIsOnce DEF Frames
<1>6. stack'[t] # <<>> /\ Head(stack'[t]) = f
  <2> HIDE DEF Called
  <2>1. stack'[t] = <<f>> \o Tail(stack[t])
    BY <1>1
  <2> QED BY <1>3, <2>1
<1> QED BY <1>4, <1>5, <1>6 DEF Doing

LEMMA InsideAfterTwoCalls ==
  ASSUME TypeInv, NEW t \in Threads, NEW f \in Loaded, NEW g \in Loaded,
         stack' = [stack EXCEPT ![t] = <<g, f>> \o @]
  PROVE  /\ Frames(t)' = Frames(t) \cup {f, g}
         /\ \A u \in Threads \ {t} : stack'[u] = stack[u] /\ Frames(u)' = Frames(u)
         /\ Doing' = Doing \cup {f, g}
         /\ stack'[t] # <<>> /\ Head(stack'[t]) = g
<1>1. stack[t] \in Seq(Loaded) /\ stack'[t] = <<g, f>> \o stack[t]
  BY DEF TypeInv
<1>2. \A u \in Threads \ {t} : stack'[u] = stack[u]
  BY DEF TypeInv
<1>3. Frames(t)' = Frames(t) \cup {f, g}
  BY <1>1, PushedBothElements, FramesAreElements
<1>5. \A u \in Threads \ {t} : stack'[u] = stack[u] /\ Frames(u)' = Frames(u)
  BY <1>2 DEF Frames
<1>6. stack'[t] # <<>> /\ Head(stack'[t]) = g
  BY <1>1
<1> QED BY <1>3, <1>5, <1>6 DEF Doing

LEMMA InsideAfterReplacingAndCall ==
  ASSUME TypeInv, FenceInv, NEW t \in Threads, NEW f \in Loaded, NEW g \in Loaded,
         stack[t] # <<>>, stack' = [stack EXCEPT ![t] = <<g, f>> \o Tail(@)]
  PROVE  /\ Frames(t)' = (Frames(t) \ {Top(t)}) \cup {f, g}
         /\ \A u \in Threads \ {t} : /\ stack'[u] = stack[u] /\ Frames(u)' = Frames(u)
                                     /\ Top(t) \notin Frames(u)
         /\ Doing' = (Doing \ {Top(t)}) \cup {f, g}
         /\ stack'[t] # <<>> /\ Head(stack'[t]) = g
<1> DEFINE r == Tail(stack[t])
<1>1. stack[t] \in Seq(Loaded) /\ stack'[t] = <<g, f>> \o r
  BY DEF TypeInv
<1>2. \A u \in Threads \ {t} : stack'[u] = stack[u]
  BY DEF TypeInv
<1>3. r \in Seq(Loaded) /\ Elements(r) = Frames(t) \ {Top(t)}
  BY TopIsFrame, TopIsOnce
<1> HIDE DEF r
<1>5. Frames(t)' = (Frames(t) \ {Top(t)}) \cup {f, g}
  <2>1. Frames(t)' = Elements(stack'[t])
    BY FramesAreElements
  <2> QED BY <1>1, <1>3, <2>1, PushedBothElements
<1>6. \A u \in Threads \ {t} : /\ stack'[u] = stack[u] /\ Frames(u)' = Frames(u)
                               /\ Top(t) \notin Frames(u)
  BY <1>2, TopIsOnce DEF Frames
<1>7. stack'[t] # <<>> /\ Head(stack'[t]) = g
  BY <1>1, <1>3
<1> QED BY <1>5, <1>6, <1>7 DEF Doing

(* InvokeCallback is called by the initial delivery of its slot, or from           *)
(* DispatchNotifications on the same thread.                                       *)
LEMMA WhoCalls ==
  ASSUME TypeInv, FenceInv, NEW t \in Threads, NEW f \in Frames(t), f.op \in {"enter", "invoke"}
  PROVE  /\ f.slot \in Slots
         /\ phase[f.slot] \in {"initializing", "active", "inactive"}
         /\ phase[f.slot] # "initializing" => \E g \in Frames(t) : g.op = "dispatch"
         /\ phase[f.slot] = "initializing" =>
              \A u \in Threads : \A g \in Frames(u) :
                g.op = "observe" /\ g.slot = f.slot => u = t /\ g # Top(u)
<1> DEFINE s == f.slot
<1>1. f \in Loaded
  BY DoingTypes
<1>2. s \in Slots
  BY <1>1, FrameFields
<1>3. PICK p \in Nat : p \in 1 .. Depth(t) /\ At(stack[t], p) = f
  BY PlaceOfFrame
<1>4. CallAt(t, p, s)
  BY <1>3 DEF CallAt, EnterAt, InvokeAt
<1>5. /\ p > 1 /\ p - 1 \in Nat
      /\ \/ InitialAt(t, p - 1, s)
         \/ DispatchAt(t, p - 1) /\ phase[s] \in {"active", "inactive"}
  BY <1>2, <1>4 DEF FenceInv, Invoker
<1>6. CASE InitialAt(t, p - 1, s)
  <2>1. phase[s] = "initializing"
    BY <1>2, <1>5, <1>6 DEF FenceInv, Initializer
  <2>2. ASSUME NEW u \in Threads, NEW g \in Frames(u), g.op = "observe", g.slot = s
        PROVE  u = t /\ g # Top(u)
    <3>1. PICK q \in Nat : q \in 1 .. Depth(u) /\ At(stack[u], q) = g
      BY PlaceOfFrame
    <3>2. InitialAt(u, q, s)
      BY <2>2, <3>1 DEF InitialAt
    <3>3. u = t /\ q = p - 1
      BY <1>2, <1>5, <1>6, <3>2 DEF FenceInv, Initializer
    <3>4. ASSUME g = Top(u) PROVE FALSE
      <4>1. stack[u] \in Seq(Loaded)
        BY DEF TypeInv
      <4>2. stack[u] # <<>> /\ Depth(u) \in Nat
        BY <1>3, <3>3, <4>1 DEF Depth
      <4>3. Depth(u) \in 1 .. Depth(u) /\ At(stack[u], Depth(u)) = g
        BY <3>4, <4>1, <4>2, Popping DEF Depth, Top
      <4>4. g \in Loaded
        BY DoingTypes
      <4>5. q = Depth(u)
        BY <2>2, <3>1, <4>2, <4>3, <4>4, OnePlace
      <4> QED BY <1>3, <1>5, <3>3, <4>5
    <3> QED BY <3>3, <3>4
  <2> QED BY <1>2, <2>1, <2>2
<1>7. CASE DispatchAt(t, p - 1) /\ phase[s] \in {"active", "inactive"}
  <2>1. /\ p - 1 \in 1 .. Depth(t) /\ At(stack[t], p - 1).op = "dispatch"
    BY <1>7 DEF DispatchAt
  <2>2. At(stack[t], p - 1) \in Frames(t)
    BY <1>5, <2>1, PlaceOfFrame
  <2> QED BY <1>2, <1>7, <2>1, <2>2
<1> QED BY <1>5, <1>6, <1>7

(***********************************************************************************)
(* The order of deliveries.                                                        *)
(***********************************************************************************)
Dispatches == {f \in Doing : f.op = "dispatch"}
LastOf(q) == q[Len(q)]

(* Version v is newer than anything the observer s was or is being given.          *)
Behind(s, v) == /\ phase[s] # "unused" /\ lastValue[s] < v /\ pending[s].version < v
                /\ \A f \in CallsOf(s) : f.change.version < v

(* At most one notification waits, for a dispatcher that runs.                     *)
Queue == /\ Len(notifications) <= 1
         /\ notifications # <<>> => dispatching
         /\ dispatching => Dispatches # {}

(* The one that waits is of the published version, newer than all others.          *)
Newest == \A i \in DOMAIN notifications :
  /\ notifications[i].change.version = published
  /\ notifications[i].change.previous # NoSnapshot
  /\ \A f \in Dispatches : f.change.version < published
  /\ \A s \in notifications[i].callbacks : Behind(s, published)

Sent == \A f \in Dispatches :
  /\ f.change.version <= published
  /\ \A s \in f.todo : f.change.previous # NoSnapshot /\ Behind(s, f.change.version)

(* Only the initial delivery has changes buffered.                                 *)
Buffer == \A s \in Slots : pending[s] # NoChange =>
  /\ phase[s] = "initializing"
  /\ pending[s].previous # NoSnapshot /\ pending[s].version <= published
  /\ lastValue[s] < pending[s].version
  /\ \A f \in CallsOf(s) : f.change.version < pending[s].version

(* A callback is given something newer than before, and at first the initial value. *)
InCall == \A s \in Slots : \A f \in CallsOf(s) :
  /\ lastValue[s] <= f.change.version /\ f.change.version <= published
  /\ f.op = "enter" /\ f.change.previous = NoSnapshot =>
       delivered[s] = <<>> /\ phase[s] = "initializing"
  /\ f.op = "enter" /\ f.change.previous # NoSnapshot => lastValue[s] < f.change.version
  /\ f.op = "invoke" => delivered[s] # <<>> /\ f.change = LastOf(delivered[s])

(* The slot remembers the version its callback was given last.                     *)
Known == \A s \in Slots :
  /\ lastValue[s] <= published
  /\ delivered[s] # <<>> /\ (\A f \in CallsOf(s) : f.op = "enter") =>
       lastValue[s] = LastOf(delivered[s]).version

Unknown == \A s \in Slots : phase[s] = "unused" =>
  delivered[s] = <<>> /\ CallsOf(s) = {} /\ s \notin callbacks

(* The initial delivery begins with the value that was current at registration.    *)
Starting == \A s \in Slots : phase[s] = "initializing" /\ delivered[s] = <<>> =>
  \E f \in CallsOf(s) : f.op = "enter"

(* A subscription that is being reset is not in the map any more.                  *)
Listed == \A s \in callbacks :
  phase[s] \in {"initializing", "active"} /\ token[s] # "resetting"

Coming(s) ==
  \/ lastValue[s] = published
  \/ \E i \in DOMAIN notifications :
       notifications[i].change.version = published /\ s \in notifications[i].callbacks
  \/ pending[s].version = published
  \/ \E f \in Dispatches : f.change.version = published /\ s \in f.todo
  \/ \E f \in CallsOf(s) : f.change.version = published

OrderInv == /\ Queue /\ Newest /\ Sent /\ Buffer /\ InCall /\ Known /\ Unknown /\ Starting
            /\ Listed /\ DeliveriesChain
            /\ \A s \in callbacks : Coming(s)

LEMMA Numbers ==
  ASSUME TypeInv
  PROVE  /\ published \in Nat
         /\ \A s \in Slots : /\ lastValue[s] \in Int /\ NoSnapshot <= lastValue[s]
                             /\ pending[s].version \in Int /\ NoSnapshot <= pending[s].version
                             /\ pending[s] # NoChange => pending[s] \in Change
         /\ \A f \in Dispatches : /\ f \in Loaded /\ f.change.version \in Int
                                  /\ NoSnapshot <= f.change.version
         /\ \A s : \A f \in CallsOf(s) : /\ f \in Loaded /\ f.change \in Change
                                         /\ f.change.version \in Int
                                         /\ NoSnapshot <= f.change.version
         /\ Version \subseteq Nat /\ NoSnapshot = -1 /\ NoChange.version = NoSnapshot
<1>1. Version \subseteq Nat /\ NoSnapshot = -1 /\ NoChange.version = NoSnapshot
  BY BoundAssumption DEF Version, NoSnapshot, NoChange
<1>2. ASSUME NEW c \in Change \cup {NoChange}
      PROVE  c.version \in Int /\ NoSnapshot <= c.version
  <2>1. CASE c \in Change
    <3>1. c.version \in Nat
      BY <1>1, <2>1, ChangeTypes
    <3> QED BY <1>1, <3>1
  <2>2. CASE c = NoChange
    BY <1>1, <2>2
  <2> QED BY <2>1, <2>2
<1>3. published \in Nat
  BY <1>1 DEF TypeInv, TypeOK
<1>4. ASSUME NEW s \in Slots
      PROVE  /\ lastValue[s] \in Int /\ NoSnapshot <= lastValue[s]
             /\ pending[s].version \in Int /\ NoSnapshot <= pending[s].version
             /\ pending[s] # NoChange => pending[s] \in Change
  <2>1. lastValue[s] \in {NoSnapshot} \cup Version /\ pending[s] \in Change \cup {NoChange}
    BY DEF TypeInv, TypeOK
  <2>2. lastValue[s] \in Int /\ NoSnapshot <= lastValue[s]
    <3>1. CASE lastValue[s] \in Version
      <4>1. lastValue[s] \in Nat
        BY <1>1, <3>1
      <4> QED BY <1>1, <4>1
    <3>2. CASE lastValue[s] = NoSnapshot
      BY <1>1, <3>2
    <3> QED BY <2>1, <3>1, <3>2
  <2>3. pending[s].version \in Int /\ NoSnapshot <= pending[s].version
    BY <1>2, <2>1
  <2> QED BY <2>1, <2>2, <2>3
<1>5. ASSUME NEW f \in Dispatches
      PROVE  f \in Loaded /\ f.change.version \in Int /\ NoSnapshot <= f.change.version
  BY <1>2, DoingTypes, FrameFields DEF Dispatches
<1>6. ASSUME NEW s, NEW f \in CallsOf(s)
      PROVE  /\ f \in Loaded /\ f.change \in Change
             /\ f.change.version \in Int /\ NoSnapshot <= f.change.version
  BY <1>2, DoingTypes, FrameFields DEF CallsOf
<1> QED BY <1>1, <1>3, <1>4, <1>5, <1>6

LEMMA OneDispatch ==
  ASSUME TypeInv, FenceInv, NEW f \in Dispatches, NEW g \in Dispatches
  PROVE  f = g
BY OneOfAKind DEF Dispatches, Doing

LEMMA OneCallOf ==
  ASSUME TypeInv, FenceInv, NEW s, NEW f \in CallsOf(s), NEW g \in CallsOf(s)
  PROVE  f = g
BY OneOfAKind DEF CallsOf, Doing

(* The function on top of a stack.                                                 *)
LEMMA TopKinds ==
  ASSUME TypeInv, FenceInv, NEW t \in Threads, stack[t] # <<>>
  PROVE  /\ Top(t) \in Loaded /\ Top(t) \in Frames(t) /\ Top(t) \in Doing
         /\ Top(t).op = "dispatch" => Dispatches = {Top(t)}
         /\ Top(t).op \in {"enter", "invoke"} => CallsOf(Top(t).slot) = {Top(t)}
         /\ Top(t).op = "observe" => /\ CallsOf(Top(t).slot) = {}
                                     /\ phase[Top(t).slot] = "initializing"
         /\ Top(t).op # "dispatch" => Top(t).slot \in Slots
<1>1. Top(t) \in Loaded /\ Top(t) \in Frames(t) /\ Top(t) \in Doing
  BY TopIsOnce DEF Doing
<1>2. ASSUME Top(t).op = "dispatch" PROVE Dispatches = {Top(t)}
  BY <1>1, <1>2, OneDispatch DEF Dispatches
<1>3. ASSUME Top(t).op \in {"enter", "invoke"} PROVE CallsOf(Top(t).slot) = {Top(t)}
  BY <1>1, <1>3, OneCallOf DEF CallsOf
<1>4. Top(t).op # "dispatch" => Top(t).slot \in Slots
  BY <1>1, FrameFields
<1>5. ASSUME Top(t).op = "observe"
      PROVE  CallsOf(Top(t).slot) = {} /\ phase[Top(t).slot] = "initializing"
  <2>1. phase[Top(t).slot] = "initializing"
    BY <1>4, <1>5, TopFrame DEF Is, FenceInv, Initializer
  <2>2. ASSUME NEW f \in CallsOf(Top(t).slot) PROVE FALSE
    <3>1. PICK u \in Threads : f \in Frames(u)
      BY DEF CallsOf, Doing
    <3> QED BY <1>1, <1>5, <2>1, <3>1, WhoCalls DEF CallsOf
  <2> QED BY <2>1, <2>2
<1> QED BY <1>1, <1>2, <1>3, <1>4, <1>5

(* What a function answers to the questions above.                                 *)
LEMMA NewFrames ==
  /\ \A s : /\ Observing(s).op = "observe" /\ Observing(s).slot = s
            /\ Resetting(s).op = "reset" /\ Resetting(s).slot = s
            /\ Waiting(s).op = "wait" /\ Waiting(s).slot = s
  /\ \A s, c : /\ Entering(s, c).op = "enter" /\ Entering(s, c).slot = s
               /\ Entering(s, c).change = c
               /\ Invoking(s, c).op = "invoke" /\ Invoking(s, c).slot = s
               /\ Invoking(s, c).change = c
  /\ \A n : /\ Dispatching(n).op = "dispatch" /\ Dispatching(n).change = n.change
            /\ Dispatching(n).todo = n.callbacks
BY DEF Observing, Resetting, Waiting, Entering, Invoking, Dispatching

LEMMA OrderInit == Init => OrderInv
<1> SUFFICES ASSUME Init PROVE OrderInv
  OBVIOUS
<1>1. Doing = {}
  BY DEF Init, Doing, Frames
<1>2. Dispatches = {} /\ \A s : CallsOf(s) = {}
  BY <1>1 DEF Dispatches, CallsOf
<1>3. /\ notifications = <<>> /\ dispatching = FALSE /\ callbacks = {} /\ published = 0
      /\ \A s \in Slots : /\ pending[s] = NoChange /\ lastValue[s] = -1 /\ delivered[s] = <<>>
                          /\ phase[s] = "unused"
  BY DEF Init, NoSnapshot
<1>4. Len(notifications) = 0 /\ DOMAIN notifications = {}
  BY <1>3
<1>5. Queue /\ Newest /\ Sent
  BY <1>2, <1>3, <1>4 DEF Queue, Newest, Sent
<1>6. Buffer /\ InCall /\ Known /\ Unknown /\ Starting /\ Listed
  BY <1>2, <1>3 DEF Buffer, InCall, Known, Unknown, Starting, Listed
<1>7. DeliveriesChain
  BY <1>3 DEF DeliveriesChain
<1> QED BY <1>3, <1>5, <1>6, <1>7 DEF OrderInv

(***********************************************************************************)
(* The queue.                                                                      *)
(***********************************************************************************)
LEMMA Singleton ==
  ASSUME NEW S, NEW q \in Seq(S), Len(q) <= 1, q # <<>>
  PROVE  /\ Len(q) = 1 /\ DOMAIN q = {1} /\ Head(q) = q[1] /\ Head(q) \in S
         /\ Tail(q) = <<>> /\ Len(Tail(q)) = 0 /\ DOMAIN Tail(q) = {}
<1>1. Len(q) = 1
  <2>1. Len(q) \in Nat
    OBVIOUS
  <2>2. Len(q) # 0
    OBVIOUS
  <2> QED BY <2>1, <2>2
<1>2. DOMAIN q = {1} /\ Head(q) = q[1] /\ Head(q) \in S
  BY <1>1
<1>3. Tail(q) \in Seq(S) /\ Len(Tail(q)) = 0
  BY <1>1
<1>4. Tail(q) = <<>>
  BY <1>3
<1> QED BY <1>1, <1>2, <1>3, <1>4

LEMMA CoalesceOne ==
  ASSUME NEW q \in Seq(Notification), NEW note \in Notification, Len(q) <= 1
  PROVE  \E m : /\ Coalesce(q, note) = <<m>>
                /\ m.change.version = note.change.version /\ m.callbacks = note.callbacks
                /\ m.change.previous \in {note.change.previous}
                                         \cup {q[i].change.previous : i \in DOMAIN q}
<1>1. CASE q = <<>>
  BY <1>1 DEF Coalesce
<1>2. CASE q # <<>>
  <2> DEFINE m == [note EXCEPT !.change.previous = q[1].change.previous]
  <2>1. Len(q) = 1 /\ DOMAIN q = {1}
    BY <1>2, Singleton
  <2>2. note = [change |-> note.change, callbacks |-> note.callbacks]
    BY DEF Notification
  <2>3. note.change = [previous |-> note.change.previous, version |-> note.change.version]
    BY DEF Notification, Change
  <2>4. /\ m.change.version = note.change.version /\ m.callbacks = note.callbacks
        /\ m.change.previous = q[1].change.previous
    BY <2>2, <2>3
  <2> HIDE DEF m
  <2>5. [q EXCEPT ![Len(q)] = m] = <<m>>
    BY <2>1
  <2>6. Coalesce(q, note) = <<m>>
    BY <1>2, <2>1, <2>5 DEF Coalesce, m
  <2> QED BY <2>1, <2>4, <2>6
<1> QED BY <1>1, <1>2

LEMMA OrderPublish ==
  ASSUME TypeInv, FenceInv, OrderInv, NEW t \in Threads, Publish(t)
  PROVE  OrderInv'
<1>1. /\ published' = published + 1
      /\ notifications' = Coalesce(notifications, NewNotification)
      /\ dispatching' = TRUE
      /\ UNCHANGED <<callbacks, phase, lastValue, pending, token, delivered>>
  BY DEF Publish, slot
<1>2. PICK m : /\ notifications' = <<m>> /\ m.change.version = published + 1
               /\ m.callbacks = callbacks /\ m.change.previous # NoSnapshot
  <2>1. NewNotification \in Notification /\ notifications \in Seq(Notification)
    <3>1. published \in Version /\ published + 1 \in Version
      BY BoundAssumption DEF Publish, TypeInv, TypeOK, Version
    <3>2. [previous |-> published, version |-> published + 1] \in Change
      BY <3>1 DEF Change
    <3> QED BY <3>2 DEF NewNotification, Notification, TypeInv, TypeOK
  <2>2. /\ NewNotification.change.previous # NoSnapshot
        /\ NewNotification.change.version = published + 1
        /\ NewNotification.callbacks = callbacks
    BY Numbers DEF NewNotification
  <2>3. \A i \in DOMAIN notifications : notifications[i].change.previous # NoSnapshot
    BY DEF OrderInv, Newest
  <2> QED BY <1>1, <2>1, <2>2, <2>3, CoalesceOne DEF OrderInv, Queue
<1>3. /\ Dispatches' # {}
      /\ \A f \in Dispatches' : \/ f \in Dispatches
                                \/ f.change.version = NoSnapshot /\ f.todo = {}
      /\ Dispatches \subseteq Dispatches'
      /\ \A s : CallsOf(s)' = CallsOf(s)
  <2> DEFINE f == Dispatching([change |-> NoChange, callbacks |-> {}])
  <2>1. f \in Loaded /\ f.op = "dispatch" /\ f.change.version = NoSnapshot /\ f.todo = {}
    BY FrameTypes, NewFrames, Numbers DEF Dispatching
  <2> HIDE DEF f
  <2>2. CASE dispatching
    <3>1. stack' = stack
      BY <2>2 DEF Publish, BecomesDispatcher
    <3>2. Doing' = Doing
      BY <3>1 DEF Doing, Frames
    <3> QED BY <2>2, <3>2 DEF Dispatches, CallsOf, OrderInv, Queue
  <2>3. CASE ~dispatching
    <3>1. stack' = Called(t, f)
      BY <2>3 DEF Publish, BecomesDispatcher, f
    <3>2. Doing' = Doing \cup {f}
      BY <2>1, <3>1, InsideAfterCall
    <3> QED BY <2>1, <3>2 DEF Dispatches, CallsOf
  <2> QED BY <2>2, <2>3
<1>4. \A s \in Slots, v \in Int : Behind(s, v)' <=> Behind(s, v)
  BY <1>1, <1>3 DEF Behind
<1>5. \A s \in Slots : Behind(s, published + 1) <=> phase[s] # "unused"
  BY Numbers DEF Behind, OrderInv, Known, Buffer, InCall
<1>6. Queue'
  BY <1>1, <1>2, <1>3 DEF Queue
<1>7. Newest'
  <2>1. \A f \in Dispatches' : f.change.version < published + 1
    BY <1>3, Numbers DEF OrderInv, Sent
  <2>2. \A s \in callbacks : s \in Slots /\ phase[s] # "unused"
    BY DEF OrderInv, Listed, TypeInv, TypeOK
  <2>3. \A s \in callbacks : Behind(s, published)'
    BY <1>1, <1>3, <1>5, <2>2 DEF Behind
  <2> QED BY <1>1, <1>2, <2>1, <2>3 DEF Newest
<1>8. Sent'
  <2> SUFFICES ASSUME NEW f \in Dispatches'
               PROVE  /\ f.change.version <= published + 1
                      /\ \A s \in f.todo : /\ f.change.previous # NoSnapshot
                                           /\ Behind(s, f.change.version)'
    BY <1>1 DEF Sent
  <2>1. CASE f \in Dispatches
    <3>1. f.change.version \in Int /\ f.todo \subseteq Slots
      BY <2>1, Numbers, FrameFields DEF Dispatches
    <3> QED BY <1>4, <2>1, <3>1, Numbers DEF OrderInv, Sent
  <2>2. CASE f.change.version = NoSnapshot /\ f.todo = {}
    BY <2>2, Numbers
  <2> QED BY <1>3, <2>1, <2>2
<1>9. Buffer'
  BY <1>1, <1>3, Numbers DEF OrderInv, Buffer
<1>10. InCall'
  BY <1>1, <1>3, Numbers DEF OrderInv, InCall
<1>11. Known' /\ Unknown' /\ Starting' /\ Listed'
  BY <1>1, <1>3, Numbers DEF OrderInv, Known, Unknown, Starting, Listed
<1>12. DeliveriesChain'
  <2>1. \A s \in Slots : \A i \in DOMAIN delivered[s] : delivered[s][i].version \in Nat
    BY ChangeTypes, Numbers DEF TypeInv, TypeOK
  <2> QED BY <1>1, <2>1, Numbers DEF OrderInv, DeliveriesChain
<1>13. \A s \in callbacks' : Coming(s)'
  BY <1>1, <1>2 DEF Coming
<1> QED BY <1>6, <1>7, <1>8, <1>9, <1>10, <1>11, <1>12, <1>13 DEF OrderInv

LEMMA OrderTakeNotification ==
  ASSUME TypeInv, FenceInv, OrderInv, NEW t \in Threads, TakeNotification(t)
  PROVE  OrderInv'
<1>1. /\ stack[t] # <<>> /\ Top(t).op = "dispatch" /\ Top(t).todo = {}
      /\ UNCHANGED <<published, callbacks, phase, lastValue, pending, token, delivered>>
  BY DEF TakeNotification, Inside, Top, slot
<1>2. /\ Top(t) \in Doing /\ Dispatches = {Top(t)}
      /\ \A f \in Doing : f.op = "dispatch" => f = Top(t)
  BY <1>1, TopKinds DEF Dispatches
<1>3. /\ dispatching' => Dispatches' # {}
      /\ notifications' = <<>> /\ DOMAIN notifications' = {} /\ Len(notifications') = 0
      /\ \A f \in Dispatches' : \E i \in DOMAIN notifications :
           /\ f.change = notifications[i].change
           /\ f.todo = notifications[i].callbacks /\ f.todo \subseteq Slots
      /\ \A i \in DOMAIN notifications : \E f \in Dispatches' :
           /\ f.change = notifications[i].change
           /\ f.todo = notifications[i].callbacks
      /\ \A s : CallsOf(s)' = CallsOf(s)
  <2>1. CASE notifications = <<>>
    <3>1. stack' = Returned(t) /\ dispatching' = FALSE /\ notifications' = notifications
      BY <2>1 DEF TakeNotification, StopsDispatching
    <3>2. Doing' = Doing \ {Top(t)}
      BY <1>1, <3>1, InsideAfterReturn
    <3>3. Dispatches' = {} /\ \A s : CallsOf(s)' = CallsOf(s)
      BY <1>1, <1>2, <3>2 DEF Dispatches, CallsOf
    <3> QED BY <2>1, <3>1, <3>3
  <2>2. CASE notifications # <<>>
    <3> DEFINE n == Head(notifications)
               f == Dispatching(n)
    <3>1. stack' = Became(t, f) /\ dispatching' = dispatching
          /\ notifications' = Tail(notifications)
      BY <2>2 DEF TakeNotification, StopsDispatching
    <3>2. /\ DOMAIN notifications = {1} /\ n = notifications[1] /\ n \in Notification
          /\ notifications' = <<>> /\ DOMAIN notifications' = {} /\ Len(notifications') = 0
      BY <2>2, <3>1, Singleton DEF OrderInv, Queue, TypeInv, TypeOK
    <3>3. n.change \in Change /\ n.callbacks \in SUBSET Slots
      BY <3>2 DEF Notification
    <3>4. /\ f \in Loaded /\ f.op = "dispatch" /\ f.change = n.change /\ f.todo = n.callbacks
      BY <3>3, FrameTypes, NewFrames DEF Dispatching
    <3> HIDE DEF n, f
    <3>5. Doing' = (Doing \ {Top(t)}) \cup {f}
      BY <1>1, <3>1, <3>4, InsideAfterReplacing
    <3>6. Dispatches' = {f} /\ \A s : CallsOf(s)' = CallsOf(s)
      BY <1>1, <1>2, <3>4, <3>5 DEF Dispatches, CallsOf
    <3> QED BY <3>2, <3>3, <3>4, <3>6
  <2> QED BY <2>1, <2>2
<1>4. \A s \in Slots, v \in Int : Behind(s, v)' <=> Behind(s, v)
  BY <1>1, <1>3 DEF Behind
<1>5. Queue' /\ Newest'
  BY <1>3 DEF Queue, Newest
<1>6. Sent'
  <2> SUFFICES ASSUME NEW f \in Dispatches'
               PROVE  /\ f.change.version <= published
                      /\ \A s \in f.todo : /\ f.change.previous # NoSnapshot
                                           /\ Behind(s, f.change.version)'
    BY <1>1 DEF Sent
  <2>1. PICK i \in DOMAIN notifications :
          /\ f.change = notifications[i].change
          /\ f.todo = notifications[i].callbacks /\ f.todo \subseteq Slots
    BY <1>3
  <2>2. /\ f.change.version = published /\ f.change.previous # NoSnapshot
        /\ \A s \in f.todo : Behind(s, published)
    BY <2>1 DEF OrderInv, Newest
  <2> QED BY <1>4, <2>1, <2>2, Numbers
<1>7. Buffer' /\ InCall'
  BY <1>1, <1>3 DEF OrderInv, Buffer, InCall
<1>8. Known' /\ Unknown' /\ Starting' /\ Listed' /\ DeliveriesChain'
  BY <1>1, <1>3 DEF OrderInv, Known, Unknown, Starting, Listed, DeliveriesChain
<1>9. ASSUME NEW s \in callbacks' PROVE Coming(s)'
  <2>1. Coming(s) /\ \A f \in Dispatches : s \notin f.todo
    BY <1>1, <1>2 DEF OrderInv
  <2> QED BY <1>1, <1>3, <2>1 DEF Coming
<1> QED BY <1>5, <1>6, <1>7, <1>8, <1>9 DEF OrderInv

LEMMA QueuedTypes ==
  ASSUME TypeInv, NEW i \in DOMAIN notifications
  PROVE  notifications[i].change \in Change /\ notifications[i].callbacks \subseteq Slots
<1>1. notifications[i] \in Notification
  BY DEF TypeInv, TypeOK
<1> QED BY <1>1 DEF Notification

(* The dispatcher has considered one more slot.                                    *)
LEMMA Considered ==
  ASSUME NEW f \in Loaded, f.op = "dispatch", NEW s \in f.todo
  PROVE  LET rest == [f EXCEPT !.todo = @ \ {s}]
         IN /\ rest \in Loaded /\ rest.op = "dispatch" /\ rest.change = f.change
            /\ rest.todo = f.todo \ {s}
<1> DEFINE rest == [f EXCEPT !.todo = @ \ {s}]
<1>1. f \in [op : {"dispatch"}, change : Change \cup {NoChange}, todo : SUBSET Slots]
  BY DEF Loaded, Frame
<1>2. rest = [op |-> "dispatch", change |-> f.change, todo |-> f.todo \ {s}]
  BY <1>1
<1>3. f.change \in Change /\ f.todo \ {s} \in SUBSET Slots
  BY FrameFields
<1>4. [op |-> "dispatch", change |-> f.change, todo |-> f.todo \ {s}] \in Loaded
  BY <1>3, FrameTypes
<1> QED BY <1>2, <1>4

LEMMA OrderConsiderSlot ==
  ASSUME TypeInv, FenceInv, OrderInv, NEW t \in Threads, ConsiderSlot(t)
  PROVE  OrderInv'
<1>1. /\ stack[t] # <<>> /\ Top(t).op = "dispatch"
      /\ UNCHANGED <<published, callbacks, notifications, dispatching, phase, lastValue,
                     token, delivered>>
  BY DEF ConsiderSlot, Inside, Top, callbackState
<1>2. PICK s0 \in Top(t).todo :
        LET rest == [Top(t) EXCEPT !.todo = @ \ {s0}]
            change == Top(t).change
        IN /\ IF MustBuffer(s0)
              THEN pending' = [pending EXCEPT ![s0] = Buffered(s0, change)]
              ELSE UNCHANGED pending
           /\ stack' = IF phase[s0] = "active"
                       THEN [stack EXCEPT ![t] = <<Entering(s0, change), rest>> \o Tail(@)]
                       ELSE Became(t, rest)
  BY DEF ConsiderSlot
<1> DEFINE c == Top(t).change
           v0 == c.version
           rest == [Top(t) EXCEPT !.todo = @ \ {s0}]
           e == Entering(s0, c)
<1>3. /\ Top(t) \in Loaded /\ Top(t) \in Doing /\ Dispatches = {Top(t)}
      /\ \A f \in Doing : f.op = "dispatch" => f = Top(t)
  BY <1>1, TopKinds DEF Dispatches
<1>4. c \in Change /\ s0 \in Slots /\ Top(t).todo \in SUBSET Slots
  BY <1>1, <1>2, <1>3, FrameFields
<1>5. /\ rest \in Loaded /\ rest.op = "dispatch" /\ rest.change = c
      /\ rest.todo = Top(t).todo \ {s0}
  BY <1>1, <1>2, <1>3, Considered
<1>6. e \in Loaded /\ e.op = "enter" /\ e.slot = s0 /\ e.change = c
  BY <1>4, FrameTypes, NewFrames
<1>7. /\ Behind(s0, v0) /\ c.previous # NoSnapshot /\ v0 <= published /\ v0 \in Int
      /\ \A s \in Top(t).todo : Behind(s, v0)
      /\ \A i \in DOMAIN notifications : v0 < published
  BY <1>2, <1>3, Numbers DEF OrderInv, Sent, Newest
<1>8. \A s \in Slots :
        \/ pending'[s] = pending[s]
        \/ /\ s = s0 /\ phase[s0] = "initializing" /\ pending'[s] # NoChange
           /\ pending'[s].version = v0 /\ pending'[s].previous # NoSnapshot
  <2>1. CASE MustBuffer(s0)
    <3>1. pending' = [pending EXCEPT ![s0] = Buffered(s0, c)] /\ phase[s0] = "initializing"
      BY <1>2, <2>1 DEF MustBuffer
    <3>2. /\ Buffered(s0, c) # NoChange
          /\ Buffered(s0, c).version = v0 /\ Buffered(s0, c).previous # NoSnapshot
      <4>1. CASE pending[s0] = NoChange
        <5>1. c # NoChange
          BY <1>7, Numbers DEF NoChange
        <5> QED BY <1>7, <4>1, <5>1 DEF Buffered
      <4>2. CASE pending[s0] # NoChange
        <5>1. pending[s0] \in Change /\ pending[s0].previous # NoSnapshot
          BY <1>4, <4>2, Numbers DEF OrderInv, Buffer
        <5> DEFINE b == [pending[s0] EXCEPT !.version = v0]
        <5>2. b.version = v0 /\ b.previous = pending[s0].previous
          BY <5>1 DEF Change
        <5> HIDE DEF b
        <5>3. b # NoChange
          BY <5>1, <5>2 DEF NoChange
        <5> QED BY <4>2, <5>1, <5>2, <5>3 DEF Buffered, b
      <4> QED BY <4>1, <4>2
    <3> QED BY <1>4, <3>1, <3>2 DEF TypeInv, TypeOK
  <2>2. CASE ~MustBuffer(s0)
    <3>1. pending' = pending
      BY <1>2, <2>2
    <3> QED BY <3>1
  <2> QED BY <2>1, <2>2
<1>9. phase[s0] = "initializing" => pending'[s0].version = v0
  <2> SUFFICES ASSUME phase[s0] = "initializing" PROVE pending'[s0].version = v0
    OBVIOUS
  <2>1. pending' = [pending EXCEPT ![s0] = Buffered(s0, c)]
    BY <1>2 DEF MustBuffer
  <2>2. Buffered(s0, c).version = v0
    <3>1. pending[s0] # NoChange => pending[s0] \in Change
      BY <1>4, Numbers
    <3> QED BY <3>1 DEF Buffered, Change
  <2> QED BY <1>4, <2>1, <2>2 DEF TypeInv, TypeOK
<1>10. Doing' = (Doing \ {Top(t)}) \cup (IF phase[s0] = "active" THEN {rest, e} ELSE {rest})
  <2>1. CASE phase[s0] = "active"
    <3>1. stack' = [stack EXCEPT ![t] = <<e, rest>> \o Tail(@)]
      BY <1>2, <2>1
    <3> HIDE DEF e, rest
    <3> QED BY <1>1, <1>5, <1>6, <2>1, <3>1, InsideAfterReplacingAndCall
  <2>2. CASE phase[s0] # "active"
    <3>1. stack' = Became(t, rest)
      BY <1>2, <2>2
    <3> HIDE DEF e, rest
    <3> QED BY <1>1, <1>5, <2>2, <3>1, InsideAfterReplacing
  <2> QED BY <2>1, <2>2
<1> HIDE DEF e, rest, c, v0
<1>11. /\ Dispatches' = {rest}
       /\ \A s : CallsOf(s)' = CallsOf(s) \cup (IF s = s0 /\ phase[s0] = "active"
                                                THEN {e} ELSE {})
  BY <1>1, <1>3, <1>5, <1>6, <1>10 DEF Dispatches, CallsOf
<1>12. ASSUME NEW s \in Slots, NEW v \in Int, Behind(s, v), s # s0 \/ v0 < v
       PROVE  Behind(s, v)'
  BY <1>1, <1>6, <1>8, <1>11, <1>12 DEF Behind, v0
<1>13. Queue'
  BY <1>1, <1>11 DEF OrderInv, Queue
<1>14. Newest'
  <2>1. rest.change.version = v0
    BY <1>5 DEF v0
  <2>2. \A i \in DOMAIN notifications : \A s \in notifications[i].callbacks : s \in Slots
    BY QueuedTypes
  <2>3. \A i \in DOMAIN notifications : \A s \in notifications[i].callbacks :
          Behind(s, published)'
    <3> SUFFICES ASSUME NEW i \in DOMAIN notifications, NEW s \in notifications[i].callbacks
                 PROVE  Behind(s, published)'
      OBVIOUS
    <3>1. Behind(s, published) /\ s \in Slots /\ v0 < published /\ published \in Int
      BY <1>7, <2>2, Numbers DEF OrderInv, Newest
    <3>2. PICK v \in Int : v = published
      BY <3>1
    <3>3. Behind(s, v)'
      BY <1>12, <3>1, <3>2
    <3> QED BY <1>1, <3>2, <3>3 DEF Behind
  <2> QED BY <1>1, <1>7, <1>11, <2>1, <2>3 DEF OrderInv, Newest
<1>15. Sent'
  <2>1. rest.change.version = v0 /\ rest.change.previous # NoSnapshot
    BY <1>5, <1>7 DEF v0
  <2>2. \A s \in rest.todo, v \in Int : v = v0 => Behind(s, v)'
    BY <1>4, <1>5, <1>7, <1>12
  <2> QED BY <1>1, <1>7, <1>11, <2>1, <2>2 DEF Sent
<1>16. Buffer'
  <2> SUFFICES ASSUME NEW s \in Slots, pending'[s] # NoChange
               PROVE  /\ phase[s] = "initializing"
                      /\ pending'[s].previous # NoSnapshot /\ pending'[s].version <= published
                      /\ lastValue[s] < pending'[s].version
                      /\ \A f \in CallsOf(s)' : f.change.version < pending'[s].version
    BY <1>1 DEF Buffer
  <2>1. CASE pending'[s] = pending[s]
    <3>1. /\ phase[s] = "initializing"
          /\ pending[s].previous # NoSnapshot /\ pending[s].version <= published
          /\ lastValue[s] < pending[s].version
          /\ \A f \in CallsOf(s) : f.change.version < pending[s].version
      BY <2>1 DEF OrderInv, Buffer
    <3>2. CallsOf(s)' = CallsOf(s)
      BY <1>11, <3>1
    <3> QED BY <2>1, <3>1, <3>2
  <2>2. CASE s = s0 /\ phase[s0] = "initializing" /\ pending'[s].version = v0
             /\ pending'[s].previous # NoSnapshot
    <3>1. CallsOf(s)' = CallsOf(s)
      BY <1>11, <2>2
    <3> QED BY <1>7, <2>2, <3>1 DEF Behind
  <2> QED BY <1>8, <2>1, <2>2
<1>17. InCall'
  <2>1. e.change.version = v0 /\ e.change.previous # NoSnapshot /\ e.op = "enter"
    BY <1>6, <1>7 DEF v0
  <2>2. lastValue[s0] < v0 /\ v0 <= published /\ lastValue[s0] \in Int
    BY <1>4, <1>7, Numbers DEF Behind
  <2> QED BY <1>1, <1>7, <1>11, <2>1, <2>2 DEF OrderInv, InCall
<1>18. Known'
  BY <1>1, <1>11 DEF OrderInv, Known
<1>19. Unknown' /\ Starting' /\ Listed' /\ DeliveriesChain'
  BY <1>1, <1>7, <1>11 DEF OrderInv, Unknown, Starting, Listed, DeliveriesChain
<1>20. ASSUME NEW s \in callbacks' PROVE Coming(s)'
  <2>1. Coming(s) /\ s \in Slots /\ phase[s] \in {"initializing", "active"}
    BY <1>1 DEF OrderInv, Listed, TypeInv, TypeOK
  <2>2. CASE \E f \in Dispatches : f.change.version = published /\ s \in f.todo
    <3>1. v0 = published /\ s \in Top(t).todo
      BY <1>3, <2>2 DEF v0, c
    <3>2. CASE s # s0
      BY <1>1, <1>5, <1>11, <3>1, <3>2 DEF Coming, v0
    <3>3. CASE s = s0 /\ phase[s] = "initializing"
      BY <1>1, <1>9, <3>1, <3>3 DEF Coming
    <3>4. CASE s = s0 /\ phase[s] = "active"
      BY <1>1, <1>6, <1>11, <3>1, <3>4 DEF Coming, v0
    <3> QED BY <2>1, <3>2, <3>3, <3>4
  <2>3. CASE pending[s].version = published
    <3>1. CASE pending'[s] = pending[s]
      BY <1>1, <2>3, <3>1 DEF Coming
    <3>2. CASE s = s0
      BY <1>7, <2>3, <3>2, Numbers DEF Behind
    <3> QED BY <1>8, <2>1, <3>1, <3>2
  <2>4. CASE \/ lastValue[s] = published
             \/ \E i \in DOMAIN notifications :
                  /\ notifications[i].change.version = published
                  /\ s \in notifications[i].callbacks
             \/ \E f \in CallsOf(s) : f.change.version = published
    BY <1>1, <1>11, <2>4 DEF Coming
  <2> QED BY <2>1, <2>2, <2>3, <2>4 DEF Coming
<1> QED BY <1>13, <1>14, <1>15, <1>16, <1>17, <1>18, <1>19, <1>20 DEF OrderInv

LEMMA Appended ==
  ASSUME NEW q \in Seq(Change), NEW c \in Change
  PROVE  /\ Append(q, c) # <<>> /\ LastOf(Append(q, c)) = c
         /\ Len(q) \in Nat /\ DOMAIN q = 1 .. Len(q)
         /\ Len(Append(q, c)) = Len(q) + 1 /\ DOMAIN Append(q, c) = 1 .. Len(q) + 1
         /\ \A i \in 1 .. Len(q) : Append(q, c)[i] = q[i]
         /\ Append(q, c)[Len(q) + 1] = c
         /\ q # <<>> => LastOf(q) = q[Len(q)] /\ Len(q) # 0
<1>1. /\ Len(q) \in Nat /\ DOMAIN q = 1 .. Len(q)
      /\ Len(Append(q, c)) = Len(q) + 1 /\ DOMAIN Append(q, c) = 1 .. Len(q) + 1
      /\ \A i \in 1 .. Len(q) : Append(q, c)[i] = q[i]
      /\ Append(q, c)[Len(q) + 1] = c
  OBVIOUS
<1>2. Append(q, c) # <<>>
  <2>1. Append(q, c)[Len(q) + 1] = c /\ Len(q) + 1 \in DOMAIN Append(q, c)
    BY <1>1
  <2>2. DOMAIN <<>> = {}
    OBVIOUS
  <2> QED BY <2>1, <2>2
<1>3. q # <<>> => LastOf(q) = q[Len(q)] /\ Len(q) # 0
  BY DEF LastOf
<1> QED BY <1>1, <1>2, <1>3 DEF LastOf

(* Observers are chained when one more change is given to one of them, after its   *)
(* last one.                                                                       *)
LEMMA ChainGrows ==
  ASSUME TypeInv, DeliveriesChain, NEW s0 \in Slots, NEW c \in Change,
         c.version <= published, c.previous < c.version,
         delivered[s0] # <<>> => c.previous = LastOf(delivered[s0]).version,
         delivered' = [delivered EXCEPT ![s0] = Append(@, c)], published' = published
  PROVE  DeliveriesChain'
<1>1. delivered[s0] \in Seq(Change) /\ delivered'[s0] = Append(delivered[s0], c)
      /\ \A s \in Slots : s # s0 => delivered'[s] = delivered[s]
  BY DEF TypeInv, TypeOK
<1>2. ASSUME NEW s \in Slots, NEW i \in DOMAIN delivered'[s]
      PROVE  /\ delivered'[s][i].version <= published
             /\ delivered'[s][i].previous < delivered'[s][i].version
             /\ i > 1 => delivered'[s][i].previous = delivered'[s][i - 1].version
  <2>1. CASE s # s0
    BY <1>1, <2>1 DEF DeliveriesChain
  <2>2. CASE s = s0
    <3> DEFINE q == delivered[s0]
               r == delivered'[s0]
    <3>1. /\ Len(q) \in Nat /\ DOMAIN q = 1 .. Len(q) /\ DOMAIN r = 1 .. Len(q) + 1
          /\ \A j \in 1 .. Len(q) : r[j] = q[j]
          /\ r[Len(q) + 1] = c
          /\ q # <<>> => LastOf(q) = q[Len(q)] /\ Len(q) # 0
      BY <1>1, Appended
    <3>2. \A j \in 1 .. Len(q) : /\ q[j].version <= published /\ q[j].previous < q[j].version
                                 /\ j > 1 => q[j].previous = q[j - 1].version
      BY <3>1 DEF DeliveriesChain
    <3>3. q = <<>> => Len(q) = 0
      OBVIOUS
    <3> HIDE DEF q, r
    <3>4. CASE i = Len(q) + 1
      <4>1. r[i] = c
        BY <3>1, <3>4
      <4>2. ASSUME i > 1 PROVE r[i].previous = r[i - 1].version
        <5>1. Len(q) # 0 /\ i - 1 = Len(q) /\ i - 1 \in 1 .. Len(q)
          BY <3>1, <3>4, <4>2
        <5>2. q # <<>>
          BY <3>3, <5>1
        <5>3. r[i - 1] = LastOf(q)
          BY <3>1, <5>1, <5>2
        <5> QED BY <4>1, <5>2, <5>3 DEF q
      <4> QED BY <2>2, <4>1, <4>2 DEF r
    <3>5. CASE i \in 1 .. Len(q)
      <4>1. r[i] = q[i]
        BY <3>1, <3>5
      <4>2. i > 1 => i - 1 \in 1 .. Len(q)
        BY <3>1, <3>5
      <4>3. i > 1 => r[i - 1] = q[i - 1]
        BY <3>1, <4>2
      <4> QED BY <2>2, <3>2, <3>5, <4>1, <4>3 DEF r
    <3>6. i \in 1 .. Len(q) + 1
      BY <2>2, <3>1 DEF r
    <3> QED BY <3>1, <3>4, <3>5, <3>6
  <2> QED BY <2>1, <2>2
<1> QED BY <1>2 DEF DeliveriesChain

LEMMA OrderEnterCallback ==
  ASSUME TypeInv, FenceInv, OrderInv, NEW t \in Threads, EnterCallback(t)
  PROVE  OrderInv'
<1>0. PICK s0 : s0 = Top(t).slot
  OBVIOUS
<1> DEFINE c == Top(t).change
           d == Rebased(s0, c)
           f0 == Invoking(s0, d)
<1>1. /\ stack[t] # <<>> /\ Top(t).op = "enter"
      /\ UNCHANGED <<published, callbacks, notifications, dispatching, phase, lastValue,
                     pending, token>>
  BY DEF EnterCallback, Inside, Top, callbackState
<1>2. IF MayInvoke(s0)
      THEN /\ stack' = Became(t, f0)
           /\ delivered' = [delivered EXCEPT ![s0] = Append(@, d)]
      ELSE stack' = Returned(t) /\ delivered' = delivered
  BY <1>0 DEF EnterCallback
<1>3. /\ Top(t) \in Loaded /\ Top(t) \in Doing /\ CallsOf(s0) = {Top(t)} /\ s0 \in Slots
      /\ Top(t) \in CallsOf(s0) /\ c \in Change
      /\ \A f \in Doing : f.op \in {"enter", "invoke"} /\ f.slot = s0 => f = Top(t)
  BY <1>0, <1>1, TopKinds, FrameFields DEF CallsOf
<1>4. /\ lastValue[s0] <= c.version /\ c.version <= published
      /\ c.previous = NoSnapshot => delivered[s0] = <<>> /\ phase[s0] = "initializing"
      /\ c.previous # NoSnapshot => lastValue[s0] < c.version
      /\ delivered[s0] # <<>> => lastValue[s0] = LastOf(delivered[s0]).version
      /\ c.version \in Int /\ lastValue[s0] \in Int
  BY <1>1, <1>3, Numbers DEF OrderInv, InCall, Known
<1>5. /\ d \in Change /\ d.version = c.version /\ d.previous < d.version
      /\ delivered[s0] # <<>> => d.previous = LastOf(delivered[s0]).version
  <2>1. CASE c.previous = NoSnapshot
    <3>1. d = c /\ c.version \in Nat
      BY <1>3, <2>1, ChangeTypes, Numbers DEF Rebased
    <3> QED BY <1>3, <1>4, <2>1, <3>1, Numbers
  <2>2. CASE c.previous # NoSnapshot
    <3>1. d = [c EXCEPT !.previous = lastValue[s0]]
      BY <2>2 DEF Rebased
    <3>2. lastValue[s0] \in {NoSnapshot} \cup Version
      BY <1>3 DEF TypeInv, TypeOK
    <3>3. d \in Change
      BY <1>3, <3>1, <3>2, ChangeTypes
    <3>4. d.previous = lastValue[s0] /\ d.version = c.version
      BY <1>3, <3>1 DEF Change
    <3> QED BY <1>4, <2>2, <3>3, <3>4
  <2> QED BY <2>1, <2>2
<1>6. f0 \in Loaded /\ f0.op = "invoke" /\ f0.slot = s0 /\ f0.change = d
  BY <1>3, <1>5, FrameTypes, NewFrames
<1>7. Doing' = (Doing \ {Top(t)}) \cup (IF MayInvoke(s0) THEN {f0} ELSE {})
  <2>1. CASE MayInvoke(s0)
    <3>1. stack' = Became(t, f0)
      BY <1>2, <2>1
    <3> QED BY <1>1, <1>6, <2>1, <3>1, InsideAfterReplacing
  <2>2. CASE ~MayInvoke(s0)
    <3>1. stack' = Returned(t)
      BY <1>2, <2>2
    <3> QED BY <1>1, <2>2, <3>1, InsideAfterReturn
  <2> QED BY <2>1, <2>2
<1> HIDE DEF f0, d, c
<1>8. /\ Dispatches' = Dispatches
      /\ \A s : s # s0 => CallsOf(s)' = CallsOf(s)
      /\ CallsOf(s0)' = IF MayInvoke(s0) THEN {f0} ELSE {}
  <2>1. Top(t).slot = s0
    BY <1>0
  <2>2. Dispatches' = Dispatches
    BY <1>1, <1>6, <1>7 DEF Dispatches
  <2>3. ASSUME NEW s, s # s0 PROVE CallsOf(s)' = CallsOf(s)
    BY <1>6, <1>7, <2>1, <2>3 DEF CallsOf
  <2>4. CallsOf(s0)' = IF MayInvoke(s0) THEN {f0} ELSE {}
    BY <1>3, <1>6, <1>7 DEF CallsOf
  <2> QED BY <2>2, <2>3, <2>4
<1>9. \A s \in Slots : \A f \in CallsOf(s)' : \E g \in CallsOf(s) :
        f.change.version = g.change.version
  BY <1>3, <1>5, <1>6, <1>8 DEF c
<1>10. \A s \in Slots, v \in Int : Behind(s, v) => Behind(s, v)'
  BY <1>1, <1>9 DEF Behind
<1>11. Queue'
  BY <1>1, <1>8 DEF OrderInv, Queue
<1>12. Newest'
  <2>1. \A i \in DOMAIN notifications : \A s \in notifications[i].callbacks : s \in Slots
    BY QueuedTypes
  <2>2. \A s \in Slots : Behind(s, published) => Behind(s, published)'
    BY <1>1, <1>9 DEF Behind
  <2> QED BY <1>1, <1>8, <2>1, <2>2 DEF OrderInv, Newest
<1>13. Sent'
  <2>1. \A f \in Dispatches : f.todo \subseteq Slots /\ f.change.version \in Int
    BY FrameFields, Numbers DEF Dispatches
  <2> QED BY <1>1, <1>8, <1>10, <2>1 DEF OrderInv, Sent
<1>14. Buffer'
  BY <1>1, <1>9 DEF OrderInv, Buffer
<1>15. \A s \in Slots : /\ s # s0 => delivered'[s] = delivered[s]
                        /\ ~MayInvoke(s0) => delivered'[s] = delivered[s]
  BY <1>2 DEF TypeInv, TypeOK
<1>16. MayInvoke(s0) => delivered'[s0] # <<>> /\ LastOf(delivered'[s0]) = d
  <2> SUFFICES ASSUME MayInvoke(s0) PROVE delivered'[s0] # <<>> /\ LastOf(delivered'[s0]) = d
    OBVIOUS
  <2>1. delivered[s0] \in Seq(Change) /\ delivered'[s0] = Append(delivered[s0], d)
    BY <1>2, <1>3 DEF TypeInv, TypeOK
  <2> QED BY <1>5, <2>1, Appended
<1>17. InCall'
  <2> SUFFICES ASSUME NEW s \in Slots, NEW f \in CallsOf(s)'
               PROVE  /\ lastValue[s] <= f.change.version /\ f.change.version <= published
                      /\ f.op = "enter" /\ f.change.previous = NoSnapshot =>
                           delivered'[s] = <<>> /\ phase[s] = "initializing"
                      /\ f.op = "enter" /\ f.change.previous # NoSnapshot =>
                           lastValue[s] < f.change.version
                      /\ f.op = "invoke" => /\ delivered'[s] # <<>>
                                            /\ f.change = LastOf(delivered'[s])
    BY <1>1 DEF InCall
  <2>1. CASE s = s0
    <3>1. f = f0 /\ MayInvoke(s0)
      BY <1>8, <2>1
    <3> QED BY <1>4, <1>5, <1>6, <1>16, <2>1, <3>1
  <2>2. CASE s # s0
    BY <1>8, <1>15, <2>2 DEF OrderInv, InCall
  <2> QED BY <2>1, <2>2
<1>18. Known'
  <2> SUFFICES ASSUME NEW s \in Slots
               PROVE  /\ lastValue[s] <= published
                      /\ delivered'[s] # <<>> /\ (\A f \in CallsOf(s)' : f.op = "enter") =>
                           lastValue[s] = LastOf(delivered'[s]).version
    BY <1>1 DEF Known
  <2>1. CASE s = s0 /\ MayInvoke(s0)
    BY <1>6, <1>8, <2>1 DEF OrderInv, Known
  <2>2. CASE s = s0 /\ ~MayInvoke(s0)
    BY <1>4, <1>15, <2>2 DEF OrderInv, Known
  <2>3. CASE s # s0
    BY <1>8, <1>15, <2>3 DEF OrderInv, Known
  <2> QED BY <2>1, <2>2, <2>3
<1>19. Unknown'
  <2>1. phase[s0] # "unused"
    BY <1>3 DEF OrderInv, Unknown
  <2> QED BY <1>1, <1>8, <1>15, <2>1 DEF OrderInv, Unknown
<1>20. Starting'
  <2>1. phase[s0] = "initializing" => MayInvoke(s0)
    BY DEF MayInvoke
  <2> QED BY <1>1, <1>8, <1>15, <1>16, <2>1 DEF OrderInv, Starting
<1>21. Listed'
  BY <1>1 DEF OrderInv, Listed
<1>22. DeliveriesChain'
  <2>1. CASE MayInvoke(s0)
    <3>1. delivered' = [delivered EXCEPT ![s0] = Append(@, d)]
      BY <1>2, <2>1
    <3> QED BY <1>1, <1>3, <1>4, <1>5, <3>1, ChainGrows DEF OrderInv
  <2>2. CASE ~MayInvoke(s0)
    <3>1. delivered' = delivered
      BY <1>2, <2>2
    <3> QED BY <1>1, <3>1 DEF OrderInv, DeliveriesChain
  <2> QED BY <2>1, <2>2
<1>23. ASSUME NEW s \in callbacks' PROVE Coming(s)'
  <2>1. Coming(s) /\ phase[s] \in {"initializing", "active"}
    BY <1>1 DEF OrderInv, Listed
  <2>2. \A g \in CallsOf(s) : \E f \in CallsOf(s)' : f.change.version = g.change.version
    <3>1. CASE s = s0
      <4>1. MayInvoke(s0)
        BY <2>1, <3>1 DEF MayInvoke
      <4> QED BY <1>3, <1>5, <1>6, <1>8, <3>1, <4>1 DEF c
    <3>2. CASE s # s0
      BY <1>8, <3>2
    <3> QED BY <3>1, <3>2
  <2> QED BY <1>1, <1>8, <2>1, <2>2 DEF Coming
<1> QED BY <1>11, <1>12, <1>13, <1>14, <1>17, <1>18, <1>19, <1>20, <1>21, <1>22, <1>23
        DEF OrderInv

LEMMA OrderLeaveCallback ==
  ASSUME TypeInv, FenceInv, OrderInv, NEW t \in Threads, LeaveCallback(t)
  PROVE  OrderInv'
<1>0. PICK s0, v0 : s0 = Top(t).slot /\ v0 = Top(t).change.version
  OBVIOUS
<1>1. /\ stack[t] # <<>> /\ Top(t).op = "invoke" /\ stack' = Returned(t)
      /\ lastValue' = [lastValue EXCEPT ![s0] = v0]
      /\ UNCHANGED <<published, callbacks, notifications, dispatching, phase, pending,
                     token, delivered>>
  BY <1>0 DEF LeaveCallback, Inside, Top, callbackState
<1>2. /\ Top(t) \in Doing /\ CallsOf(s0) = {Top(t)} /\ s0 \in Slots
      /\ Top(t) \in CallsOf(s0) /\ v0 \in Int
      /\ \A f \in Doing : f.op \in {"enter", "invoke"} /\ f.slot = s0 => f = Top(t)
  BY <1>0, <1>1, TopKinds, Numbers DEF CallsOf
<1>3. /\ lastValue[s0] <= v0 /\ v0 <= published
      /\ delivered[s0] # <<>> /\ v0 = LastOf(delivered[s0]).version
  BY <1>0, <1>1, <1>2 DEF OrderInv, InCall
<1>4. Doing' = Doing \ {Top(t)}
  BY <1>1, InsideAfterReturn
<1>5. Dispatches' = Dispatches
  BY <1>1, <1>4 DEF Dispatches
<1>6. /\ \A s : s # s0 => CallsOf(s)' = CallsOf(s)
      /\ CallsOf(s0)' = {}
  BY <1>0, <1>2, <1>4 DEF CallsOf
<1>7. \A s \in Slots : lastValue'[s] = IF s = s0 THEN v0 ELSE lastValue[s]
  BY <1>1 DEF TypeInv, TypeOK
<1>8. \A f \in CallsOf(s0) : f.change.version = v0
  BY <1>0, <1>2
<1>9. \A s \in Slots, v \in Int : Behind(s, v) => Behind(s, v)'
  BY <1>1, <1>2, <1>6, <1>7, <1>8 DEF Behind
<1>10. Queue'
  BY <1>1, <1>5 DEF OrderInv, Queue
<1>11. Newest'
  <2>1. \A i \in DOMAIN notifications : \A s \in notifications[i].callbacks : s \in Slots
    BY QueuedTypes
  <2>2. \A s \in Slots : Behind(s, published) => Behind(s, published)'
    BY <1>1, <1>2, <1>6, <1>7, <1>8 DEF Behind
  <2> QED BY <1>1, <1>5, <2>1, <2>2 DEF OrderInv, Newest
<1>12. Sent'
  <2>1. \A f \in Dispatches : f.todo \subseteq Slots /\ f.change.version \in Int
    BY FrameFields, Numbers DEF Dispatches
  <2> QED BY <1>1, <1>5, <1>9, <2>1 DEF OrderInv, Sent
<1>13. Buffer'
  BY <1>1, <1>2, <1>6, <1>7, <1>8 DEF OrderInv, Buffer
<1>14. InCall'
  BY <1>1, <1>6, <1>7 DEF OrderInv, InCall
<1>15. Known'
  BY <1>1, <1>3, <1>6, <1>7 DEF OrderInv, Known
<1>16. Unknown'
  BY <1>1, <1>2, <1>6 DEF OrderInv, Unknown
<1>17. Starting'
  BY <1>1, <1>3, <1>6 DEF OrderInv, Starting
<1>18. Listed' /\ DeliveriesChain'
  BY <1>1 DEF OrderInv, Listed, DeliveriesChain
<1>19. ASSUME NEW s \in callbacks' PROVE Coming(s)'
  <2>1. Coming(s) /\ s \in Slots
    BY <1>1 DEF OrderInv, TypeInv, TypeOK
  <2>2. CASE s # s0
    BY <1>1, <1>5, <1>6, <1>7, <2>1, <2>2 DEF Coming
  <2>3. CASE s = s0
    <3>1. CASE lastValue[s] = published \/ \E f \in CallsOf(s) : f.change.version = published
      <4>1. v0 = published
        BY <1>2, <1>3, <1>8, <2>3, <3>1, Numbers
      <4> QED BY <1>1, <1>2, <1>7, <2>3, <4>1 DEF Coming
    <3>2. CASE ~(lastValue[s] = published \/ \E f \in CallsOf(s) : f.change.version = published)
      BY <1>1, <1>5, <2>1, <3>2 DEF Coming
    <3> QED BY <3>1, <3>2
  <2> QED BY <2>2, <2>3
<1> QED BY <1>10, <1>11, <1>12, <1>13, <1>14, <1>15, <1>16, <1>17, <1>18, <1>19 DEF OrderInv

LEMMA OrderOnChange ==
  ASSUME TypeInv, FenceInv, OrderInv, NEW t \in Threads, NEW s0 \in Slots, OnChange(t, s0)
  PROVE  OrderInv'
<1>1. /\ phase[s0] = "unused" /\ phase' = [phase EXCEPT ![s0] = "active"]
      /\ lastValue' = [lastValue EXCEPT ![s0] = published]
      /\ callbacks' = callbacks \cup {s0}
      /\ token' = [token EXCEPT ![s0] = "held"]
      /\ UNCHANGED <<published, notifications, dispatching, pending, stack, delivered>>
  BY DEF OnChange, Register
<1>2. Doing' = Doing
  BY <1>1 DEF Doing, Frames
<1>3. Dispatches' = Dispatches /\ \A s : CallsOf(s)' = CallsOf(s)
  BY <1>2 DEF Dispatches, CallsOf
<1>4. /\ \A s \in Slots : phase'[s] = IF s = s0 THEN "active" ELSE phase[s]
      /\ \A s \in Slots : lastValue'[s] = IF s = s0 THEN published ELSE lastValue[s]
      /\ \A s \in Slots : token'[s] = IF s = s0 THEN "held" ELSE token[s]
  BY <1>1 DEF TypeInv, TypeOK
<1>5. CallsOf(s0) = {} /\ delivered[s0] = <<>> /\ pending[s0] = NoChange
  BY <1>1 DEF OrderInv, Unknown, Buffer
<1>6. \A s \in Slots, v \in Int : Behind(s, v) => Behind(s, v)'
  BY <1>1, <1>3, <1>4 DEF Behind
<1>7. Queue'
  BY <1>1, <1>3 DEF OrderInv, Queue
<1>8. Newest'
  <2>1. \A i \in DOMAIN notifications : \A s \in notifications[i].callbacks : s \in Slots
    BY QueuedTypes
  <2>2. \A s \in Slots : Behind(s, published) => Behind(s, published)'
    BY <1>1, <1>3, <1>4 DEF Behind
  <2> QED BY <1>1, <1>3, <2>1, <2>2 DEF OrderInv, Newest
<1>9. Sent'
  <2>1. \A f \in Dispatches : f.todo \subseteq Slots /\ f.change.version \in Int
    BY FrameFields, Numbers DEF Dispatches
  <2> QED BY <1>1, <1>3, <1>6, <2>1 DEF OrderInv, Sent
<1>10. Buffer'
  BY <1>1, <1>3, <1>4, <1>5 DEF OrderInv, Buffer
<1>11. InCall'
  BY <1>1, <1>3, <1>4, <1>5 DEF OrderInv, InCall
<1>12. Known'
  BY <1>1, <1>3, <1>4, <1>5, Numbers DEF OrderInv, Known
<1>13. Unknown' /\ Starting'
  BY <1>1, <1>3, <1>4, <1>5 DEF OrderInv, Unknown, Starting
<1>14. Listed'
  <2>1. callbacks \subseteq Slots
    BY DEF TypeInv, TypeOK
  <2> QED BY <1>1, <1>4, <2>1 DEF OrderInv, Listed
<1>15. DeliveriesChain'
  BY <1>1 DEF OrderInv, DeliveriesChain
<1>16. ASSUME NEW s \in callbacks' PROVE Coming(s)'
  <2>1. CASE s = s0
    BY <1>1, <1>4, <2>1 DEF Coming
  <2>2. CASE s # s0
    <3>1. Coming(s) /\ s \in Slots
      BY <1>1, <2>2 DEF OrderInv, TypeInv, TypeOK
    <3> QED BY <1>1, <1>3, <1>4, <2>2, <3>1 DEF Coming
  <2> QED BY <2>1, <2>2
<1> QED BY <1>7, <1>8, <1>9, <1>10, <1>11, <1>12, <1>13, <1>14, <1>15, <1>16 DEF OrderInv

LEMMA OrderObserve ==
  ASSUME TypeInv, FenceInv, OrderInv, NEW t \in Threads, NEW s0 \in Slots, Observe(t, s0)
  PROVE  OrderInv'
<1> DEFINE c == [previous |-> NoSnapshot, version |-> published]
           f == Observing(s0)
           e == Entering(s0, c)
<1>1. /\ phase[s0] = "unused" /\ phase' = [phase EXCEPT ![s0] = "initializing"]
      /\ lastValue' = [lastValue EXCEPT ![s0] = published]
      /\ callbacks' = callbacks \cup {s0}
      /\ stack' = [stack EXCEPT ![t] = <<e, f>> \o @]
      /\ UNCHANGED <<published, notifications, dispatching, pending, token, delivered>>
  BY DEF Observe, Register, InitialPhase
<1>2. /\ e \in Loaded /\ e.op = "enter" /\ e.slot = s0
      /\ e.change.previous = NoSnapshot /\ e.change.version = published
      /\ f \in Loaded /\ f.op = "observe"
  <2>1. c \in Change /\ c.previous = NoSnapshot /\ c.version = published
    BY ChangeTypes DEF TypeInv, TypeOK
  <2> HIDE DEF c
  <2> QED BY <2>1, FrameTypes, NewFrames
<1> HIDE DEF e, f, c
<1>3. Doing' = Doing \cup {f, e}
  BY <1>1, <1>2, InsideAfterTwoCalls
<1>4. /\ Dispatches' = Dispatches
      /\ \A s : CallsOf(s)' = CallsOf(s) \cup (IF s = s0 THEN {e} ELSE {})
  BY <1>2, <1>3 DEF Dispatches, CallsOf
<1>5. /\ \A s \in Slots : phase'[s] = IF s = s0 THEN "initializing" ELSE phase[s]
      /\ \A s \in Slots : lastValue'[s] = IF s = s0 THEN published ELSE lastValue[s]
  BY <1>1 DEF TypeInv, TypeOK
<1>6. /\ CallsOf(s0) = {} /\ delivered[s0] = <<>> /\ pending[s0] = NoChange
      /\ token[s0] = "none"
  BY <1>1 DEF OrderInv, Unknown, Buffer, FenceInv, Lifecycle
<1>7. \A s \in Slots, v \in Int : Behind(s, v) => Behind(s, v)'
  BY <1>1, <1>4, <1>5 DEF Behind
<1>8. Queue'
  BY <1>1, <1>4 DEF OrderInv, Queue
<1>9. Newest'
  <2>1. \A i \in DOMAIN notifications : \A s \in notifications[i].callbacks : s \in Slots
    BY QueuedTypes
  <2>2. \A s \in Slots : Behind(s, published) => Behind(s, published)'
    BY <1>1, <1>4, <1>5 DEF Behind
  <2> QED BY <1>1, <1>4, <2>1, <2>2 DEF OrderInv, Newest
<1>10. Sent'
  <2>1. \A g \in Dispatches : g.todo \subseteq Slots /\ g.change.version \in Int
    BY FrameFields, Numbers DEF Dispatches
  <2> QED BY <1>1, <1>4, <1>7, <2>1 DEF OrderInv, Sent
<1>11. Buffer'
  BY <1>1, <1>4, <1>5, <1>6 DEF OrderInv, Buffer
<1>12. InCall'
  <2>1. \A s \in Slots : s # s0 => CallsOf(s)' = CallsOf(s) /\ phase'[s] = phase[s]
                                   /\ lastValue'[s] = lastValue[s]
    BY <1>4, <1>5
  <2>2. CallsOf(s0)' = {e} /\ phase'[s0] = "initializing" /\ lastValue'[s0] = published
    BY <1>4, <1>5, <1>6
  <2> QED BY <1>1, <1>2, <1>6, <2>1, <2>2, Numbers DEF OrderInv, InCall
<1>13. Known'
  BY <1>1, <1>4, <1>5, <1>6, Numbers DEF OrderInv, Known
<1>14. Unknown'
  BY <1>1, <1>4, <1>5 DEF OrderInv, Unknown
<1>15. Starting'
  BY <1>1, <1>2, <1>4, <1>5 DEF OrderInv, Starting
<1>16. Listed'
  <2>1. callbacks \subseteq Slots
    BY DEF TypeInv, TypeOK
  <2> QED BY <1>1, <1>5, <1>6, <2>1 DEF OrderInv, Listed
<1>17. DeliveriesChain'
  BY <1>1 DEF OrderInv, DeliveriesChain
<1>18. ASSUME NEW s \in callbacks' PROVE Coming(s)'
  <2>1. CASE s = s0
    BY <1>1, <1>5, <2>1 DEF Coming
  <2>2. CASE s # s0
    <3>1. Coming(s) /\ s \in Slots
      BY <1>1, <2>2 DEF OrderInv, TypeInv, TypeOK
    <3> QED BY <1>1, <1>4, <1>5, <2>2, <3>1 DEF Coming
  <2> QED BY <2>1, <2>2
<1> QED BY <1>8, <1>9, <1>10, <1>11, <1>12, <1>13, <1>14, <1>15, <1>16, <1>17, <1>18
        DEF OrderInv

LEMMA OrderDrainPending ==
  ASSUME TypeInv, FenceInv, OrderInv, NEW t \in Threads, DrainPending(t)
  PROVE  OrderInv'
<1>0. PICK s0 : s0 = Top(t).slot
  OBVIOUS
<1>1. /\ stack[t] # <<>> /\ Top(t).op = "observe"
      /\ UNCHANGED <<published, callbacks, notifications, dispatching, lastValue, delivered>>
  BY DEF DrainPending, Inside, Top, callbackState
<1>2. /\ s0 \in Slots /\ CallsOf(s0) = {} /\ phase[s0] = "initializing"
  BY <1>0, <1>1, TopKinds
<1>3. delivered[s0] # <<>>
  BY <1>2 DEF OrderInv, Starting
<1>4. CASE pending[s0] = NoChange
  <2>1. /\ phase' = [phase EXCEPT ![s0] = "active"]
        /\ token' = [token EXCEPT ![s0] = "held"]
        /\ stack' = Returned(t)
        /\ pending' = pending
    BY <1>0, <1>4 DEF DrainPending, EndsInitialization
  <2>2. Doing' = Doing \ {Top(t)}
    BY <1>1, <2>1, InsideAfterReturn
  <2>3. Dispatches' = Dispatches /\ \A s : CallsOf(s)' = CallsOf(s)
    BY <1>1, <2>2 DEF Dispatches, CallsOf
  <2>4. /\ \A s \in Slots : phase'[s] = IF s = s0 THEN "active" ELSE phase[s]
        /\ \A s \in Slots : token'[s] = IF s = s0 THEN "held" ELSE token[s]
    BY <2>1 DEF TypeInv, TypeOK
  <2>5. \A s \in Slots, v \in Int : Behind(s, v) => Behind(s, v)'
    BY <1>1, <2>1, <2>3, <2>4 DEF Behind
  <2>6. Queue'
    BY <1>1, <2>3 DEF OrderInv, Queue
  <2>7. Newest'
    <3>1. \A i \in DOMAIN notifications : \A s \in notifications[i].callbacks : s \in Slots
      BY QueuedTypes
    <3>2. \A s \in Slots : Behind(s, published) => Behind(s, published)'
      BY <1>1, <2>1, <2>3, <2>4 DEF Behind
    <3> QED BY <1>1, <2>3, <3>1, <3>2 DEF OrderInv, Newest
  <2>8. Sent'
    <3>1. \A f \in Dispatches : f.todo \subseteq Slots /\ f.change.version \in Int
      BY FrameFields, Numbers DEF Dispatches
    <3> QED BY <1>1, <2>3, <2>5, <3>1 DEF OrderInv, Sent
  <2>9. Buffer'
    BY <1>1, <1>4, <2>1, <2>3, <2>4 DEF OrderInv, Buffer
  <2>10. InCall'
    BY <1>1, <1>2, <2>3, <2>4 DEF OrderInv, InCall
  <2>11. Known' /\ DeliveriesChain'
    BY <1>1, <2>3 DEF OrderInv, Known, DeliveriesChain
  <2>12. Unknown' /\ Starting'
    BY <1>1, <1>2, <2>3, <2>4 DEF OrderInv, Unknown, Starting
  <2>13. Listed'
    <3>1. callbacks \subseteq Slots
      BY DEF TypeInv, TypeOK
    <3> QED BY <1>1, <2>4, <3>1 DEF OrderInv, Listed
  <2>14. \A s \in callbacks' : Coming(s)'
    BY <1>1, <2>1, <2>3 DEF OrderInv, Coming
  <2> QED BY <2>6, <2>7, <2>8, <2>9, <2>10, <2>11, <2>12, <2>13, <2>14 DEF OrderInv
<1>5. CASE pending[s0] # NoChange
  <2> DEFINE e == Entering(s0, pending[s0])
  <2>1. /\ stack' = Called(t, e)
        /\ pending' = [pending EXCEPT ![s0] = NoChange]
        /\ UNCHANGED <<phase, token>>
    BY <1>0, <1>5 DEF DrainPending, EndsInitialization
  <2>2. /\ pending[s0].previous # NoSnapshot /\ pending[s0].version <= published
        /\ lastValue[s0] < pending[s0].version
        /\ pending[s0] \in Change /\ lastValue[s0] \in Int /\ pending[s0].version \in Int
        /\ NoSnapshot <= lastValue[s0]
    BY <1>2, <1>5, Numbers DEF OrderInv, Buffer
  <2>3. e \in Loaded /\ e.op = "enter" /\ e.slot = s0 /\ e.change = pending[s0]
    BY <1>2, <2>2, FrameTypes, NewFrames
  <2> HIDE DEF e
  <2>4. Doing' = Doing \cup {e}
    BY <2>1, <2>3, InsideAfterCall
  <2>5. /\ Dispatches' = Dispatches
        /\ \A s : s # s0 => CallsOf(s)' = CallsOf(s)
        /\ CallsOf(s0)' = {e}
    <3>1. \A s : CallsOf(s)' = CallsOf(s) \cup (IF s = s0 THEN {e} ELSE {})
      BY <2>3, <2>4 DEF CallsOf
    <3>2. Dispatches' = Dispatches
      BY <2>3, <2>4 DEF Dispatches
    <3> QED BY <1>2, <3>1, <3>2
  <2>6. \A s \in Slots : pending'[s] = IF s = s0 THEN NoChange ELSE pending[s]
    BY <2>1 DEF TypeInv, TypeOK
  <2>7. \A s \in Slots, v \in Int : Behind(s, v) => Behind(s, v)'
    BY <1>1, <2>1, <2>2, <2>3, <2>5, <2>6, Numbers DEF Behind
  <2>8. Queue'
    BY <1>1, <2>5 DEF OrderInv, Queue
  <2>9. Newest'
    <3>1. \A i \in DOMAIN notifications : \A s \in notifications[i].callbacks : s \in Slots
      BY QueuedTypes
    <3>2. \A s \in Slots : Behind(s, published) => Behind(s, published)'
      BY <1>1, <2>1, <2>2, <2>3, <2>5, <2>6, Numbers DEF Behind
    <3> QED BY <1>1, <2>5, <3>1, <3>2 DEF OrderInv, Newest
  <2>10. Sent'
    <3>1. \A f \in Dispatches : f.todo \subseteq Slots /\ f.change.version \in Int
      BY FrameFields, Numbers DEF Dispatches
    <3> QED BY <1>1, <2>5, <2>7, <3>1 DEF OrderInv, Sent
  <2>11. Buffer'
    BY <1>1, <2>1, <2>5, <2>6 DEF OrderInv, Buffer
  <2>12. InCall'
    BY <1>1, <2>1, <2>2, <2>3, <2>5 DEF OrderInv, InCall
  <2>13. Known'
    <3>1. lastValue[s0] = LastOf(delivered[s0]).version
      BY <1>2, <1>3 DEF OrderInv, Known
    <3> QED BY <1>1, <2>5, <3>1 DEF OrderInv, Known
  <2>14. Unknown' /\ Starting'
    BY <1>1, <1>2, <1>3, <2>1, <2>5 DEF OrderInv, Unknown, Starting
  <2>15. Listed' /\ DeliveriesChain'
    BY <1>1, <2>1 DEF OrderInv, Listed, DeliveriesChain
  <2>16. ASSUME NEW s \in callbacks' PROVE Coming(s)'
    <3>1. Coming(s) /\ s \in Slots
      BY <1>1 DEF OrderInv, TypeInv, TypeOK
    <3>2. CASE s # s0
      BY <1>1, <2>5, <2>6, <3>1, <3>2 DEF Coming
    <3>3. CASE s = s0
      BY <1>1, <1>2, <2>3, <2>5, <3>1, <3>3 DEF Coming
    <3> QED BY <3>2, <3>3
  <2> QED BY <2>8, <2>9, <2>10, <2>11, <2>12, <2>13, <2>14, <2>15, <2>16 DEF OrderInv
<1> QED BY <1>4, <1>5

(* A step that changes neither what is to be delivered nor what was.               *)
LEMMA OrderOfNothing ==
  ASSUME TypeInv, OrderInv,
         UNCHANGED <<published, notifications, dispatching, lastValue, pending, phase,
                     delivered>>,
         Dispatches' = Dispatches, \A s : CallsOf(s)' = CallsOf(s),
         callbacks' \subseteq callbacks, Listed'
  PROVE  OrderInv'
<1>2. Queue' /\ Newest' /\ Sent'
  BY DEF OrderInv, Queue, Newest, Sent, Behind
<1>3. Buffer' /\ InCall' /\ Known' /\ Starting'
  BY DEF OrderInv, Buffer, InCall, Known, Starting
<1>4. Unknown' /\ DeliveriesChain'
  BY DEF OrderInv, Unknown, DeliveriesChain
<1>5. \A s \in callbacks' : Coming(s)'
  BY DEF OrderInv, Coming
<1> QED BY <1>2, <1>3, <1>4, <1>5 DEF OrderInv

LEMMA OrderReset ==
  ASSUME TypeInv, FenceInv, OrderInv, NEW t \in Threads, NEW s0 \in Slots, Reset(t, s0)
  PROVE  OrderInv'
<1>1. /\ token' = [token EXCEPT ![s0] = "resetting"]
      /\ callbacks' = callbacks \ {s0}
      /\ stack' = Called(t, Resetting(s0))
      /\ UNCHANGED <<published, notifications, dispatching, phase, lastValue, pending,
                     delivered>>
  BY DEF Reset, slot
<1>2. Resetting(s0) \in Loaded /\ Resetting(s0).op = "reset"
  BY FrameTypes, NewFrames
<1>3. Doing' = Doing \cup {Resetting(s0)}
  BY <1>1, <1>2, InsideAfterCall
<1>4. Dispatches' = Dispatches /\ \A s : CallsOf(s)' = CallsOf(s)
  BY <1>2, <1>3 DEF Dispatches, CallsOf
<1>5. Listed'
  <2>1. \A s \in Slots : token'[s] = IF s = s0 THEN "resetting" ELSE token[s]
    BY <1>1 DEF TypeInv, TypeOK
  <2> QED BY <1>1, <2>1 DEF OrderInv, Listed, TypeInv, TypeOK
<1> QED BY <1>1, <1>4, <1>5, OrderOfNothing

LEMMA OrderFinishReset ==
  ASSUME TypeInv, FenceInv, OrderInv, NEW t \in Threads, FinishReset(t)
  PROVE  OrderInv'
<1>1. /\ stack[t] # <<>> /\ Top(t).op = "wait" /\ stack' = Returned(t)
      /\ token' = [token EXCEPT ![Top(t).slot] = "gone"]
      /\ UNCHANGED <<published, callbacks, notifications, dispatching, phase, lastValue,
                     pending, delivered>>
  BY DEF FinishReset, Inside, Top, callbackState, slot
<1>2. Doing' = Doing \ {Top(t)}
  BY <1>1, InsideAfterReturn
<1>3. Dispatches' = Dispatches /\ \A s : CallsOf(s)' = CallsOf(s)
  BY <1>1, <1>2 DEF Dispatches, CallsOf
<1>4. Listed'
  <2>1. \A s \in Slots : token'[s] \in {token[s], "gone"}
    BY <1>1 DEF TypeInv, TypeOK
  <2> QED BY <1>1, <2>1 DEF OrderInv, Listed, TypeInv, TypeOK
<1> QED BY <1>1, <1>3, <1>4, OrderOfNothing

LEMMA OrderDeactivate ==
  ASSUME TypeInv, FenceInv, OrderInv, NEW t \in Threads, Deactivate(t)
  PROVE  OrderInv'
<1>0. PICK s0 : s0 = Top(t).slot
  OBVIOUS
<1>1. /\ stack[t] # <<>> /\ Top(t).op = "reset"
      /\ phase' = [phase EXCEPT ![s0] = "inactive"]
      /\ pending' = [pending EXCEPT ![s0] = NoChange]
      /\ \/ stack' = Became(t, Waiting(s0)) /\ token' = token
         \/ stack' = Returned(t) /\ token' = [token EXCEPT ![s0] = "gone"]
      /\ UNCHANGED <<published, callbacks, notifications, dispatching, lastValue, delivered>>
  BY <1>0 DEF Deactivate, Inside, Top, callbackState
<1>2. s0 \in Slots /\ token[s0] = "resetting"
  <2>1. s0 \in Slots
    BY <1>0, <1>1, TopKinds
  <2>2. Depth(t) \in Nat /\ EndingAt(t, Depth(t), s0)
    BY <1>0, <1>1, <2>1, TopFrame DEF IsEnding
  <2> QED BY <2>1, <2>2 DEF FenceInv, Resetter
<1>3. s0 \notin callbacks /\ phase[s0] \notin {"unused", "initializing"}
  BY <1>2 DEF OrderInv, Listed, FenceInv, Lifecycle
<1>4. Dispatches' = Dispatches /\ \A s : CallsOf(s)' = CallsOf(s)
  <2>1. CASE stack' = Returned(t)
    <3>1. Doing' = Doing \ {Top(t)}
      BY <1>1, <2>1, InsideAfterReturn
    <3> QED BY <1>1, <3>1 DEF Dispatches, CallsOf
  <2>2. CASE stack' = Became(t, Waiting(s0))
    <3>1. Waiting(s0) \in Loaded /\ Waiting(s0).op = "wait"
      BY <1>2, FrameTypes, NewFrames
    <3>2. Doing' = (Doing \ {Top(t)}) \cup {Waiting(s0)}
      BY <1>1, <2>2, <3>1, InsideAfterReplacing
    <3> QED BY <1>1, <3>1, <3>2 DEF Dispatches, CallsOf
  <2> QED BY <1>1, <2>1, <2>2
<1>5. /\ \A s \in Slots : phase'[s] = IF s = s0 THEN "inactive" ELSE phase[s]
      /\ \A s \in Slots : pending'[s] = IF s = s0 THEN NoChange ELSE pending[s]
      /\ \A s \in Slots : token'[s] \in {token[s], "gone"}
  BY <1>1 DEF TypeInv, TypeOK
<1>6. pending[s0] = NoChange
  BY <1>2, <1>3 DEF OrderInv, Buffer
<1>7. pending' = pending
  BY <1>1, <1>6 DEF TypeInv, TypeOK
<1>8. \A s \in Slots, v \in Int : Behind(s, v) => Behind(s, v)'
  BY <1>1, <1>4, <1>5, <1>7 DEF Behind
<1>9. Queue'
  BY <1>1, <1>4 DEF OrderInv, Queue
<1>10. Newest'
  <2>1. \A i \in DOMAIN notifications : \A s \in notifications[i].callbacks : s \in Slots
    BY QueuedTypes
  <2>2. \A s \in Slots : Behind(s, published) => Behind(s, published)'
    BY <1>1, <1>4, <1>5, <1>7 DEF Behind
  <2> QED BY <1>1, <1>4, <2>1, <2>2 DEF OrderInv, Newest
<1>11. Sent'
  <2>1. \A f \in Dispatches : f.todo \subseteq Slots /\ f.change.version \in Int
    BY FrameFields, Numbers DEF Dispatches
  <2> QED BY <1>1, <1>4, <1>8, <2>1 DEF OrderInv, Sent
<1>12. Buffer'
  BY <1>1, <1>4, <1>5, <1>6, <1>7 DEF OrderInv, Buffer
<1>13. InCall'
  BY <1>1, <1>3, <1>4, <1>5 DEF OrderInv, InCall
<1>14. Known' /\ DeliveriesChain'
  BY <1>1, <1>4 DEF OrderInv, Known, DeliveriesChain
<1>15. Unknown' /\ Starting'
  BY <1>1, <1>4, <1>5 DEF OrderInv, Unknown, Starting
<1>16. Listed'
  <2>1. \A s \in callbacks : s \in Slots /\ s # s0
    BY <1>3 DEF TypeInv, TypeOK
  <2> QED BY <1>1, <1>5, <2>1 DEF OrderInv, Listed
<1>17. \A s \in callbacks' : Coming(s)'
  BY <1>1, <1>4, <1>7 DEF OrderInv, Coming
<1> QED BY <1>9, <1>10, <1>11, <1>12, <1>13, <1>14, <1>15, <1>16, <1>17 DEF OrderInv

LEMMA OrderNext ==
  ASSUME TypeInv, FenceInv, OrderInv, [Next]_vars
  PROVE  OrderInv'
<1>1. ASSUME NEW t \in Threads, Calls(t) PROVE OrderInv'
  BY <1>1, OrderPublish, OrderOnChange, OrderObserve, OrderReset DEF Calls
<1>2. ASSUME NEW t \in Threads, Proceed(t) PROVE OrderInv'
  BY <1>2, OrderTakeNotification, OrderConsiderSlot, OrderEnterCallback, OrderLeaveCallback,
     OrderDrainPending, OrderDeactivate, OrderFinishReset DEF Proceed
<1>3. CASE UNCHANGED vars
  <2>1. UNCHANGED <<stack, published, notifications, dispatching, lastValue, pending, phase,
                    delivered, callbacks, token>>
    BY <1>3 DEF vars, callbackState, slot
  <2>2. Doing' = Doing
    BY <2>1 DEF Doing, Frames
  <2>3. Dispatches' = Dispatches /\ \A s : CallsOf(s)' = CallsOf(s)
    BY <2>2 DEF Dispatches, CallsOf
  <2>4. Listed'
    BY <2>1 DEF OrderInv, Listed
  <2> QED BY <2>1, <2>3, <2>4, OrderOfNothing
<1> QED BY <1>1, <1>2, <1>3 DEF Next

(***********************************************************************************)
(* Who waits in Reset.                                                             *)
(***********************************************************************************)
(* Reset calls nothing: it is on top of its stack for as long as it takes.         *)
EndsOnTop == \A t \in Threads : \A f \in Frames(t) : f.op \in {"reset", "wait"} => f = Top(t)

(* Until Reset has deactivated the slot, the slot is active.                       *)
ResetsActive == \A f \in Doing : f.op = "reset" => phase[f.slot] = "active"

(* The thread that the slot names runs its callback.                               *)
Running == \A s \in Slots : invoking[s] # NoThread =>
  \E t \in Threads : /\ t = invoking[s]
                      /\ \E f \in Frames(t) : f.op = "invoke" /\ f.slot = s

NoneWaits == \A t \in Threads : \A f, g \in Frames(t) : f.op = "wait" => g.op # "dispatch"

WaitInv == EndsOnTop /\ ResetsActive /\ Running /\ NoneWaits

LEMMA WaitInit == Init => WaitInv
<1> SUFFICES ASSUME Init PROVE WaitInv
  OBVIOUS
<1>1. ASSUME NEW t \in Threads PROVE Frames(t) = {}
  <2>1. stack[t] = <<>>
    BY DEF Init
  <2> QED BY <2>1 DEF Frames
<1>2. Doing = {} /\ \A s \in Slots : invoking[s] = NoThread
  BY <1>1 DEF Doing, Init
<1> QED BY <1>1, <1>2 DEF WaitInv, EndsOnTop, ResetsActive, Running, NoneWaits

(* A thread that is in user code, or in another function than Reset, is nowhere in *)
(* a call of Reset.                                                                *)
LEMMA NotInReset ==
  ASSUME WaitInv, NEW t \in Threads,
         stack[t] = <<>> \/ Top(t).op \in {"observe", "dispatch", "enter", "invoke"}
  PROVE  \A f \in Frames(t) : f.op \notin {"reset", "wait"}
<1>1. CASE stack[t] = <<>>
  BY <1>1 DEF Frames
<1>2. CASE Top(t).op \in {"observe", "dispatch", "enter", "invoke"}
  BY <1>2 DEF WaitInv, EndsOnTop
<1> QED BY <1>1, <1>2

(* A step of t that leaves it in no call of Reset.                                 *)
LEMMA WaitElsewhere ==
  ASSUME TypeInv, WaitInv, NEW t \in Threads,
         \A u \in Threads \ {t} : stack'[u] = stack[u],
         \A f \in Frames(t)' : f.op \notin {"reset", "wait"},
         \A s \in Slots : phase[s] = "active" => phase'[s] = "active",
         Running'
  PROVE  WaitInv'
<1>1. \A u \in Threads \ {t} : Frames(u)' = Frames(u) /\ Top(u)' = Top(u)
  BY DEF Frames, Top
<1>2. EndsOnTop' /\ NoneWaits'
  BY <1>1 DEF WaitInv, EndsOnTop, NoneWaits
<1>3. ResetsActive'
  <2> SUFFICES ASSUME NEW u \in Threads, NEW f \in Frames(u)', f.op = "reset"
               PROVE  phase'[f.slot] = "active"
    BY DEF ResetsActive, Doing
  <2>1. f \in Frames(u)
    BY <1>1
  <2>2. f.slot \in Slots /\ phase[f.slot] = "active"
    BY <2>1, DoingTypes, FrameFields DEF WaitInv, ResetsActive, Doing
  <2> QED BY <2>2
<1> QED BY <1>2, <1>3 DEF WaitInv

(* No callback begins or ends.                                                     *)
LEMMA RunningStays ==
  ASSUME Running, invoking' = invoking, NEW t \in Threads,
         \A u \in Threads \ {t} : stack'[u] = stack[u],
         \A f \in Frames(t) : f.op = "invoke" => f \in Frames(t)'
  PROVE  Running'
<1>1. \A u \in Threads \ {t} : Frames(u)' = Frames(u)
  BY DEF Frames
<1> QED BY <1>1 DEF Running

LEMMA WaitCalls ==
  ASSUME TypeInv, FenceInv, WaitInv, NEW t \in Threads, Calls(t)
  PROVE  WaitInv'
<1>1. \A f \in Frames(t) : f.op \notin {"reset", "wait"}
  <2>1. stack[t] = <<>> \/ Top(t).op = "invoke"
    BY DEF Calls, Publish, OnChange, Observe, Reset, MayCall, Inside, Top
  <2> QED BY <2>1, NotInReset
<1>2. invoking' = invoking
  BY DEF Calls, Publish, OnChange, Observe, Reset, Register, slot
<1>3. CASE Publish(t)
  <2> DEFINE f == Dispatching([change |-> NoChange, callbacks |-> {}])
  <2>1. f \in Loaded /\ f.op = "dispatch"
    BY FrameTypes, NewFrames DEF Dispatching
  <2> HIDE DEF f
  <2>2. phase' = phase /\ (stack' = stack \/ stack' = Called(t, f))
    BY <1>3 DEF Publish, slot, f
  <2>3. \A u \in Threads \ {t} : stack'[u] = stack[u]
    BY <2>1, <2>2, InsideAfterCall
  <2>4. Frames(t) \subseteq Frames(t)' /\ Frames(t)' \subseteq Frames(t) \cup {f}
    <3>1. stack' = stack => Frames(t)' = Frames(t)
      BY DEF Frames
    <3> QED BY <2>1, <2>2, <3>1, InsideAfterCall
  <2>5. Running'
    BY <1>2, <2>3, <2>4, RunningStays DEF WaitInv
  <2> QED BY <1>1, <2>1, <2>2, <2>3, <2>4, <2>5, WaitElsewhere
<1>4. ASSUME NEW s0 \in Slots, OnChange(t, s0) PROVE WaitInv'
  <2>1. stack' = stack /\ phase' = [phase EXCEPT ![s0] = "active"]
    BY <1>4 DEF OnChange, Register
  <2>2. Frames(t)' = Frames(t)
    BY <2>1 DEF Frames
  <2>3. Running'
    BY <1>2, <2>1, <2>2, RunningStays DEF WaitInv
  <2>4. \A s \in Slots : phase[s] = "active" => phase'[s] = "active"
    BY <2>1 DEF TypeInv, TypeOK
  <2> QED BY <1>1, <2>1, <2>2, <2>3, <2>4, WaitElsewhere
<1>5. ASSUME NEW s0 \in Slots, Observe(t, s0) PROVE WaitInv'
  <2> DEFINE c == [previous |-> NoSnapshot, version |-> published]
             f == Observing(s0)
             e == Entering(s0, c)
  <2>1. /\ phase[s0] = "unused" /\ phase' = [phase EXCEPT ![s0] = "initializing"]
        /\ stack' = [stack EXCEPT ![t] = <<e, f>> \o @]
    BY <1>5 DEF Observe, Register, InitialPhase
  <2>2. e \in Loaded /\ f \in Loaded /\ e.op = "enter" /\ f.op = "observe"
    <3>1. c \in Change
      BY ChangeTypes DEF TypeInv, TypeOK
    <3> QED BY <3>1, FrameTypes, NewFrames
  <2> HIDE DEF e, f
  <2>3. \A u \in Threads \ {t} : stack'[u] = stack[u]
    BY <2>1, <2>2, InsideAfterTwoCalls
  <2>4. Frames(t)' = Frames(t) \cup {f, e}
    BY <2>1, <2>2, InsideAfterTwoCalls
  <2>5. Running'
    BY <1>2, <2>3, <2>4, RunningStays DEF WaitInv
  <2>6. \A s \in Slots : phase[s] = "active" => phase'[s] = "active"
    BY <2>1 DEF TypeInv, TypeOK
  <2> QED BY <1>1, <2>2, <2>3, <2>4, <2>5, <2>6, WaitElsewhere
<1>6. ASSUME NEW s0 \in Slots, Reset(t, s0) PROVE WaitInv'
  <2> DEFINE f == Resetting(s0)
  <2>1. stack' = Called(t, f) /\ phase' = phase /\ phase[s0] = "active"
    BY <1>6 DEF Reset, slot, FenceInv, Lifecycle
  <2>2. f \in Loaded /\ f.op = "reset" /\ f.slot = s0
    BY FrameTypes, NewFrames
  <2> HIDE DEF f
  <2>3. \A u \in Threads \ {t} : stack'[u] = stack[u] /\ Frames(u)' = Frames(u)
    BY <2>1, <2>2, InsideAfterCall
  <2>4. Frames(t)' = Frames(t) \cup {f} /\ Doing' = Doing \cup {f} /\ Top(t)' = f
    BY <2>1, <2>2, InsideAfterCall DEF Top
  <2>5. Running'
    BY <1>2, <2>3, <2>4, RunningStays DEF WaitInv
  <2>6. EndsOnTop' /\ NoneWaits'
    BY <1>1, <2>2, <2>3, <2>4 DEF WaitInv, EndsOnTop, NoneWaits, Top
  <2>7. ResetsActive'
    BY <2>1, <2>2, <2>4 DEF WaitInv, ResetsActive
  <2> QED BY <2>5, <2>6, <2>7 DEF WaitInv
<1> QED BY <1>3, <1>4, <1>5, <1>6 DEF Calls

LEMMA WaitDispatch ==
  ASSUME TypeInv, FenceInv, WaitInv, NEW t \in Threads,
         TakeNotification(t) \/ ConsiderSlot(t)
  PROVE  WaitInv'
<1>1. /\ stack[t] # <<>> /\ Top(t).op = "dispatch"
      /\ phase' = phase /\ invoking' = invoking
  BY DEF TakeNotification, ConsiderSlot, Inside, Top, slot
<1>2. Top(t) \in Loaded /\ \A f \in Frames(t) : f.op \notin {"reset", "wait"}
  BY <1>1, NotInReset, TopIsFrame
<1>3. /\ \A u \in Threads \ {t} : stack'[u] = stack[u]
      /\ Frames(t) \ {Top(t)} \subseteq Frames(t)'
      /\ \A f \in Frames(t)' : f \in Frames(t) \/ f.op \in {"dispatch", "enter"}
  <2>1. CASE TakeNotification(t)
    <3>1. CASE notifications = <<>>
      <4>1. stack' = Returned(t)
        BY <2>1, <3>1 DEF TakeNotification, StopsDispatching
      <4> QED BY <1>1, <4>1, InsideAfterReturn
    <3>2. CASE notifications # <<>>
      <4> DEFINE n == Head(notifications)
                 f == Dispatching(n)
      <4>1. stack' = Became(t, f)
        BY <2>1, <3>2 DEF TakeNotification, StopsDispatching
      <4>2. n \in Notification
        BY <3>2 DEF TypeInv, TypeOK
      <4>3. f \in Loaded /\ f.op = "dispatch"
        <5>1. n.change \in Change /\ n.callbacks \in SUBSET Slots
          BY <4>2 DEF Notification
        <5> QED BY <5>1, FrameTypes DEF Dispatching
      <4> HIDE DEF n, f
      <4> QED BY <1>1, <4>1, <4>3, InsideAfterReplacing
    <3> QED BY <3>1, <3>2
  <2>2. CASE ConsiderSlot(t)
    <3>1. PICK s0 \in Top(t).todo :
            LET rest == [Top(t) EXCEPT !.todo = @ \ {s0}]
                change == Top(t).change
            IN stack' = IF phase[s0] = "active"
                        THEN [stack EXCEPT ![t] = <<Entering(s0, change), rest>> \o Tail(@)]
                        ELSE Became(t, rest)
      BY <2>2 DEF ConsiderSlot
    <3> DEFINE rest == [Top(t) EXCEPT !.todo = @ \ {s0}]
               e == Entering(s0, Top(t).change)
    <3>2. s0 \in Slots /\ Top(t).change \in Change
      BY <1>1, <1>2, <3>1, FrameFields
    <3>3. e \in Loaded /\ e.op = "enter"
      BY <3>2, NewFrames, FrameTypes
    <3>6. rest \in Loaded /\ rest.op = "dispatch"
      BY <1>1, <1>2, Considered
    <3> HIDE DEF e, rest
    <3>4. CASE phase[s0] = "active"
      <4>1. stack' = [stack EXCEPT ![t] = <<e, rest>> \o Tail(@)]
        BY <3>1, <3>4 DEF e, rest
      <4>2. /\ Frames(t)' = (Frames(t) \ {Top(t)}) \cup {rest, e}
            /\ \A u \in Threads \ {t} : stack'[u] = stack[u]
        BY <1>1, <3>3, <3>6, <4>1, InsideAfterReplacingAndCall
      <4> QED BY <3>3, <3>6, <4>2
    <3>5. CASE phase[s0] # "active"
      <4>1. stack' = Became(t, rest)
        BY <3>1, <3>5 DEF rest
      <4> QED BY <1>1, <3>6, <4>1, InsideAfterReplacing
    <3> QED BY <3>4, <3>5
  <2> QED BY <2>1, <2>2
<1>4. Running'
  BY <1>1, <1>3, RunningStays DEF WaitInv
<1> QED BY <1>1, <1>2, <1>3, <1>4, WaitElsewhere

LEMMA WaitCallback ==
  ASSUME TypeInv, FenceInv, WaitInv, NEW t \in Threads,
         EnterCallback(t) \/ LeaveCallback(t)
  PROVE  WaitInv'
<1>0. PICK s0 : s0 = Top(t).slot
  OBVIOUS
<1>1. stack[t] # <<>> /\ Top(t).op \in {"enter", "invoke"} /\ phase' = phase
  BY DEF EnterCallback, LeaveCallback, Inside, Top
<1>2. /\ Top(t) \in Loaded /\ s0 \in Slots /\ Top(t) \in Frames(t)
      /\ \A f \in Frames(t) : f.op \notin {"reset", "wait"}
  BY <1>0, <1>1, NotInReset, TopKinds
<1>3. \A u \in Threads : \A f \in Frames(u) :
        f.op \in {"enter", "invoke"} /\ f.slot = s0 => u = t /\ f = Top(t)
  BY <1>0, <1>1, <1>2, OneOfAKind
<1>4. \A s \in Slots : invoking[s] # NoThread =>
        \E u \in Threads : /\ u = invoking[s]
                            /\ \E f \in Frames(u) : f.op = "invoke" /\ f.slot = s
  BY DEF WaitInv, Running
<1>5. CASE LeaveCallback(t) \/ (EnterCallback(t) /\ ~MayInvoke(s0))
  <2>1. stack' = Returned(t)
    BY <1>0, <1>5 DEF LeaveCallback, EnterCallback
  <2>2. /\ Frames(t)' = Frames(t) \ {Top(t)}
        /\ \A u \in Threads \ {t} : Frames(u)' = Frames(u) /\ stack'[u] = stack[u]
    BY <1>1, <2>1, InsideAfterReturn
  <2>3. \A s \in Slots : \/ s = s0 /\ invoking'[s] = NoThread
                         \/ s # s0 /\ invoking'[s] = invoking[s]
    <3>1. CASE LeaveCallback(t)
      BY <1>0, <1>2, <3>1 DEF LeaveCallback, TypeInv, TypeOK
    <3>2. CASE EnterCallback(t) /\ ~MayInvoke(s0)
      <4>1. invoking' = invoking /\ Top(t).op = "enter"
        BY <1>0, <3>2 DEF EnterCallback, Inside, Top
      <4>2. invoking[s0] = NoThread
        BY <1>2, <1>3, <1>4, <4>1
      <4> QED BY <4>1, <4>2
    <3> QED BY <1>5, <3>1, <3>2
  <2>4. Running'
    <3> SUFFICES ASSUME NEW s \in Slots, invoking'[s] # NoThread
                 PROVE  \E u \in Threads :
                          /\ u = invoking'[s]
                          /\ \E f \in Frames(u)' : f.op = "invoke" /\ f.slot = s
      BY DEF Running
    <3>1. s # s0 /\ invoking'[s] = invoking[s]
      BY <2>3
    <3>2. PICK u \in Threads : /\ u = invoking[s]
                               /\ \E f \in Frames(u) : f.op = "invoke" /\ f.slot = s
      BY <1>4, <3>1
    <3>3. PICK f \in Frames(u) : f.op = "invoke" /\ f.slot = s
      BY <3>2
    <3>4. f # Top(t)
      BY <1>0, <3>1, <3>3
    <3>5. f \in Frames(u)'
      BY <2>2, <3>3, <3>4
    <3> QED BY <3>1, <3>2, <3>3, <3>5
  <2> QED BY <1>1, <1>2, <2>2, <2>4, WaitElsewhere
<1>6. CASE EnterCallback(t) /\ MayInvoke(s0)
  <2> DEFINE d == Rebased(s0, Top(t).change)
             f0 == Invoking(s0, d)
  <2>1. stack' = Became(t, f0) /\ invoking' = [invoking EXCEPT ![s0] = t]
    BY <1>0, <1>6 DEF EnterCallback
  <2>2. f0 \in Loaded /\ f0.op = "invoke" /\ f0.slot = s0
    <3>1. Top(t).change \in Change
      BY <1>1, <1>2, FrameFields
    <3>2. d \in Change
      BY <1>2, <3>1, ChangeTypes DEF Rebased, TypeInv, TypeOK
    <3> QED BY <1>2, <3>2, FrameTypes, NewFrames
  <2> HIDE DEF f0
  <2>3. /\ Frames(t)' = (Frames(t) \ {Top(t)}) \cup {f0}
        /\ \A u \in Threads \ {t} : Frames(u)' = Frames(u) /\ stack'[u] = stack[u]
    BY <1>1, <2>1, <2>2, InsideAfterReplacing
  <2>4. \A s \in Slots : invoking'[s] = IF s = s0 THEN t ELSE invoking[s]
    BY <2>1 DEF TypeInv, TypeOK
  <2>5. Running'
    <3> SUFFICES ASSUME NEW s \in Slots, invoking'[s] # NoThread
                 PROVE  \E u \in Threads :
                          /\ u = invoking'[s]
                          /\ \E f \in Frames(u)' : f.op = "invoke" /\ f.slot = s
      BY DEF Running
    <3>1. CASE s = s0
      <4>1. invoking'[s] = t /\ f0 \in Frames(t)'
        BY <2>3, <2>4, <3>1
      <4> QED BY <2>2, <3>1, <4>1
    <3>2. CASE s # s0
      <4>1. invoking'[s] = invoking[s]
        BY <2>4, <3>2
      <4>2. PICK u \in Threads : /\ u = invoking[s]
                                 /\ \E f \in Frames(u) : f.op = "invoke" /\ f.slot = s
        BY <1>4, <4>1
      <4>3. PICK f \in Frames(u) : f.op = "invoke" /\ f.slot = s
        BY <4>2
      <4>4. f # Top(t)
        BY <1>0, <3>2, <4>3
      <4>5. f \in Frames(u)'
        BY <2>3, <4>3, <4>4
      <4> QED BY <4>1, <4>2, <4>3, <4>5
    <3> QED BY <3>1, <3>2
  <2> QED BY <1>1, <1>2, <2>2, <2>3, <2>5, WaitElsewhere
<1> QED BY <1>5, <1>6

LEMMA WaitDrainPending ==
  ASSUME TypeInv, FenceInv, WaitInv, NEW t \in Threads, DrainPending(t)
  PROVE  WaitInv'
<1> DEFINE s0 == Top(t).slot
           e == Entering(s0, pending[s0])
<1>1. /\ stack[t] # <<>> /\ Top(t).op = "observe" /\ invoking' = invoking
      /\ phase' \in {phase, [phase EXCEPT ![s0] = "active"]}
      /\ IF pending[s0] = NoChange THEN stack' = Returned(t) ELSE stack' = Called(t, e)
  BY DEF DrainPending, EndsInitialization, Inside, Top
<1>2. /\ \A f \in Frames(t) : f.op \notin {"reset", "wait"}
      /\ s0 \in Slots
  BY <1>1, NotInReset, TopKinds
<1>3. pending[s0] # NoChange => e \in Loaded /\ e.op = "enter"
  <2>1. pending[s0] # NoChange => pending[s0] \in Change
    BY <1>2 DEF TypeInv, TypeOK
  <2> QED BY <1>2, <2>1, FrameTypes, NewFrames
<1> HIDE DEF e
<1>4. /\ \A u \in Threads \ {t} : stack'[u] = stack[u]
      /\ Frames(t) \ {Top(t)} \subseteq Frames(t)'
      /\ \A f \in Frames(t)' : f \in Frames(t) \/ f.op = "enter"
  <2>1. CASE pending[s0] = NoChange
    <3>1. stack' = Returned(t)
      BY <1>1, <2>1
    <3> QED BY <1>1, <3>1, InsideAfterReturn
  <2>2. CASE pending[s0] # NoChange
    <3>1. stack' = Called(t, e) /\ e \in Loaded /\ e.op = "enter"
      BY <1>1, <1>3, <2>2
    <3> QED BY <3>1, InsideAfterCall
  <2> QED BY <2>1, <2>2
<1>5. Running'
  BY <1>1, <1>4, RunningStays DEF WaitInv
<1>6. \A s \in Slots : phase[s] = "active" => phase'[s] = "active"
  BY <1>1 DEF TypeInv, TypeOK
<1> QED BY <1>2, <1>4, <1>5, <1>6, WaitElsewhere

(* A callback of an active slot that runs on another thread runs on the thread     *)
(* that dispatches: then the one that has to wait does not dispatch.               *)
LEMMA WaitDeactivate ==
  ASSUME TypeInv, FenceInv, WaitInv, NEW t \in Threads, Deactivate(t)
  PROVE  WaitInv'
<1>0. PICK s0 : s0 = Top(t).slot
  OBVIOUS
<1>1. /\ stack[t] # <<>> /\ Top(t).op = "reset" /\ invoking' = invoking
      /\ phase' = [phase EXCEPT ![s0] = "inactive"]
      /\ IF MustWait(t, s0) THEN stack' = Became(t, Waiting(s0)) ELSE stack' = Returned(t)
  BY <1>0 DEF Deactivate, Inside, Top
<1>2. Top(t) \in Loaded /\ Top(t) \in Frames(t) /\ Top(t) \in Doing /\ s0 \in Slots
  BY <1>0, <1>1, TopKinds
<1>3. phase[s0] = "active"
  BY <1>0, <1>1, <1>2 DEF WaitInv, ResetsActive
<1>4. \A u \in Threads : \A f \in Frames(u) :
        f.op \in {"reset", "wait"} /\ f.slot = s0 => f = Top(t)
  BY <1>0, <1>1, <1>2, OneOfAKind
<1>5. \A f \in Frames(t) : f.op \in {"reset", "wait"} => f = Top(t)
  BY DEF WaitInv, EndsOnTop
<1>6. /\ \A u \in Threads \ {t} : stack'[u] = stack[u] /\ Frames(u)' = Frames(u)
                                  /\ Top(t) \notin Frames(u)
      /\ Frames(t) \ {Top(t)} \subseteq Frames(t)'
      /\ \/ Frames(t)' = Frames(t) \ {Top(t)}
         \/ /\ MustWait(t, s0) /\ Head(stack'[t]) = Waiting(s0)
            /\ Frames(t)' = (Frames(t) \ {Top(t)}) \cup {Waiting(s0)}
  <2>1. CASE MustWait(t, s0)
    <3>1. stack' = Became(t, Waiting(s0)) /\ Waiting(s0) \in Loaded
      BY <1>1, <1>2, <2>1, FrameTypes
    <3> QED BY <1>1, <2>1, <3>1, InsideAfterReplacing
  <2>2. CASE ~MustWait(t, s0)
    <3>1. stack' = Returned(t)
      BY <1>1, <2>2
    <3> QED BY <1>1, <3>1, InsideAfterReturn
  <2> QED BY <2>1, <2>2
<1>7. Waiting(s0).op = "wait" /\ Waiting(s0).slot = s0
  BY NewFrames
<1>8. Running'
  BY <1>1, <1>6, RunningStays DEF WaitInv
<1>9. EndsOnTop'
  BY <1>5, <1>6 DEF WaitInv, EndsOnTop, Top
<1>10. ResetsActive'
  <2> SUFFICES ASSUME NEW u \in Threads, NEW f \in Frames(u)', f.op = "reset"
               PROVE  phase'[f.slot] = "active"
    BY DEF ResetsActive, Doing
  <2>1. f \in Frames(u) /\ f # Top(t)
    BY <1>6, <1>7
  <2>2. f.slot \in Slots /\ phase[f.slot] = "active" /\ f.slot # s0
    BY <1>4, <2>1, DoingTypes, FrameFields DEF WaitInv, ResetsActive, Doing
  <2> QED BY <1>1, <2>2 DEF TypeInv, TypeOK
<1>11. MustWait(t, s0) => \A g \in Frames(t) : g.op # "dispatch"
  <2> SUFFICES ASSUME MustWait(t, s0), NEW g \in Frames(t), g.op = "dispatch" PROVE FALSE
    OBVIOUS
  <2>1. PICK u \in Threads \ {t} : u = invoking[s0]
    BY <1>2 DEF MustWait, TypeInv, TypeOK
  <2>2. PICK f \in Frames(u) : f.op = "invoke" /\ f.slot = s0
    BY <1>2, <2>1, ThreadAssumption DEF WaitInv, Running, MustWait
  <2>3. PICK h \in Frames(u) : h.op = "dispatch"
    BY <1>3, <2>2, WhoCalls
  <2> QED BY <2>1, <2>3, OneOfAKind
<1>12. NoneWaits'
  <2>1. \A f, g \in Frames(t)' : f.op = "wait" => g.op # "dispatch"
    BY <1>1, <1>5, <1>6, <1>7, <1>11
  <2> QED BY <1>6, <2>1 DEF WaitInv, NoneWaits
<1> QED BY <1>8, <1>9, <1>10, <1>12 DEF WaitInv

LEMMA WaitFinishReset ==
  ASSUME TypeInv, FenceInv, WaitInv, NEW t \in Threads, FinishReset(t)
  PROVE  WaitInv'
<1>1. /\ stack[t] # <<>> /\ Top(t).op = "wait" /\ stack' = Returned(t)
      /\ phase' = phase /\ invoking' = invoking
  BY DEF FinishReset, Inside, Top, slot
<1>2. /\ \A u \in Threads \ {t} : stack'[u] = stack[u]
      /\ Frames(t)' = Frames(t) \ {Top(t)}
  BY <1>1, InsideAfterReturn
<1>3. \A f \in Frames(t)' : f.op \notin {"reset", "wait"}
  BY <1>2 DEF WaitInv, EndsOnTop
<1>4. Running'
  BY <1>1, <1>2, RunningStays DEF WaitInv
<1> QED BY <1>1, <1>2, <1>3, <1>4, WaitElsewhere

LEMMA WaitNext ==
  ASSUME TypeInv, FenceInv, WaitInv, [Next]_vars
  PROVE  WaitInv'
<1>1. CASE UNCHANGED vars
  <2>1. UNCHANGED <<stack, phase, invoking>>
    BY <1>1 DEF vars, slot
  <2>2. Doing' = Doing /\ \A t \in Threads : Frames(t)' = Frames(t) /\ Top(t)' = Top(t)
    BY <2>1 DEF Doing, Frames, Top
  <2>3. EndsOnTop' /\ NoneWaits' /\ ResetsActive'
    BY <2>1, <2>2 DEF WaitInv, EndsOnTop, NoneWaits, ResetsActive
  <2>4. Running'
    BY <2>1 DEF WaitInv, Running, Frames
  <2> QED BY <2>3, <2>4 DEF WaitInv
<1>2. ASSUME NEW t \in Threads, Proceed(t) PROVE WaitInv'
  BY <1>2, WaitDispatch, WaitCallback, WaitDrainPending, WaitDeactivate, WaitFinishReset
     DEF Proceed
<1> QED BY <1>1, <1>2, WaitCalls DEF Next

(***********************************************************************************)
(* What the invariants say.                                                        *)
(***********************************************************************************)
LEMMA OneDispatcherIsEnough ==
  ASSUME TypeInv, FenceInv, OrderInv
  PROVE  OneDispatcher
<1>1. ASSUME NEW t \in Threads, NEW i \in DOMAIN stack[t], NEW j \in DOMAIN stack[t],
             stack[t][i].op = "dispatch", stack[t][j].op = "dispatch"
      PROVE  i = j
  <2>1. stack[t] \in Seq(Loaded)
    BY DEF TypeInv
  <2>2. Depth(t) \in Nat /\ i \in 1 .. Depth(t) /\ j \in 1 .. Depth(t)
    BY <2>1 DEF Depth
  <2>3. PICK p, q \in Nat : p = Depth(t) + 1 - i /\ q = Depth(t) + 1 - j
    BY <2>2
  <2>4. /\ p \in 1 .. Depth(t) /\ Depth(t) + 1 - p = i
        /\ q \in 1 .. Depth(t) /\ Depth(t) + 1 - q = j
    BY <2>2, <2>3
  <2>5. DispatchAt(t, p) /\ DispatchAt(t, q)
    BY <1>1, <2>4 DEF DispatchAt, At, Depth
  <2>6. p = q
    BY <2>5 DEF FenceInv, Dispatcher
  <2> QED BY <2>4, <2>6
<1>2. \A t, u \in Dispatchers : t = u
  BY OneOfAKind DEF Dispatchers
<1>3. dispatching => Dispatchers # {}
  BY DEF OrderInv, Queue, Dispatches, Doing, Dispatchers
<1>4. ASSUME NEW t \in Dispatchers PROVE dispatching
  <2>1. PICK f \in Frames(t) : f.op = "dispatch"
    BY DEF Dispatchers
  <2>2. t \in Threads
    BY DEF Dispatchers
  <2>3. PICK p \in Nat : p \in 1 .. Depth(t) /\ At(stack[t], p) = f
    BY <2>2, PlaceOfFrame
  <2>4. DispatchAt(t, p)
    BY <2>1, <2>3 DEF DispatchAt
  <2> QED BY <2>2, <2>4 DEF FenceInv, Dispatcher
<1>5. dispatching \in BOOLEAN
  BY DEF TypeInv, TypeOK
<1>6. dispatching <=> Dispatchers # {}
  BY <1>3, <1>4, <1>5
<1>7. Len(notifications) <= 1 /\ (notifications # <<>> => dispatching)
  BY DEF OrderInv, Queue
<1> QED BY <1>1, <1>2, <1>6, <1>7 DEF OneDispatcher

LEMMA ComingIsOnItsWay ==
  ASSUME OrderInv
  PROVE  LatestIsOnItsWay
<1> SUFFICES ASSUME NEW s \in callbacks PROVE lastValue[s] = published \/ OnItsWay(s)
  BY DEF LatestIsOnItsWay
<1>1. Coming(s)
  BY DEF OrderInv
<1>2. ASSUME NEW f \in Dispatches, f.change.version = published, s \in f.todo
      PROVE  OnItsWay(s)
  BY <1>2 DEF Dispatches, Doing, OnItsWay
<1>3. ASSUME NEW f \in CallsOf(s), f.change.version = published
      PROVE  OnItsWay(s)
  BY <1>3 DEF CallsOf, Doing, OnItsWay
<1> QED BY <1>1, <1>2, <1>3 DEF Coming, OnItsWay

LEMMA OrderIsEnough ==
  ASSUME TypeInv, FenceInv, OrderInv, WaitInv
  PROVE  DispatchIsOrderly
<1>1. DispatcherNeverWaits
  BY DEF WaitInv, NoneWaits, DispatcherNeverWaits, Dispatchers
<1>2. TypeOK /\ DeliveriesChain
  BY DEF TypeInv, OrderInv
<1> QED BY <1>1, <1>2, OneDispatcherIsEnough, OneCallIsEnough, ComingIsOnItsWay
        DEF DispatchIsOrderly

LEMMA OrderInvHolds == Spec => [](TypeInv /\ FenceInv /\ OrderInv /\ WaitInv)
<1>1. Init => OrderInv /\ WaitInv
  BY OrderInit, WaitInit
<1>2. TypeInv /\ FenceInv /\ OrderInv /\ WaitInv /\ [Next]_vars => OrderInv' /\ WaitInv'
  BY OrderNext, WaitNext
<1> QED BY <1>1, <1>2, FenceInvHolds, PTL DEF Spec

(* One thread dispatches, callbacks do not run into each other, deliveries have no *)
(* gap, no registered observer loses the latest version, and the dispatcher waits  *)
(* for nobody (PublishLocked, DispatchNotifications, InvokeCallback, Reset).       *)
THEOREM DispatchIsOrderlyHolds == Spec => []DispatchIsOrderly
<1>1. TypeInv /\ FenceInv /\ OrderInv /\ WaitInv => DispatchIsOrderly
  BY OrderIsEnough
<1> QED BY <1>1, OrderInvHolds, PTL

(***********************************************************************************)
(* The monitor feeds its observers as StateFeed describes.                         *)
(***********************************************************************************)
LEMMA FeedStays ==
  ASSUME published' = published, \A s \in Slots : Seen(s)' = Seen(s),
         \A s \in Slots : Subscribed(s)' = Subscribed(s)
  PROVE  UNCHANGED Feed!vars
BY DEF Feed!vars

LEMMA SlotStays ==
  ASSUME NEW s \in Slots, delivered'[s] = delivered[s], phase'[s] = phase[s],
         lastValue'[s] = lastValue[s]
  PROVE  Seen(s)' = Seen(s) /\ Subscribed(s)' = Subscribed(s)
BY DEF Seen, Subscribed

LEMMA FeedSubscribes ==
  ASSUME published' = published, NEW s0 \in Slots,
         \A s \in Slots \ {s0} : Seen(s)' = Seen(s) /\ Subscribed(s)' = Subscribed(s),
         Subscribed(s0) = "no", Subscribed(s0)' = "yes", Seen(s0)' \in {NoSnapshot, published}
  PROVE  Feed!Next
<1>1. Feed!Subscribe(s0)
  BY DEF Feed!Subscribe, Feed!NothingSeen, NoSnapshot
<1> QED BY <1>1 DEF Feed!Next

LEMMA FeedDelivers ==
  ASSUME published' = published, NEW s0 \in Slots,
         \A s \in Slots \ {s0} : Seen(s)' = Seen(s) /\ Subscribed(s)' = Subscribed(s),
         Subscribed(s0) = "yes", Subscribed(s0)' = "yes",
         Seen(s0)' \in (Seen(s0) + 1) .. published
  PROVE  Feed!Next
<1>1. Feed!Deliver(s0)
  BY DEF Feed!Deliver
<1> QED BY <1>1 DEF Feed!Next

LEMMA FeedUnsubscribes ==
  ASSUME published' = published, NEW s0 \in Slots,
         \A s \in Slots \ {s0} : Seen(s)' = Seen(s) /\ Subscribed(s)' = Subscribed(s),
         Subscribed(s0) = "yes", Subscribed(s0)' = "over", Seen(s0)' = Seen(s0)
  PROVE  Feed!Next
<1>1. Feed!Unsubscribe(s0)
  BY DEF Feed!Unsubscribe
<1> QED BY <1>1 DEF Feed!Next

LEMMA FeedInit == Init => Feed!Init
<1> SUFFICES ASSUME Init PROVE Feed!Init
  OBVIOUS
<1>1. \A s \in Slots : Seen(s) = NoSnapshot /\ Subscribed(s) = "no"
  BY DEF Init, Seen, Subscribed
<1> QED BY <1>1 DEF Init, Feed!Init, Feed!NothingSeen, NoSnapshot

(* A registration is a subscription, of an observer that is owed the current value *)
(* (Observe) or counts it as known (OnChange).                                     *)
LEMMA FeedRegister ==
  ASSUME TypeInv, OrderInv, NEW s0 \in Slots, NEW first \in {"active", "initializing"},
         Register(s0, first)
  PROVE  Feed!Next
<1>1. /\ phase[s0] = "unused" /\ phase'[s0] = first /\ lastValue'[s0] = published
      /\ published' = published /\ delivered' = delivered
      /\ \A s \in Slots \ {s0} : phase'[s] = phase[s] /\ lastValue'[s] = lastValue[s]
  BY DEF Register, TypeInv, TypeOK
<1>2. delivered[s0] = <<>>
  BY <1>1 DEF OrderInv, Unknown
<1>3. \A s \in Slots \ {s0} : Seen(s)' = Seen(s) /\ Subscribed(s)' = Subscribed(s)
  BY <1>1, SlotStays
<1>4. Subscribed(s0) = "no" /\ Subscribed(s0)' = "yes"
  BY <1>1 DEF Subscribed
<1>5. Seen(s0)' \in {NoSnapshot, published}
  BY <1>1, <1>2 DEF Seen
<1> QED BY <1>1, <1>3, <1>4, <1>5, FeedSubscribes

(* A callback is given a version newer than the one its observer knows.            *)
LEMMA FeedEnterCallback ==
  ASSUME TypeInv, FenceInv, OrderInv, NEW t \in Threads, EnterCallback(t)
  PROVE  [Feed!Next]_(Feed!vars)
<1>0. PICK s0 : s0 = Top(t).slot
  OBVIOUS
<1>1. /\ stack[t] # <<>> /\ Top(t).op = "enter"
      /\ UNCHANGED <<published, phase, lastValue>>
  BY DEF EnterCallback, Inside, Top
<1>2. s0 \in Slots /\ CallsOf(s0) = {Top(t)}
  BY <1>0, <1>1, TopKinds
<1>3. CASE ~MayInvoke(s0)
  <2>1. delivered' = delivered
    BY <1>0, <1>3 DEF EnterCallback
  <2> QED BY <1>1, <2>1, SlotStays, FeedStays
<1>4. CASE MayInvoke(s0)
  <2> DEFINE c == Rebased(s0, Top(t).change)
  <2>1. delivered' = [delivered EXCEPT ![s0] = Append(@, c)]
    BY <1>0, <1>4 DEF EnterCallback
  <2>2. c \in Change /\ c.version = Top(t).change.version
    <3>1. Top(t).change \in Change
      BY <1>2, Numbers
    <3> QED BY <1>2, <3>1, ChangeTypes DEF Rebased, Change, TypeInv, TypeOK
  <2> HIDE DEF c
  <2>3. /\ delivered[s0] \in Seq(Change) /\ delivered'[s0] = Append(delivered[s0], c)
        /\ \A s \in Slots \ {s0} : delivered'[s] = delivered[s]
    BY <1>2, <2>1 DEF TypeInv, TypeOK
  <2>4. Seen(s0)' = c.version
    <3>1. /\ delivered'[s0] # <<>>
          /\ delivered'[s0][Len(delivered'[s0])] = c
      BY <2>2, <2>3
    <3> QED BY <3>1 DEF Seen
  <2>5. Seen(s0) \in Int /\ Seen(s0) < c.version
    <3>1. /\ lastValue[s0] \in Int /\ c.version \in Nat /\ NoSnapshot = -1
          /\ Top(t).change.previous = NoSnapshot =>
               delivered[s0] = <<>> /\ phase[s0] = "initializing"
          /\ Top(t).change.previous # NoSnapshot => lastValue[s0] < c.version
      BY <1>1, <1>2, <2>2, Numbers, ChangeTypes DEF OrderInv, InCall
    <3>2. CASE delivered[s0] # <<>>
      <4>1. Seen(s0) = lastValue[s0]
        BY <1>1, <1>2, <3>2 DEF OrderInv, Known, Seen, LastOf
      <4> QED BY <3>1, <3>2, <4>1
    <3>3. CASE delivered[s0] = <<>>
      <4>1. Seen(s0) = IF phase[s0] = "initializing" THEN NoSnapshot ELSE lastValue[s0]
        BY <3>3 DEF Seen
      <4> QED BY <3>1, <4>1
    <3> QED BY <3>2, <3>3
  <2>6. c.version \in Nat /\ c.version <= published /\ published \in Nat
    BY <1>2, <2>2, Numbers, ChangeTypes DEF OrderInv, InCall
  <2>7. Seen(s0)' \in (Seen(s0) + 1) .. published
    BY <2>4, <2>5, <2>6
  <2>8. Subscribed(s0) = "yes" /\ Subscribed(s0)' = "yes"
    BY <1>1, <1>4 DEF MayInvoke, Subscribed
  <2>9. \A s \in Slots \ {s0} : Seen(s)' = Seen(s) /\ Subscribed(s)' = Subscribed(s)
    BY <1>1, <2>3, SlotStays
  <2> QED BY <1>1, <1>2, <2>7, <2>8, <2>9, FeedDelivers
<1> QED BY <1>3, <1>4

(* What the slot remembers when its callback returns was given to the callback.    *)
LEMMA FeedLeaveCallback ==
  ASSUME TypeInv, FenceInv, OrderInv, NEW t \in Threads, LeaveCallback(t)
  PROVE  UNCHANGED Feed!vars
<1>0. PICK s0 : s0 = Top(t).slot
  OBVIOUS
<1>1. /\ stack[t] # <<>> /\ Top(t).op = "invoke"
      /\ UNCHANGED <<published, phase, delivered>>
      /\ lastValue' = [lastValue EXCEPT ![s0] = Top(t).change.version]
  BY <1>0 DEF LeaveCallback, Inside, Top
<1>2. s0 \in Slots /\ delivered[s0] # <<>>
  BY <1>0, <1>1, TopKinds DEF OrderInv, InCall
<1>3. Seen(s0)' = Seen(s0) /\ Subscribed(s0)' = Subscribed(s0)
  BY <1>1, <1>2 DEF Seen, Subscribed
<1>4. \A s \in Slots \ {s0} : lastValue'[s] = lastValue[s]
  BY <1>1 DEF TypeInv, TypeOK
<1> QED BY <1>1, <1>3, <1>4, SlotStays, FeedStays

(* The initial value was delivered before the slot becomes active.                 *)
LEMMA FeedDrainPending ==
  ASSUME TypeInv, FenceInv, OrderInv, NEW t \in Threads, DrainPending(t)
  PROVE  UNCHANGED Feed!vars
<1>0. PICK s0 : s0 = Top(t).slot
  OBVIOUS
<1>1. /\ stack[t] # <<>> /\ Top(t).op = "observe"
      /\ UNCHANGED <<published, lastValue, delivered>>
      /\ phase' \in {phase, [phase EXCEPT ![s0] = "active"]}
  BY <1>0 DEF DrainPending, Inside, Top
<1>2. s0 \in Slots /\ CallsOf(s0) = {} /\ phase[s0] = "initializing"
  BY <1>0, <1>1, TopKinds
<1>3. delivered[s0] # <<>>
  BY <1>2 DEF OrderInv, Starting
<1>4. phase'[s0] \in {"initializing", "active"} /\ \A s \in Slots \ {s0} : phase'[s] = phase[s]
  BY <1>1, <1>2 DEF TypeInv, TypeOK
<1>5. Seen(s0)' = Seen(s0) /\ Subscribed(s0)' = Subscribed(s0)
  BY <1>1, <1>2, <1>3, <1>4 DEF Seen, Subscribed
<1> QED BY <1>1, <1>4, <1>5, SlotStays, FeedStays

LEMMA FeedDeactivate ==
  ASSUME TypeInv, FenceInv, WaitInv, NEW t \in Threads, Deactivate(t)
  PROVE  Feed!Next
<1>0. PICK s0 : s0 = Top(t).slot
  OBVIOUS
<1>1. /\ stack[t] # <<>> /\ Top(t).op = "reset"
      /\ UNCHANGED <<published, lastValue, delivered>>
      /\ phase' = [phase EXCEPT ![s0] = "inactive"]
  BY <1>0 DEF Deactivate, Inside, Top
<1>2. s0 \in Slots /\ phase[s0] = "active"
  BY <1>0, <1>1, TopKinds DEF WaitInv, ResetsActive
<1>3. phase'[s0] = "inactive" /\ \A s \in Slots \ {s0} : phase'[s] = phase[s]
  BY <1>1, <1>2 DEF TypeInv, TypeOK
<1>4. Seen(s0)' = Seen(s0) /\ Subscribed(s0) = "yes" /\ Subscribed(s0)' = "over"
  BY <1>1, <1>2, <1>3 DEF Seen, Subscribed
<1>5. \A s \in Slots \ {s0} : Seen(s)' = Seen(s) /\ Subscribed(s)' = Subscribed(s)
  BY <1>1, <1>3, SlotStays
<1> QED BY <1>1, <1>2, <1>4, <1>5, FeedUnsubscribes

LEMMA FeedPublish ==
  ASSUME NEW t \in Threads, Publish(t)
  PROVE  Feed!Next
<1>1. published' = published + 1 /\ UNCHANGED <<phase, lastValue, delivered>>
  BY DEF Publish, slot
<1>2. \A s \in Slots : Seen(s)' = Seen(s) /\ Subscribed(s)' = Subscribed(s)
  BY <1>1, SlotStays
<1>3. Feed!Publish
  BY <1>1, <1>2 DEF Feed!Publish
<1> QED BY <1>3 DEF Feed!Next

LEMMA FeedStep ==
  TypeInv /\ FenceInv /\ OrderInv /\ WaitInv /\ [Next]_vars => [Feed!Next]_(Feed!vars)
<1> SUFFICES ASSUME TypeInv, FenceInv, OrderInv, WaitInv, [Next]_vars
             PROVE  [Feed!Next]_(Feed!vars)
  OBVIOUS
<1>s. ASSUME UNCHANGED <<published, phase, lastValue, delivered>>
      PROVE  UNCHANGED Feed!vars
  BY <1>s, SlotStays, FeedStays
<1>1. CASE UNCHANGED vars
  BY <1>1, <1>s DEF vars, slot
<1>2. ASSUME NEW t \in Threads, Calls(t) PROVE [Feed!Next]_(Feed!vars)
  <2>1. CASE Publish(t)
    BY <2>1, FeedPublish
  <2>2. ASSUME NEW s \in Slots, OnChange(t, s) \/ Observe(t, s) PROVE Feed!Next
    <3>1. Register(s, "active") \/ Register(s, "initializing")
      BY <2>2 DEF OnChange, Observe, InitialPhase
    <3> QED BY <3>1, FeedRegister
  <2>3. ASSUME NEW s \in Slots, Reset(t, s) PROVE UNCHANGED Feed!vars
    BY <2>3, <1>s DEF Reset, slot
  <2> QED BY <1>2, <2>1, <2>2, <2>3 DEF Calls
<1>3. ASSUME NEW t \in Threads, Proceed(t) PROVE [Feed!Next]_(Feed!vars)
  <2>1. CASE TakeNotification(t)
    BY <2>1, <1>s DEF TakeNotification, slot
  <2>2. CASE ConsiderSlot(t)
    BY <2>2, <1>s DEF ConsiderSlot
  <2>3. CASE FinishReset(t)
    BY <2>3, <1>s DEF FinishReset, slot
  <2> QED BY <1>3, <2>1, <2>2, <2>3, FeedEnterCallback, FeedLeaveCallback, FeedDrainPending,
             FeedDeactivate DEF Proceed
<1> QED BY <1>1, <1>2, <1>3 DEF Next

(* Every behaviour of the monitor is one of the abstract feed: a callback is a     *)
(* delivery of something newer, a completed registration a subscription, and what  *)
(* the threads do in between is not seen (OptionsMonitor against StateFeed).       *)
THEOREM NotificationsImplementFeed == Spec => Feed!SafeSpec
BY FeedInit, FeedStep, OrderInvHolds, PTL DEF Spec, Feed!SafeSpec
===================================================================================
