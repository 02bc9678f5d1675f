---------------------- MODULE DesktopEventRuntimeProofs ----------------------
(***************************************************************************)
(* Theorems about DesktopEventRuntime, for every set of threads and of     *)
(* operations.                                                             *)
(***************************************************************************)
EXTENDS DesktopEventRuntime, TLAPS

(* Adding an element to a sequence, as every admission does.                *)
LEMMA AppendType ==
  ASSUME NEW S, NEW s \in Seq(S), NEW e \in S
  PROVE  Append(s, e) \in Seq(S)
  OBVIOUS

(* Removing the last element of a nonempty sequence, as Complete does.      *)
LEMMA FrontType ==
  ASSUME NEW S, NEW s \in Seq(S), s # <<>>
  PROVE  SubSeq(s, 1, Len(s) - 1) \in Seq(S)
  OBVIOUS

LEMMA LastType ==
  ASSUME NEW S, NEW s \in Seq(S), s # <<>>
  PROVE  s[Len(s)] \in S
  OBVIOUS

LEMMA HeadTailType ==
  ASSUME NEW S, NEW s \in Seq(S), s # <<>>
  PROVE  Head(s) \in S /\ Tail(s) \in Seq(S)
  OBVIOUS

(* Every variable keeps its type, whatever the threads do.                  *)
THEOREM TypeCorrect == Spec => []TypeOK
<1>1. Init => TypeOK
  <2> SUFFICES ASSUME Init
               PROVE  TypeOK
    OBVIOUS
  <2>1. ControlType
    BY DEF Init, ControlType, Phases, Steps
  <2>2. QueueType
    BY DEF Init, QueueType
  <2>3. HistoryType
    BY DEF Init, HistoryType, Outcomes
  <2> QED
    BY <2>1, <2>2, <2>3 DEF TypeOK
<1>2. TypeOK /\ [Next]_vars => TypeOK'
  <2> SUFFICES ASSUME ControlType, QueueType, HistoryType, [Next]_vars
               PROVE  TypeOK'
    BY DEF TypeOK
  <2> USE DEF state, runner, history, SwapOut, NeverServed, StopNow, ContinuePumping
  <2>1. ASSUME NEW t \in Thread, NEW op \in Posts, Post(t, op)
        PROVE  TypeOK'
    <3>1. ControlType'
      BY <2>1 DEF Post, WakeIfRunning, Op, ControlType, Phases, Steps
    <3>2. QueueType'
      <4>1. op \in Op
        BY DEF Op
      <4>2. commands' = Append(commands, op) \/ UNCHANGED commands
        BY <2>1 DEF Post
      <4>3. UNCHANGED <<pending, rejecting, running>>
        BY <2>1 DEF Post
      <4> QED
        BY <4>1, <4>2, <4>3, SMTT(30) DEF QueueType
    <3>3. HistoryType'
      BY <2>1 DEF Post, WakeIfRunning, Op, HistoryType, Outcomes
    <3> QED
      BY <3>1, <3>2, <3>3 DEF TypeOK
  <2>2. ASSUME NEW t \in Thread, NEW op \in Submits, Dispatch(t, op)
        PROVE  TypeOK'
    <3>1. ControlType'
      BY <2>2 DEF Dispatch, WakeIfRunning, Op, ControlType, Phases, Steps
    <3>2. QueueType'
      <4>1. op \in Op
        BY DEF Op
      <4>2. commands' \in Seq(Op)
        <5>1. commands' = Append(commands, op) \/ UNCHANGED commands
          BY <2>2 DEF Dispatch
        <5> QED
          BY <4>1, <5>1, AppendType DEF QueueType
      <4>3. running' \in Seq(Op)
        <5>1. running' = Append(running, op) \/ UNCHANGED running
          BY <2>2 DEF Dispatch
        <5> QED
          BY <4>1, <5>1, AppendType DEF QueueType
      <4>4. UNCHANGED <<pending, rejecting>>
        BY <2>2 DEF Dispatch
      <4> QED
        BY <4>1, <4>2, <4>3, <4>4 DEF QueueType
    <3>3. HistoryType'
      BY <2>2 DEF Dispatch, WakeIfRunning, Op, HistoryType, Outcomes
    <3> QED
      BY <3>1, <3>2, <3>3 DEF TypeOK
  <2>3. ASSUME NEW t \in Thread, RequestStop(t)
        PROVE  TypeOK'
    <3>1. ControlType'
      BY <2>3 DEF RequestStop, WakeIfRunning, ControlType, Phases, Steps
    <3>2. QueueType'
      BY <2>3 DEF RequestStop, WakeIfRunning, QueueType
    <3>3. HistoryType'
      BY <2>3 DEF RequestStop, WakeIfRunning, HistoryType, Outcomes
    <3> QED
      BY <3>1, <3>2, <3>3 DEF TypeOK
  <2>4. ASSUME NEW t \in Thread, Abandon(t)
        PROVE  TypeOK'
    <3>1. ControlType'
      BY <2>4 DEF Abandon, WakeIfRunning, ControlType, Phases, Steps
    <3>2. QueueType'
      <4>1. \/ rejecting' = commands /\ commands' = <<>>
            \/ UNCHANGED <<rejecting, commands>>
        BY <2>4 DEF Abandon
      <4>2. UNCHANGED <<pending, running>>
        BY <2>4 DEF Abandon
      <4>3. CASE rejecting' = commands /\ commands' = <<>>
        BY <4>2, <4>3 DEF QueueType
      <4>4. CASE UNCHANGED <<rejecting, commands>>
        BY <4>2, <4>4 DEF QueueType
      <4> QED
        BY <4>1, <4>3, <4>4
    <3>3. HistoryType'
      BY <2>4 DEF Abandon, WakeIfRunning, HistoryType, Outcomes
    <3> QED
      BY <3>1, <3>2, <3>3 DEF TypeOK
  <2>5. ASSUME NEW t \in Thread, Run(t)
        PROVE  TypeOK'
    <3>1. ControlType'
      BY <2>5 DEF Run, ControlType, Phases, Steps
    <3>2. QueueType'
      BY <2>5 DEF Run, QueueType
    <3>3. HistoryType'
      BY <2>5 DEF Run, HistoryType, Outcomes
    <3> QED
      BY <3>1, <3>2, <3>3 DEF TypeOK
  <2>6. ASSUME NEW t \in Thread, Wake(t)
        PROVE  TypeOK'
    <3>1. ControlType'
      BY <2>6 DEF Wake, ControlType, Phases, Steps
    <3>2. QueueType'
      BY <2>6 DEF Wake, QueueType
    <3>3. HistoryType'
      BY <2>6 DEF Wake, HistoryType, Outcomes
    <3> QED
      BY <3>1, <3>2, <3>3 DEF TypeOK
  <2>7. CASE StartSucceeds
    <3>1. ControlType'
      BY <2>7 DEF StartSucceeds, ControlType, Phases, Steps
    <3>2. QueueType'
      BY <2>7 DEF StartSucceeds, QueueType
    <3>3. HistoryType'
      BY <2>7 DEF StartSucceeds, HistoryType, Outcomes
    <3> QED
      BY <3>1, <3>2, <3>3 DEF TypeOK
  <2>8. CASE StartFails
    <3>1. ControlType'
      BY <2>8 DEF StartFails, ControlType, Phases, Steps
    <3>2. QueueType'
      BY <2>8 DEF StartFails, QueueType
    <3>3. HistoryType'
      BY <2>8 DEF StartFails, HistoryType, Outcomes
    <3> QED
      BY <3>1, <3>2, <3>3 DEF TypeOK
  <2>9. CASE Take
    <3>1. ControlType'
      BY <2>9 DEF Take, ControlType, Phases, Steps
    <3>2. QueueType'
      BY <2>9 DEF Take, QueueType
    <3>3. HistoryType'
      BY <2>9 DEF Take, HistoryType, Outcomes
    <3> QED
      BY <3>1, <3>2, <3>3 DEF TypeOK
  <2>10. CASE Execute
    <3>1. ControlType'
      BY <2>10, HeadTailType DEF Execute, ControlType, Phases, Steps
    <3>2. QueueType'
      BY <2>10, HeadTailType DEF Execute, QueueType
    <3>3. HistoryType'
      BY <2>10, HeadTailType DEF Execute, HistoryType, Outcomes
    <3> QED
      BY <3>1, <3>2, <3>3 DEF TypeOK
  <2>11. CASE Complete
    <3>1. ControlType'
      BY <2>11, FrontType, LastType DEF Complete, ControlType, Phases, Steps
    <3>2. QueueType'
      BY <2>11, FrontType, LastType DEF Complete, QueueType
    <3>3. HistoryType'
      BY <2>11, FrontType, LastType DEF Complete, HistoryType, Outcomes
    <3> QED
      BY <3>1, <3>2, <3>3 DEF TypeOK
  <2>12. CASE CheckQueue \/ PumpWoken \/ PumpTimeout
    <3>1. ControlType'
      BY <2>12 DEF CheckQueue, PumpWoken, PumpTimeout, ControlType, Phases, Steps
    <3>2. QueueType'
      BY <2>12 DEF CheckQueue, PumpWoken, PumpTimeout, QueueType
    <3>3. HistoryType'
      BY <2>12 DEF CheckQueue, PumpWoken, PumpTimeout, HistoryType, Outcomes
    <3> QED
      BY <3>1, <3>2, <3>3 DEF TypeOK
  <2>13. CASE NativeEvent \/ EndDispatch
    <3>1. ControlType'
      BY <2>13 DEF NativeEvent, EndDispatch, ControlType, Phases, Steps
    <3>2. QueueType'
      BY <2>13 DEF NativeEvent, EndDispatch, QueueType
    <3>3. HistoryType'
      BY <2>13 DEF NativeEvent, EndDispatch, HistoryType, Outcomes
    <3> QED
      BY <3>1, <3>2, <3>3 DEF TypeOK
  <2>14. CASE PumpStopped \/ Return
    <3>1. ControlType'
      BY <2>14 DEF PumpStopped, Return, ControlType, Phases, Steps
    <3>2. QueueType'
      BY <2>14 DEF PumpStopped, Return, QueueType
    <3>3. HistoryType'
      BY <2>14 DEF PumpStopped, Return, HistoryType, Outcomes
    <3> QED
      BY <3>1, <3>2, <3>3 DEF TypeOK
  <2>15. CASE Finish
    <3>1. ControlType'
      BY <2>15 DEF Finish, ControlType, Phases, Steps
    <3>2. QueueType'
      BY <2>15 DEF Finish, QueueType
    <3>3. HistoryType'
      BY <2>15 DEF Finish, HistoryType, Outcomes
    <3> QED
      BY <3>1, <3>2, <3>3 DEF TypeOK
  <2>16. CASE RejectNext
    <3>1. ControlType'
      BY <2>16, HeadTailType DEF RejectNext, ControlType, Phases, Steps
    <3>2. QueueType'
      BY <2>16, HeadTailType DEF RejectNext, QueueType
    <3>3. HistoryType'
      BY <2>16, HeadTailType DEF RejectNext, HistoryType, Outcomes
    <3> QED
      BY <3>1, <3>2, <3>3 DEF TypeOK
  <2>17. CASE UNCHANGED vars
    BY <2>17 DEF vars, TypeOK, ControlType, QueueType, HistoryType
  <2> QED
    BY <2>1, <2>2, <2>3, <2>4, <2>5, <2>6, <2>7, <2>8, <2>9, <2>10, <2>11, <2>12, <2>13, <2>14, <2>15, <2>16, <2>17 DEF Next, Call, Loop
<1> QED
  BY <1>1, <1>2, PTL DEF Spec

------------------------------------------------------------------------------
(* Where Run is determines the phase, and which deques can be in use.       *)
Control ==
  /\ pc = "idle" => phase \in {"Ready", "Stopped"}
  /\ pc = "starting" => phase = "Starting"
  /\ pc \in {"take", "drain", "pump", "dispatch"} => phase = "Running"
  /\ pc \in {"stop", "finish"} => phase = "Stopping"
  /\ pc \in {"reject", "done"} => phase = "Stopped"
  /\ pc \notin {"starting", "drain", "dispatch"} => running = <<>>
  /\ pc # "drain" => pending = <<>>
  /\ phase # "Stopped" => rejecting = <<>>
  /\ phase \in {"Stopping", "Stopped"} => ~accepting /\ commands = <<>>

LEMMA ControlInit == Init => Control
  BY DEF Init, Control

LEMMA ControlStep == TypeOK /\ Control /\ [Next]_vars => Control'
<1> SUFFICES ASSUME ControlType, Control, [Next]_vars
             PROVE  Control'
  BY DEF TypeOK
<1> USE DEF state, runner, history, SwapOut, NeverServed, StopNow, ContinuePumping
<1>1. ASSUME NEW t \in Thread, NEW op \in Posts, Post(t, op)
      PROVE  Control'
  BY <1>1 DEF Post, Control
<1>2. ASSUME NEW t \in Thread, NEW op \in Submits, Dispatch(t, op)
      PROVE  Control'
  BY <1>2 DEF Dispatch, ExecutesInline, MayCall, InCallback, Control, ControlType, Steps
<1>3. ASSUME NEW t \in Thread, RequestStop(t)
      PROVE  Control'
  BY <1>3 DEF RequestStop, Control
<1>4. ASSUME NEW t \in Thread, Abandon(t)
      PROVE  Control'
  BY <1>4 DEF Abandon, Control, ControlType, Steps
<1>5. ASSUME NEW t \in Thread, Run(t)
      PROVE  Control'
  BY <1>5 DEF Run, Control, ControlType, Steps
<1>6. ASSUME NEW t \in Thread, Wake(t)
      PROVE  Control'
  BY <1>6 DEF Wake, Control
<1>7. CASE StartSucceeds
  BY <1>7 DEF StartSucceeds, AtStep, Control
<1>8. CASE StartFails
  BY <1>8 DEF StartFails, AtStep, Control
<1>9. CASE Take
  BY <1>9 DEF Take, AtStep, Control
<1>10. CASE Execute
  BY <1>10 DEF Execute, AtStep, Control
<1>11. CASE Complete
  BY <1>11 DEF Complete, Control
<1>12. CASE CheckQueue
  BY <1>12 DEF CheckQueue, AtStep, Control
<1>13. CASE PumpWoken \/ PumpTimeout \/ NativeEvent \/ EndDispatch
  BY <1>13 DEF PumpWoken, PumpTimeout, NativeEvent, EndDispatch, AtStep, Control
<1>14. CASE PumpStopped
  BY <1>14 DEF PumpStopped, AtStep, Control
<1>15. CASE Finish
  BY <1>15 DEF Finish, AtStep, Control
<1>16. CASE RejectNext
  BY <1>16 DEF RejectNext, Control
<1>17. CASE Return
  BY <1>17 DEF Return, AtStep, Control
<1>18. CASE UNCHANGED vars
  BY <1>18 DEF vars, Control
<1> QED
  BY <1>1, <1>2, <1>3, <1>4, <1>5, <1>6, <1>7, <1>8, <1>9, <1>10, <1>11,
     <1>12, <1>13, <1>14, <1>15, <1>16, <1>17, <1>18 DEF Next, Call, Loop

THEOREM ControlCorrect == Spec => []Control
<1>1. Init => Control
  BY ControlInit
<1>2. TypeOK /\ Control /\ [Next]_vars => Control'
  BY ControlStep
<1> QED
  BY <1>1, <1>2, TypeCorrect, PTL DEF Spec

(* Admission is closed and nothing accepted is left when the pump stops:    *)
(* the loop that rejects leftovers after the pump stopped never has any.    *)
THEOREM DrainedBeforeStopHolds == Spec => []DrainedBeforeStop
<1>1. Control => DrainedBeforeStop
  BY DEF Control, DrainedBeforeStop
<1> QED
  BY <1>1, ControlCorrect, PTL

------------------------------------------------------------------------------
LEMMA WakeupStep ==
  TypeOK /\ Control /\ NoLostWakeup /\ [Next]_vars => NoLostWakeup'
<1> SUFFICES ASSUME ControlType, Control, NoLostWakeup, [Next]_vars
             PROVE  NoLostWakeup'
  BY DEF TypeOK
<1> USE DEF state, runner, history, SwapOut, NeverServed, StopNow, ContinuePumping
<1>1. ASSUME NEW t \in Thread, NEW op \in Posts, Post(t, op)
      PROVE  NoLostWakeup'
  BY <1>1 DEF Post, WakeIfRunning, Control, NoLostWakeup
<1>2. ASSUME NEW t \in Thread, NEW op \in Submits, Dispatch(t, op)
      PROVE  NoLostWakeup'
  BY <1>2 DEF Dispatch, WakeIfRunning, Control, NoLostWakeup
<1>3. ASSUME NEW t \in Thread, RequestStop(t)
      PROVE  NoLostWakeup'
  BY <1>3 DEF RequestStop, WakeIfRunning, Control, NoLostWakeup
<1>4. ASSUME NEW t \in Thread, Abandon(t)
      PROVE  NoLostWakeup'
  BY <1>4 DEF Abandon, WakeIfRunning, Control, NoLostWakeup
<1>5. ASSUME NEW t \in Thread, Run(t)
      PROVE  NoLostWakeup'
  BY <1>5 DEF Run, NoLostWakeup
<1>6. ASSUME NEW t \in Thread, Wake(t)
      PROVE  NoLostWakeup'
  BY <1>6 DEF Wake, NoLostWakeup
<1>7. CASE StartSucceeds \/ StartFails \/ Take
  BY <1>7 DEF StartSucceeds, StartFails, Take, AtStep, NoLostWakeup
<1>8. CASE Execute \/ CheckQueue
  BY <1>8 DEF Execute, CheckQueue, AtStep, NoLostWakeup
<1>9. CASE Complete
  BY <1>9 DEF Complete, NoLostWakeup
<1>10. CASE PumpWoken \/ PumpTimeout \/ NativeEvent \/ EndDispatch
  BY <1>10 DEF PumpWoken, PumpTimeout, NativeEvent, EndDispatch, NoLostWakeup
<1>11. CASE PumpStopped \/ Finish \/ RejectNext \/ Return
  BY <1>11 DEF PumpStopped, Finish, RejectNext, Return, NoLostWakeup
<1>12. CASE UNCHANGED vars
  BY <1>12 DEF vars, NoLostWakeup
<1> QED
  BY <1>1, <1>2, <1>3, <1>4, <1>5, <1>6, <1>7, <1>8, <1>9, <1>10, <1>11, <1>12
     DEF Next, Call, Loop

(* The event thread never blocks in the pump with a command to run or a     *)
(* stop to honour unless a wake is pending or on its way.                   *)
THEOREM NoLostWakeupHolds == Spec => []NoLostWakeup
<1>1. Init => NoLostWakeup
  BY DEF Init, NoLostWakeup
<1> QED
  BY <1>1, WakeupStep, TypeCorrect, ControlCorrect, PTL DEF Spec

(* Only a rejection loop discards, and one has work only once the runtime   *)
(* stopped without having served its queue.                                 *)
THEOREM AcceptedIsExecutedHolds == Spec => AcceptedIsExecuted
<1>1. TypeOK /\ Control /\ [Next]_vars =>
        [Driving => \A op \in Op : outcome[op] = "none"
                                     => outcome'[op] # "discarded"]_vars
  <2> SUFFICES ASSUME HistoryType, Control, Next,
                      Driving, NEW op \in Op, outcome[op] = "none"
               PROVE  outcome'[op] # "discarded"
    BY DEF TypeOK
  <2> USE DEF state, runner, history, SwapOut, NeverServed, StopNow, ContinuePumping
  <2>1. ASSUME NEW t \in Thread, NEW o \in Posts, Post(t, o)
        PROVE  outcome'[op] # "discarded"
    BY <2>1 DEF Post, HistoryType
  <2>2. ASSUME NEW t \in Thread, NEW o \in Submits, Dispatch(t, o)
        PROVE  outcome'[op] # "discarded"
    BY <2>2 DEF Dispatch, HistoryType
  <2>3. ASSUME NEW t \in Thread, RequestStop(t) \/ Abandon(t) \/ Run(t) \/ Wake(t)
        PROVE  outcome'[op] # "discarded"
    BY <2>3 DEF RequestStop, Abandon, Run, Wake
  <2>4. CASE Complete
    BY <2>4 DEF Complete, HistoryType
  <2>5. CASE RejectNext
    BY <2>5 DEF RejectNext, Control, Driving
  <2>6. CASE StartSucceeds \/ StartFails \/ Take \/ Execute \/ CheckQueue
    BY <2>6 DEF StartSucceeds, StartFails, Take, Execute, CheckQueue
  <2>7. CASE PumpWoken \/ PumpTimeout \/ NativeEvent \/ EndDispatch
    BY <2>7 DEF PumpWoken, PumpTimeout, NativeEvent, EndDispatch
  <2>8. CASE PumpStopped \/ Finish \/ Return
    BY <2>8 DEF PumpStopped, Finish, Return
  <2> QED
    BY <2>1, <2>2, <2>3, <2>4, <2>5, <2>6, <2>7, <2>8 DEF Next, Call, Loop
<1> QED
  BY <1>1, TypeCorrect, ControlCorrect, PTL DEF Spec, AcceptedIsExecuted

------------------------------------------------------------------------------
(* What the operations on a deque do to the commands it holds.              *)

LEMMA AppendHolds ==
  ASSUME NEW S, NEW s \in Seq(S), NEW e \in S
  PROVE  /\ Range(Append(s, e)) = Range(s) \cup {e}
         /\ IsInjective(s) /\ e \notin Range(s) => IsInjective(Append(s, e))
<1>1. /\ Len(Append(s, e)) = Len(s) + 1
      /\ DOMAIN Append(s, e) = 1 .. Len(s) + 1
      /\ \A i \in 1 .. Len(s) : Append(s, e)[i] = s[i]
      /\ Append(s, e)[Len(s) + 1] = e
      /\ DOMAIN s = 1 .. Len(s) /\ Len(s) \in Nat
  OBVIOUS
<1>2. DOMAIN Append(s, e) = DOMAIN s \cup {Len(s) + 1}
  BY <1>1
<1>3. Range(Append(s, e)) = Range(s) \cup {e}
  BY <1>1, <1>2 DEF Range
<1>4. ASSUME IsInjective(s), e \notin Range(s)
      PROVE  IsInjective(Append(s, e))
  BY <1>1, <1>2, <1>4 DEF IsInjective, Range
<1> QED
  BY <1>3, <1>4

LEMMA TailHolds ==
  ASSUME NEW S, NEW s \in Seq(S), s # <<>>, IsInjective(s)
  PROVE  /\ Range(Tail(s)) = Range(s) \ {Head(s)}
         /\ Head(s) \in Range(s)
         /\ IsInjective(Tail(s))
<1>1. /\ DOMAIN s = 1 .. Len(s) /\ Len(s) \in Nat /\ Len(s) > 0
      /\ Head(s) = s[1]
      /\ DOMAIN Tail(s) = 1 .. Len(s) - 1
      /\ \A i \in 1 .. Len(s) - 1 : Tail(s)[i] = s[i + 1]
  OBVIOUS
<1>2. \A i, j \in 1 .. Len(s) : s[i] = s[j] => i = j
  BY <1>1 DEF IsInjective
<1>3. ASSUME NEW e \in Range(s) \ {Head(s)}
      PROVE  e \in Range(Tail(s))
  <2>1. PICK i \in 1 .. Len(s) : s[i] = e
    BY <1>1 DEF Range
  <2>2. i - 1 \in 1 .. Len(s) - 1 /\ Tail(s)[i - 1] = e
    BY <1>1, <2>1
  <2> QED
    BY <1>1, <2>2 DEF Range
<1>4. ASSUME NEW e \in Range(Tail(s))
      PROVE  e \in Range(s) \ {Head(s)}
  <2>1. PICK i \in 1 .. Len(s) - 1 : s[i + 1] = e
    BY <1>1 DEF Range
  <2>2. i + 1 \in 1 .. Len(s) /\ 1 \in 1 .. Len(s) /\ i + 1 # 1
    BY <1>1
  <2> QED
    BY <1>1, <1>2, <2>1, <2>2 DEF Range
<1>5. Head(s) \in Range(s)
  BY <1>1 DEF Range
<1>6. IsInjective(Tail(s))
  BY <1>1, <1>2 DEF IsInjective
<1> QED
  BY <1>3, <1>4, <1>5, <1>6

LEMMA FrontHolds ==
  ASSUME NEW S, NEW s \in Seq(S), s # <<>>, IsInjective(s)
  PROVE  /\ Range(SubSeq(s, 1, Len(s) - 1)) = Range(s) \ {s[Len(s)]}
         /\ s[Len(s)] \in Range(s)
         /\ IsInjective(SubSeq(s, 1, Len(s) - 1))
<1> DEFINE f == SubSeq(s, 1, Len(s) - 1)
<1>1. /\ DOMAIN s = 1 .. Len(s) /\ Len(s) \in Nat /\ Len(s) > 0
      /\ DOMAIN f = 1 .. Len(s) - 1
      /\ \A i \in 1 .. Len(s) - 1 : f[i] = s[i]
  OBVIOUS
<1> HIDE DEF f
<1>2. \A i, j \in 1 .. Len(s) : s[i] = s[j] => i = j
  BY <1>1 DEF IsInjective
<1>3. 1 .. Len(s) = (1 .. Len(s) - 1) \cup {Len(s)} /\ Len(s) \notin 1 .. Len(s) - 1
  BY <1>1
<1>4. Range(f) = Range(s) \ {s[Len(s)]}
  BY <1>1, <1>2, <1>3 DEF Range
<1>5. s[Len(s)] \in Range(s)
  BY <1>1 DEF Range
<1>6. IsInjective(f)
  BY <1>1, <1>2 DEF IsInjective
<1> QED
  BY <1>4, <1>5, <1>6 DEF f

LEMMA EmptyHolds == Range(<<>>) = {} /\ IsInjective(<<>>)
  BY DEF Range, IsInjective

LEMMA SingletonHolds ==
  ASSUME NEW e
  PROVE  Range(<<e>>) = {e} /\ IsInjective(<<e>>)
  BY DEF Range, IsInjective

------------------------------------------------------------------------------
LEMMA HeldInit == Init => HeldExactlyOnce
  BY EmptyHolds DEF Init, HeldExactlyOnce, Apart, InFlight

LEMMA HeldStep ==
  TypeOK /\ Control /\ HeldExactlyOnce /\ [Next]_vars => HeldExactlyOnce'
<1> SUFFICES ASSUME QueueType, HistoryType, Control, HeldExactlyOnce, [Next]_vars
             PROVE  HeldExactlyOnce'
  BY DEF TypeOK
<1> USE DEF state, runner, history, SwapOut, NeverServed, StopNow, ContinuePumping
<1>a. ASSUME UNCHANGED <<commands, pending, rejecting, running, called, outcome>>
      PROVE  HeldExactlyOnce'
  BY <1>a DEF HeldExactlyOnce, Apart, InFlight
<1>b. ASSUME NEW op \in Op \ called,
             UNCHANGED <<commands, pending, rejecting, running>>,
             called' = called \cup {op},
             outcome' = [outcome EXCEPT ![op] = "refused"]
      PROVE  HeldExactlyOnce'
  BY <1>b DEF HeldExactlyOnce, Apart, InFlight, HistoryType
<1>c. ASSUME NEW op \in Op \ called,
             commands' = Append(commands, op),
             called' = called \cup {op},
             UNCHANGED <<pending, rejecting, running, outcome>>
      PROVE  HeldExactlyOnce'
  <2>1. op \notin InFlight /\ outcome[op] = "none"
    BY <1>c DEF HeldExactlyOnce
  <2>2. Range(commands') = Range(commands) \cup {op} /\ IsInjective(commands')
    BY <1>c, <2>1, AppendHolds DEF QueueType, HeldExactlyOnce, InFlight
  <2> QED
    BY <1>c, <2>1, <2>2 DEF HeldExactlyOnce, Apart, InFlight
<1>1. ASSUME NEW t \in Thread, NEW op \in Posts, Post(t, op)
      PROVE  HeldExactlyOnce'
  <2>1. op \in Op \ called
    BY <1>1 DEF Post, Op
  <2>2. CASE accepting
    BY <1>1, <1>c, <2>1, <2>2 DEF Post
  <2>3. CASE ~accepting
    BY <1>1, <1>b, <2>1, <2>3 DEF Post
  <2> QED
    BY <2>2, <2>3
<1>2. ASSUME NEW t \in Thread, NEW op \in Submits, Dispatch(t, op)
      PROVE  HeldExactlyOnce'
  <2>1. op \in Op \ called
    BY <1>2 DEF Dispatch, Op
  <2>2. CASE ~accepting
    BY <1>2, <1>b, <2>1, <2>2 DEF Dispatch
  <2>3. CASE accepting /\ ~ExecutesInline(t)
    BY <1>2, <1>c, <2>1, <2>3 DEF Dispatch
  <2>4. CASE accepting /\ ExecutesInline(t)
    <3>1. /\ running' = Append(running, op)
          /\ called' = called \cup {op}
          /\ UNCHANGED <<commands, pending, rejecting, outcome>>
      BY <1>2, <2>4 DEF Dispatch
    <3>2. op \notin InFlight /\ outcome[op] = "none"
      BY <2>1 DEF HeldExactlyOnce
    <3>3. Range(running') = Range(running) \cup {op} /\ IsInjective(running')
      BY <2>1, <3>1, <3>2, AppendHolds DEF QueueType, HeldExactlyOnce, InFlight
    <3> QED
      BY <2>1, <3>1, <3>2, <3>3 DEF HeldExactlyOnce, Apart, InFlight
  <2> QED
    BY <2>2, <2>3, <2>4
<1>3. ASSUME NEW t \in Thread, RequestStop(t) \/ Run(t) \/ Wake(t)
      PROVE  HeldExactlyOnce'
  BY <1>3, <1>a DEF RequestStop, Run, Wake
<1>d. ASSUME phase # "Stopped",
             rejecting' = commands,
             commands' = <<>>,
             UNCHANGED <<pending, running, called, outcome>>
      PROVE  HeldExactlyOnce'
  BY <1>d, EmptyHolds DEF HeldExactlyOnce, Apart, InFlight, Control
<1>4. ASSUME NEW t \in Thread, Abandon(t)
      PROVE  HeldExactlyOnce'
  <2>1. CASE phase = "Ready"
    BY <1>4, <1>d, <2>1 DEF Abandon
  <2>2. CASE phase # "Ready"
    BY <1>4, <1>a, <2>2 DEF Abandon
  <2> QED
    BY <2>1, <2>2
<1>5. CASE StartSucceeds \/ CheckQueue \/ PumpStopped \/ Return
  BY <1>5, <1>a DEF StartSucceeds, CheckQueue, PumpStopped, Return
<1>6. CASE PumpWoken \/ PumpTimeout \/ NativeEvent \/ EndDispatch
  BY <1>6, <1>a DEF PumpWoken, PumpTimeout, NativeEvent, EndDispatch
<1>7. CASE StartFails
  BY <1>7, <1>d DEF StartFails, AtStep, Control
<1>8. CASE Finish
  BY <1>8, <1>d DEF Finish, AtStep, Control
<1>9. CASE Take
  <2>1. /\ pending = <<>>
        /\ pending' = commands /\ commands' = <<>>
        /\ UNCHANGED <<rejecting, running, called, outcome>>
    BY <1>9 DEF Take, AtStep, Control
  <2> QED
    BY <2>1, EmptyHolds DEF HeldExactlyOnce, Apart, InFlight
<1>10. CASE Execute
  <2>1. /\ running = <<>> /\ pending # <<>>
        /\ running' = <<Head(pending)>> /\ pending' = Tail(pending)
        /\ UNCHANGED <<commands, rejecting, called, outcome>>
    BY <1>10 DEF Execute, AtStep
  <2>2. /\ Range(pending') = Range(pending) \ {Head(pending)}
        /\ Head(pending) \in Range(pending)
        /\ IsInjective(pending')
    BY <2>1, TailHolds DEF QueueType, HeldExactlyOnce
  <2>3. Range(running') = {Head(pending)} /\ IsInjective(running')
    BY <2>1, SingletonHolds
  <2> QED
    BY <2>1, <2>2, <2>3, EmptyHolds DEF HeldExactlyOnce, Apart, InFlight
<1>11. CASE Complete
  <2> DEFINE op == running[Len(running)]
  <2>1. /\ running # <<>>
        /\ running' = SubSeq(running, 1, Len(running) - 1)
        /\ outcome' = [outcome EXCEPT ![op] = "executed"]
        /\ UNCHANGED <<commands, pending, rejecting, called>>
    BY <1>11 DEF Complete
  <2>2. /\ Range(running') = Range(running) \ {op}
        /\ op \in Range(running)
        /\ IsInjective(running')
    BY <2>1, FrontHolds DEF QueueType, HeldExactlyOnce
  <2> HIDE DEF op
  <2>3. op \in called /\ op \in Op /\ outcome'[op] = "executed"
    BY <2>1, <2>2 DEF HeldExactlyOnce, InFlight, HistoryType
  <2>4. \A o \in Op : o # op => outcome'[o] = outcome[o]
    BY <2>1 DEF HistoryType
  <2> QED
    BY <2>1, <2>2, <2>3, <2>4 DEF HeldExactlyOnce, Apart, InFlight, HistoryType
<1>12. CASE RejectNext
  <2> DEFINE op == Head(rejecting)
  <2>1. /\ rejecting # <<>>
        /\ rejecting' = Tail(rejecting)
        /\ outcome' = [outcome EXCEPT ![op] = "discarded"]
        /\ UNCHANGED <<commands, pending, running, called>>
    BY <1>12 DEF RejectNext
  <2>2. /\ Range(rejecting') = Range(rejecting) \ {op}
        /\ op \in Range(rejecting)
        /\ IsInjective(rejecting')
    BY <2>1, TailHolds DEF QueueType, HeldExactlyOnce
  <2> HIDE DEF op
  <2>3. op \in called /\ op \in Op /\ outcome'[op] = "discarded"
    BY <2>1, <2>2 DEF HeldExactlyOnce, InFlight, HistoryType
  <2>4. \A o \in Op : o # op => outcome'[o] = outcome[o]
    BY <2>1 DEF HistoryType
  <2> QED
    BY <2>1, <2>2, <2>3, <2>4 DEF HeldExactlyOnce, Apart, InFlight, HistoryType
<1>13. CASE UNCHANGED vars
  BY <1>13, <1>a DEF vars
<1> QED
  BY <1>1, <1>2, <1>3, <1>4, <1>5, <1>6, <1>7, <1>8, <1>9, <1>10, <1>11,
     <1>12, <1>13 DEF Next, Call, Loop

(* Every operation handed over is in exactly one place until it ends, and   *)
(* ends once: the deques that leave the lock neither lose nor repeat one.   *)
THEOREM HeldExactlyOnceHolds == Spec => []HeldExactlyOnce
  BY HeldInit, HeldStep, TypeCorrect, ControlCorrect, PTL DEF Spec

------------------------------------------------------------------------------
(* While the runtime has not stopped, what the event thread posted is still *)
(* held or was executed; when the pump is entered it was executed.          *)
OwnPostsInv ==
  /\ ownPosts \subseteq called
  /\ phase # "Stopped" => \A op \in ownPosts : outcome[op] \in {"none", "executed"}
  /\ OwnPostsPrecedeNextEvent

LEMMA OwnPostsStep ==
  TypeOK /\ Control /\ HeldExactlyOnce /\ OwnPostsInv /\ [Next]_vars => OwnPostsInv'
<1> SUFFICES ASSUME HistoryType, Control, HeldExactlyOnce, OwnPostsInv, [Next]_vars
             PROVE  OwnPostsInv'
  BY DEF TypeOK
<1> USE DEF state, runner, history, SwapOut, NeverServed, StopNow, ContinuePumping
<1>a. ASSUME UNCHANGED <<called, ownPosts, outcome>>,
             phase = "Stopped" => phase' = "Stopped",
             pc' = "pump" => pc = "pump"
      PROVE  OwnPostsInv'
  BY <1>a DEF OwnPostsInv, OwnPostsPrecedeNextEvent
<1>b. ASSUME NEW op \in Op \ called, UNCHANGED <<phase, pc, ownPosts>>,
             called' = called \cup {op},
             \/ UNCHANGED outcome
             \/ outcome' = [outcome EXCEPT ![op] = "refused"]
      PROVE  OwnPostsInv'
  <2>1. op \notin ownPosts
    BY <1>b DEF OwnPostsInv
  <2>2. \A o \in ownPosts : outcome'[o] = outcome[o]
    BY <1>b, <2>1 DEF HistoryType
  <2> QED
    BY <1>b, <2>2 DEF OwnPostsInv, OwnPostsPrecedeNextEvent
<1>1. ASSUME NEW t \in Thread, NEW op \in Posts, Post(t, op)
      PROVE  OwnPostsInv'
  <2>1. op \in Op \ called
    BY <1>1 DEF Post, Op
  <2>2. CASE ~accepting \/ t # eventThread
    BY <1>1, <1>b, <2>1, <2>2 DEF Post
  <2>3. CASE accepting /\ t = eventThread
    <3>1. pc # "pump"
      BY <1>1, <2>3 DEF Post, MayCall, InCallback, Control
    <3>2. outcome[op] = "none"
      BY <2>1 DEF HeldExactlyOnce
    <3> QED
      BY <1>1, <2>3, <3>1, <3>2 DEF Post, OwnPostsInv, OwnPostsPrecedeNextEvent
  <2> QED
    BY <2>2, <2>3
<1>2. ASSUME NEW t \in Thread, NEW op \in Submits, Dispatch(t, op)
      PROVE  OwnPostsInv'
  <2>1. op \in Op \ called
    BY <1>2 DEF Dispatch, Op
  <2> QED
    BY <1>2, <1>b, <2>1 DEF Dispatch
<1>3. ASSUME NEW t \in Thread, RequestStop(t) \/ Abandon(t) \/ Run(t) \/ Wake(t)
      PROVE  OwnPostsInv'
  BY <1>3, <1>a DEF RequestStop, Abandon, Run, Wake
<1>4. CASE StartSucceeds \/ StartFails \/ Take \/ Execute
  BY <1>4, <1>a DEF StartSucceeds, StartFails, Take, Execute, AtStep, Control
<1>5. CASE CheckQueue
  <2>1. CASE pc' = "pump"
    <3>1. commands = <<>> /\ pending = <<>> /\ running = <<>> /\ rejecting = <<>>
      BY <1>5, <2>1 DEF CheckQueue, AtStep, Control
    <3>2. \A op \in called : outcome[op] # "none"
      BY <3>1, EmptyHolds DEF HeldExactlyOnce, InFlight
    <3>3. \A op \in ownPosts : outcome[op] = "executed"
      BY <1>5, <3>2 DEF CheckQueue, AtStep, Control, OwnPostsInv
    <3> QED
      BY <1>5, <3>3 DEF CheckQueue, OwnPostsInv, OwnPostsPrecedeNextEvent
  <2>2. CASE pc' # "pump"
    BY <1>5, <1>a, <2>2 DEF CheckQueue
  <2> QED
    BY <2>1, <2>2
<1>6. CASE Complete
  <2>1. pc # "pump" /\ pc' = pc
    BY <1>6 DEF Complete, Control
  <2>2. \A op \in Op : outcome'[op] \in {outcome[op], "executed"}
    BY <1>6 DEF Complete, HistoryType
  <2>3. UNCHANGED <<called, ownPosts, phase>>
    BY <1>6 DEF Complete
  <2> QED
    BY <2>1, <2>2, <2>3 DEF HistoryType, OwnPostsInv, OwnPostsPrecedeNextEvent
<1>7. CASE PumpWoken \/ PumpTimeout \/ NativeEvent \/ EndDispatch
  BY <1>7, <1>a DEF PumpWoken, PumpTimeout, NativeEvent, EndDispatch
<1>8. CASE PumpStopped \/ Finish \/ Return
  BY <1>8, <1>a DEF PumpStopped, Finish, Return
<1>9. CASE RejectNext
  BY <1>9 DEF RejectNext, Control, OwnPostsInv, OwnPostsPrecedeNextEvent
<1>10. CASE UNCHANGED vars
  BY <1>10, <1>a DEF vars
<1> QED
  BY <1>1, <1>2, <1>3, <1>4, <1>5, <1>6, <1>7, <1>8, <1>9, <1>10
     DEF Next, Call, Loop

(* Work posted by an event callback runs before the next native event.      *)
THEOREM OwnPostsPrecedeNextEventHolds == Spec => []OwnPostsPrecedeNextEvent
<1>1. Init => OwnPostsInv
  BY DEF Init, OwnPostsInv, OwnPostsPrecedeNextEvent
<1>2. OwnPostsInv => OwnPostsPrecedeNextEvent
  BY DEF OwnPostsInv
<1> QED
  BY <1>1, <1>2, OwnPostsStep, TypeCorrect, ControlCorrect, HeldExactlyOnceHolds, PTL
     DEF Spec

------------------------------------------------------------------------------
(* The queue a caller sees is a concatenation of the deques.                *)

LEMMA ConcatEmpty ==
  ASSUME NEW S, NEW s \in Seq(S)
  PROVE  s \o <<>> = s /\ <<>> \o s = s
  OBVIOUS

LEMMA ConcatAppend ==
  ASSUME NEW S, NEW s \in Seq(S), NEW u \in Seq(S), NEW e \in S
  PROVE  s \o Append(u, e) = Append(s \o u, e)
  OBVIOUS

LEMMA ConcatHeadTail ==
  ASSUME NEW S, NEW s \in Seq(S), NEW u \in Seq(S), s # <<>>
  PROVE  /\ s \o u # <<>>
         /\ Head(s \o u) = Head(s)
         /\ Tail(s \o u) = Tail(s) \o u
  OBVIOUS

LEMMA ConcatType ==
  ASSUME NEW S, NEW s \in Seq(S), NEW u \in Seq(S)
  PROVE  s \o u \in Seq(S)
  OBVIOUS

LEMMA ConcatRange ==
  ASSUME NEW S, NEW s \in Seq(S), NEW u \in Seq(S)
  PROVE  Range(s \o u) = Range(s) \cup Range(u)
<1>1. /\ DOMAIN s = 1 .. Len(s) /\ Len(s) \in Nat
      /\ DOMAIN u = 1 .. Len(u) /\ Len(u) \in Nat
      /\ DOMAIN (s \o u) = 1 .. Len(s) + Len(u)
      /\ \A i \in 1 .. Len(s) : (s \o u)[i] = s[i]
      /\ \A i \in 1 .. Len(u) : (s \o u)[Len(s) + i] = u[i]
  OBVIOUS
<1>2. ASSUME NEW e \in Range(s \o u)
      PROVE  e \in Range(s) \cup Range(u)
  <2>1. PICK i \in 1 .. Len(s) + Len(u) : (s \o u)[i] = e
    BY <1>1 DEF Range
  <2>2. CASE i \in 1 .. Len(s)
    BY <1>1, <2>1, <2>2 DEF Range
  <2>3. CASE i \notin 1 .. Len(s)
    <3>1. i - Len(s) \in 1 .. Len(u) /\ i = Len(s) + (i - Len(s))
      BY <1>1, <2>3
    <3> QED
      BY <1>1, <2>1, <3>1 DEF Range
  <2> QED
    BY <2>2, <2>3
<1>3. ASSUME NEW e \in Range(s)
      PROVE  e \in Range(s \o u)
  <2>1. PICK i \in 1 .. Len(s) : s[i] = e
    BY <1>1 DEF Range
  <2>2. i \in 1 .. Len(s) + Len(u)
    BY <1>1
  <2> QED
    BY <1>1, <2>1, <2>2 DEF Range
<1>4. ASSUME NEW e \in Range(u)
      PROVE  e \in Range(s \o u)
  <2>1. PICK i \in 1 .. Len(u) : u[i] = e
    BY <1>1 DEF Range
  <2>2. Len(s) + i \in 1 .. Len(s) + Len(u)
    BY <1>1
  <2> QED
    BY <1>1, <2>1, <2>2 DEF Range
<1> QED
  BY <1>2, <1>3, <1>4

VisibleQueue == rejecting \o pending \o commands

(* Every step of the runtime is a step of the executor or changes nothing   *)
(* the executor shows.                                                      *)
LEMMA ExecutorStep ==
  TypeOK /\ Control /\ HeldExactlyOnce /\ [Next]_vars
    => [Executor!Next]_(Executor!vars)
<1> SUFFICES ASSUME ControlType, QueueType, HistoryType, Control, HeldExactlyOnce,
                    [Next]_vars
             PROVE  [Executor!Next]_(Executor!vars)
  BY DEF TypeOK
<1> USE DEF state, runner, history, SwapOut, NeverServed, StopNow, ContinuePumping
<1> DEFINE q == VisibleQueue
<1>q. /\ q \in Seq(Op)
      /\ rejecting \o pending \in Seq(Op)
      /\ Range(q) = Range(rejecting) \cup Range(pending) \cup Range(commands)
  <2> DEFINE r == rejecting \o pending
  <2>1. r \in Seq(Op) /\ Range(r) = Range(rejecting) \cup Range(pending)
    BY ConcatType, ConcatRange DEF QueueType
  <2> HIDE DEF r
  <2>2. r \o commands \in Seq(Op) /\ Range(r \o commands) = Range(r) \cup Range(commands)
    BY <2>1, ConcatType, ConcatRange DEF QueueType
  <2> QED
    BY <2>1, <2>2 DEF r, VisibleQueue
<1>f. ASSUME NEW op \in Op \ called
      PROVE  Executor!Fresh(op)
  <2>1. op \notin InFlight /\ outcome[op] = "none"
    BY DEF HeldExactlyOnce
  <2>2. op \notin Range(VisibleQueue) \cup Range(running)
    BY <1>q, <2>1 DEF InFlight
  <2> QED
    BY <2>1, <2>2 DEF Executor!Fresh, VisibleQueue, Range, Executor!Range
<1>s. ASSUME UNCHANGED <<accepting, rejecting, pending, commands, running, outcome>>,
             ExecutorMode' = ExecutorMode
      PROVE  UNCHANGED Executor!vars
  BY <1>s DEF Executor!vars
<1>c. ASSUME UNCHANGED <<rejecting, pending, commands, running, outcome>>,
             ExecutorMode' = ExecutorMode, accepting' = FALSE, accepting
      PROVE  Executor!Close
  BY <1>c DEF Executor!Close
<1>a. ASSUME NEW op \in Op \ called, accepting, commands' = Append(commands, op),
             UNCHANGED <<phase, accepting, rejecting, pending, running, outcome>>
      PROVE  Executor!Admit(op)
  <2>1. VisibleQueue' = Append(q, op)
    BY <1>a, <1>q, ConcatAppend DEF QueueType, VisibleQueue
  <2> QED
    BY <1>a, <1>f, <2>1 DEF Executor!Admit, VisibleQueue, ExecutorMode
<1>r. ASSUME NEW op \in Op \ called, ~accepting,
             outcome' = [outcome EXCEPT ![op] = "refused"],
             UNCHANGED <<phase, accepting, rejecting, pending, commands, running>>
      PROVE  Executor!Refuse(op)
  BY <1>r, <1>f DEF Executor!Refuse, ExecutorMode
<1>1. ASSUME NEW t \in Thread, NEW op \in Posts, Post(t, op)
      PROVE  [Executor!Next]_(Executor!vars)
  <2>1. op \in Op \ called
    BY <1>1 DEF Post, Op
  <2>2. Executor!Admit(op) \/ Executor!Refuse(op)
    BY <1>1, <1>a, <1>r, <2>1 DEF Post
  <2> QED
    BY <2>1, <2>2 DEF Executor!Next
<1>2. ASSUME NEW t \in Thread, NEW op \in Submits, Dispatch(t, op)
      PROVE  [Executor!Next]_(Executor!vars)
  <2>1. op \in Op \ called
    BY <1>2 DEF Dispatch, Op
  <2>2. CASE ~accepting
    <3>1. Executor!Refuse(op)
      BY <1>2, <1>r, <2>1, <2>2 DEF Dispatch
    <3> QED
      BY <2>1, <3>1 DEF Executor!Next
  <2>3. CASE accepting /\ ~ExecutesInline(t)
    <3>1. Executor!Admit(op)
      BY <1>2, <1>a, <2>1, <2>3 DEF Dispatch
    <3> QED
      BY <2>1, <3>1 DEF Executor!Next
  <2>4. CASE accepting /\ ExecutesInline(t)
    <3>1. Executor!RunInline(op)
      BY <1>2, <1>f, <2>1, <2>4 DEF Dispatch, Executor!RunInline, ExecutorMode
    <3> QED
      BY <2>1, <3>1 DEF Executor!Next
  <2> QED
    BY <2>2, <2>3, <2>4
<1>3. ASSUME NEW t \in Thread, RequestStop(t)
      PROVE  [Executor!Next]_(Executor!vars)
  <2>1. Executor!Close
    BY <1>3, <1>c DEF RequestStop, ExecutorMode
  <2> QED
    BY <2>1 DEF Executor!Next
<1>v. ASSUME phase \in {"Ready", "Starting"}, phase' = "Stopped", accepting' = FALSE,
             running = <<>>, rejecting' = commands, commands' = <<>>,
             UNCHANGED <<pending, running, outcome>>
      PROVE  [Executor!Next]_(Executor!vars)
  <2>1. rejecting = <<>> /\ pending = <<>>
    BY <1>v DEF Control, ControlType, Steps
  <2>2. VisibleQueue' = VisibleQueue
    BY <1>v, <2>1, ConcatEmpty DEF QueueType, VisibleQueue
  <2>3. Executor!Fail
    BY <1>v, <2>2 DEF Executor!Fail, ExecutorMode, VisibleQueue
  <2> QED
    BY <2>3 DEF Executor!Next
<1>4. ASSUME NEW t \in Thread, Abandon(t)
      PROVE  [Executor!Next]_(Executor!vars)
  <2>1. CASE phase = "Ready"
    <3>1. running = <<>>
      BY <2>1 DEF Control, ControlType, Steps
    <3> QED
      BY <1>4, <1>v, <2>1, <3>1 DEF Abandon
  <2>2. CASE phase # "Ready"
    <3>1. /\ UNCHANGED <<rejecting, pending, commands, running, outcome, phase>>
          /\ accepting' = FALSE
      BY <1>4, <2>2 DEF Abandon
    <3>2. CASE accepting
      <4>1. Executor!Close
        BY <1>c, <3>1, <3>2 DEF ExecutorMode
      <4> QED
        BY <4>1 DEF Executor!Next
    <3>3. CASE ~accepting
      <4>1. UNCHANGED accepting
        BY <3>1, <3>3 DEF ControlType
      <4> QED
        BY <1>s, <3>1, <4>1 DEF ExecutorMode
    <3> QED
      BY <3>2, <3>3
  <2> QED
    BY <2>1, <2>2
<1>5. ASSUME NEW t \in Thread, Run(t) \/ Wake(t)
      PROVE  [Executor!Next]_(Executor!vars)
  BY <1>5, <1>s DEF Run, Wake, ExecutorMode
<1>6. CASE StartSucceeds
  <2>1. Executor!Serve
    BY <1>6 DEF StartSucceeds, AtStep, Control, Executor!Serve, ExecutorMode
  <2> QED
    BY <2>1 DEF Executor!Next
<1>7. CASE StartFails
  <2>1. phase = "Starting"
    BY <1>7 DEF StartFails, AtStep, Control
  <2> QED
    BY <1>7, <1>v, <2>1 DEF StartFails, AtStep
<1>8. CASE Take
  <2>1. /\ phase = "Running"
        /\ pending = <<>> /\ rejecting = <<>> /\ running = <<>>
        /\ UNCHANGED <<accepting, rejecting, running, outcome>>
        /\ pending' = commands /\ commands' = <<>>
    BY <1>8 DEF Take, AtStep, Control
  <2>2. VisibleQueue' = VisibleQueue
    BY <2>1, ConcatEmpty DEF QueueType, VisibleQueue
  <2>3. CASE ~accepting /\ commands = <<>>
    <3>1. q = <<>>
      BY <2>1, <2>3 DEF VisibleQueue
    <3>2. Executor!Finish
      BY <1>8, <2>1, <2>2, <2>3, <3>1 DEF Take, Executor!Finish, VisibleQueue, ExecutorMode
    <3> QED
      BY <3>2 DEF Executor!Next
  <2>4. CASE ~(~accepting /\ commands = <<>>)
    BY <1>8, <2>1, <2>2, <2>4 DEF Take, Executor!vars, VisibleQueue, ExecutorMode
  <2> QED
    BY <2>3, <2>4
<1>9. CASE Execute
  <2>1. /\ phase = "Running" /\ rejecting = <<>> /\ running = <<>> /\ pending # <<>>
        /\ UNCHANGED <<phase, accepting, rejecting, commands, outcome>>
        /\ pending' = Tail(pending) /\ running' = <<Head(pending)>>
    BY <1>9 DEF Execute, AtStep, Control
  <2>2. Tail(pending) \in Seq(Op)
    BY <2>1, HeadTailType DEF QueueType
  <2>3. q = pending \o commands /\ VisibleQueue' = Tail(pending) \o commands
    BY <2>1, <2>2, ConcatEmpty DEF QueueType, VisibleQueue
  <2>4. q # <<>> /\ Head(q) = Head(pending) /\ Tail(q) = VisibleQueue'
    BY <2>1, <2>3, ConcatHeadTail DEF QueueType
  <2>5. Executor!Begin
    BY <2>1, <2>4 DEF Executor!Begin, VisibleQueue, ExecutorMode
  <2> QED
    BY <2>5 DEF Executor!Next
<1>10. CASE Complete
  <2>1. Executor!End
    BY <1>10 DEF Complete, Executor!End, ExecutorMode
  <2> QED
    BY <2>1 DEF Executor!Next
<1>11. CASE CheckQueue \/ PumpWoken \/ PumpTimeout \/ NativeEvent
  BY <1>11, <1>s DEF CheckQueue, PumpWoken, PumpTimeout, NativeEvent, ExecutorMode
<1>12. CASE EndDispatch \/ PumpStopped \/ Return
  BY <1>12, <1>s DEF EndDispatch, PumpStopped, Return, ExecutorMode
<1>13. CASE Finish
  <2>1. /\ phase = "Stopping" /\ phase' = "Stopped"
        /\ rejecting = <<>> /\ commands = <<>>
        /\ rejecting' = commands /\ commands' = <<>>
        /\ UNCHANGED <<accepting, pending, running, outcome>>
    BY <1>13 DEF Finish, AtStep, Control
  <2> QED
    BY <1>s, <2>1 DEF ExecutorMode
<1>14. CASE RejectNext
  <2>1. /\ phase = "Stopped" /\ rejecting # <<>> /\ pending = <<>> /\ commands = <<>>
        /\ rejecting' = Tail(rejecting)
        /\ outcome' = [outcome EXCEPT ![Head(rejecting)] = "discarded"]
        /\ UNCHANGED <<phase, accepting, pending, commands, running>>
    BY <1>14 DEF RejectNext, Control
  <2>2. Tail(rejecting) \in Seq(Op)
    BY <2>1, HeadTailType DEF QueueType
  <2>3. q = rejecting /\ VisibleQueue' = Tail(rejecting)
    BY <2>1, <2>2, ConcatEmpty DEF QueueType, VisibleQueue
  <2>4. Executor!Discard
    BY <2>1, <2>3 DEF Executor!Discard, VisibleQueue, ExecutorMode
  <2> QED
    BY <2>4 DEF Executor!Next
<1>15. CASE UNCHANGED vars
  BY <1>15, <1>s DEF vars, ExecutorMode
<1> QED
  BY <1>1, <1>2, <1>3, <1>4, <1>5, <1>6, <1>7, <1>8, <1>9, <1>10, <1>11,
     <1>12, <1>13, <1>14, <1>15 DEF Next, Call, Loop

(* The runtime implements the executor: whatever threads race with it, what *)
(* a caller sees is one first-in first-out queue whose work is executed     *)
(* once and discarded only if it was never served.                          *)
THEOREM RuntimeImplementsExecutor == Spec => ImplementsExecutor
<1>1. Init => Executor!Init
  BY ConcatEmpty DEF Init, Executor!Init, ExecutorMode
<1> QED
  BY <1>1, ExecutorStep, TypeCorrect, ControlCorrect, HeldExactlyOnceHolds, PTL
     DEF Spec, ImplementsExecutor, Executor!Spec

==============================================================================
