-------------------------- MODULE ApplicationProofs --------------------------
(***************************************************************************)
(* An application with any number of hosted services, the first of which is*)
(* the one that makes it a console or a desktop application: it owns the   *)
(* process signals, or the root window.  Whichever service fails and       *)
(* whoever requests the stop, teardown is the reverse of startup, and what *)
(* that first service owns ends with the run.                              *)
(***************************************************************************)
EXTENDS CliApplication, GuiApplication, SequenceTheorems, TLAPS

(* Services are started in registration order and stopped from the last one    *)
(* back, one after the other.                                                  *)
Order == /\ started \in Seq(Nat) /\ stopped \in Seq(Nat)
         /\ \A i \in 1 .. Len(started) : started[i] = i
         /\ \A j \in 1 .. Len(stopped) : stopped[j] = Len(started) + 1 - j
         /\ Len(stopped) <= Len(started)

(* Stopping begins when nothing is started any more, and ends when everything  *)
(* is stopped.                                                                 *)
Phases == /\ pc \notin {"stopping", "inStop", "flushed", "done"} => stopped = <<>>
          /\ pc = "inStop" => Len(stopped) > 0
          /\ pc \in {"flushed", "done"} => Len(stopped) = Len(started)

LEMMA PrefixByElements ==
  ASSUME NEW s \in Seq(Nat), NEW t \in Seq(Nat), Len(s) <= Len(t),
         \A j \in 1 .. Len(s) : s[j] = t[j]
  PROVE  IsPrefix(s, t)
<1>1. Len(s) \in Nat /\ Len(t) \in Nat /\ Len(s) - 1 + 1 = Len(s)
  OBVIOUS
<1>2. /\ \A j \in 1 .. Len(s) : s[j] \in Nat
      /\ \A j \in 1 .. Len(s) : t[j] \in Nat
  BY <1>1
<1>3. /\ SubSeq(s, 1, Len(s)) \in Seq(Nat)
      /\ Len(SubSeq(s, 1, Len(s))) = Len(s)
      /\ \A j \in 1 .. Len(s) : SubSeq(s, 1, Len(s))[j] = s[j]
  BY <1>1, <1>2, SubSeqProperties
<1>4. /\ SubSeq(t, 1, Len(s)) \in Seq(Nat)
      /\ Len(SubSeq(t, 1, Len(s))) = Len(s)
      /\ \A j \in 1 .. Len(s) : SubSeq(t, 1, Len(s))[j] = t[j]
  BY <1>1, <1>2, SubSeqProperties
<1>5. SubSeq(s, 1, Len(s)) = SubSeq(t, 1, Len(s))
  BY <1>3, <1>4, SeqEqual
<1> QED BY <1>5 DEF IsPrefix

LifeInv == Order /\ Phases

(* A step of RunAsync that starts and stops nothing.                         *)
Otherwhere ==
  \/ pc' = pc
  \/ {pc, pc'} \cap {"stopping", "inStop", "flushed", "done"} = {}
  \/ pc = "closing" /\ pc' = "stopping"
  \/ pc = "stopping" /\ pc' = "flushed" /\ Len(stopped) = Len(started)
  \/ pc = "flushed" /\ pc' = "done"

LEMMA LifeQuiet ==
  ASSUME LifeInv, UNCHANGED <<started, stopped>>, Otherwhere
  PROVE  LifeInv'
<1>1. Order'
  BY DEF LifeInv, Order
<1>2. Phases'
  BY DEF LifeInv, Phases, Otherwhere
<1> QED BY <1>1, <1>2 DEF LifeInv

LEMMA LifeOtherwise ==
  ASSUME LifeInv, Otherwise
  PROVE  LifeInv' /\ Otherwhere /\ UNCHANGED <<started, stopped>>
<1>1. UNCHANGED <<started, stopped>>
  BY DEF Otherwise, RunAsync, Configure, StartNext, EndStartup, AwaitStop, Resume,
         RequestStopOnFailure, BeginStopping, Flush, Return
<1>2. CASE \/ RunAsync \/ Configure \/ StartNext \/ EndStartup
           \/ AwaitStop \/ Resume \/ RequestStopOnFailure
  <2>1. {pc, pc'} \cap {"stopping", "inStop", "flushed", "done"} = {}
    BY <1>2 DEF RunAsync, Configure, StartNext, EndStartup, AwaitStop, Resume,
                RequestStopOnFailure, AppAt
  <2> QED BY <1>1, <2>1, LifeQuiet DEF Otherwhere
<1>3. CASE BeginStopping \/ Flush \/ Return
  <2>1. \/ pc = "closing" /\ pc' = "stopping"
        \/ pc = "stopping" /\ pc' = "flushed" /\ Len(stopped) = Len(started)
        \/ pc = "flushed" /\ pc' = "done"
    BY <1>3 DEF BeginStopping, Flush, Return, AppAt
  <2> QED BY <1>1, <2>1, LifeQuiet DEF Otherwhere
<1> QED BY <1>2, <1>3 DEF Otherwise

(* StartAsync has returned: one service more is started, or none.            *)
LEMMA LifeStart ==
  ASSUME LifeInv, EndStart
  PROVE  /\ LifeInv'
         /\ pc = "inStart" /\ stopped = <<>> /\ stopped' = <<>>
         /\ \/ started' = started /\ pc' = "failing"
            \/ pc' = "starting" /\ started' # <<>> /\ started' # started
         /\ started # <<>> => Len(started) > 0 /\ Len(stopped) < Len(started)
<1>1. pc = "inStart" /\ stopped = <<>> /\ stopped' = stopped
  BY DEF EndStart, AppAt, LifeInv, Phases
<1>2. Len(started) \in Nat /\ started \in Seq(Nat)
  BY DEF LifeInv, Order
<1>3. started # <<>> => Len(started) > 0 /\ Len(stopped) < Len(started)
  BY <1>1, <1>2
<1>4. CASE started' = started /\ pc' = "failing"
  <2>1. LifeInv'
    BY <1>1, <1>4, LifeQuiet DEF Otherwhere
  <2> QED BY <1>1, <1>3, <1>4, <2>1
<1>5. CASE started' = Append(started, Len(started) + 1) /\ pc' = "starting"
  <2>1. /\ started' \in Seq(Nat) /\ Len(started') = Len(started) + 1
        /\ \A i \in 1 .. Len(started) : started'[i] = started[i]
        /\ started'[Len(started) + 1] = Len(started) + 1
    BY <1>2, <1>5
  <2>2. ASSUME NEW i \in 1 .. Len(started') PROVE started'[i] = i
    <3>1. \/ i = Len(started) + 1
          \/ i \in 1 .. Len(started)
      BY <1>2, <2>1
    <3>2. i \in 1 .. Len(started) => started[i] = i
      BY DEF LifeInv, Order
    <3> QED BY <2>1, <3>1, <3>2
  <2>3. Order'
    BY <1>1, <1>2, <2>1, <2>2 DEF LifeInv, Order
  <2>4. Phases'
    BY <1>1, <1>5 DEF Phases
  <2>5. started' # <<>> /\ started' # started
    BY <1>2, <2>1
  <2> QED BY <1>1, <1>3, <1>5, <2>3, <2>4, <2>5 DEF LifeInv
<1> QED BY <1>4, <1>5 DEF EndStart

(* StopAsync is called for the last service that is not stopped yet.         *)
LEMMA LifeStop ==
  ASSUME LifeInv, StopNext
  PROVE  /\ LifeInv'
         /\ pc = "stopping" /\ pc' = "inStop" /\ started' = started
         /\ Len(started) > 0 /\ Len(stopped) < Len(started)
<1>1. /\ pc = "stopping" /\ pc' = "inStop"
      /\ Len(stopped) < Len(started)
      /\ stopped' = Append(stopped, started[Len(started) - Len(stopped)])
      /\ started' = started
  BY DEF StopNext, AppAt, NextToStop
<1>2. /\ Len(started) \in Nat /\ Len(stopped) \in Nat /\ stopped \in Seq(Nat)
  BY DEF LifeInv, Order
<1>3. started[Len(started) - Len(stopped)] = Len(started) - Len(stopped)
  BY <1>1, <1>2 DEF LifeInv, Order
<1>4. /\ stopped' \in Seq(Nat) /\ Len(stopped') = Len(stopped) + 1
      /\ \A j \in 1 .. Len(stopped) : stopped'[j] = stopped[j]
      /\ stopped'[Len(stopped) + 1] = Len(started) - Len(stopped)
  BY <1>1, <1>2, <1>3
<1>5. ASSUME NEW j \in 1 .. Len(stopped') PROVE stopped'[j] = Len(started) + 1 - j
  <2>1. \/ j = Len(stopped) + 1
        \/ j \in 1 .. Len(stopped)
    BY <1>2, <1>4
  <2>2. j \in 1 .. Len(stopped) => stopped[j] = Len(started) + 1 - j
    BY DEF LifeInv, Order
  <2> QED BY <1>2, <1>4, <2>1, <2>2
<1>6. Order'
  BY <1>1, <1>2, <1>4, <1>5, SMTT(30) DEF LifeInv, Order
<1>7. Phases'
  BY <1>1, <1>2, <1>4 DEF Phases
<1>8. Len(started) > 0
  BY <1>1, <1>2
<1> QED BY <1>1, <1>6, <1>7, <1>8 DEF LifeInv

(* The last service that is stopped is the first one.                        *)
LEMMA LifeEndStop ==
  ASSUME LifeInv, EndStop
  PROVE  /\ LifeInv'
         /\ pc = "inStop" /\ pc' = "stopping" /\ UNCHANGED <<started, stopped>>
         /\ Len(started) > 0 /\ Len(stopped) \in Nat
         /\ Last(stopped) = 1 <=> ~(Len(stopped) < Len(started))
         /\ Len(stopped) = Len(started) => Last(stopped) = 1
<1>1. pc = "inStop" /\ pc' = "stopping" /\ UNCHANGED <<started, stopped>>
  BY DEF EndStop, AppAt
<1>2. /\ Len(started) \in Nat /\ Len(stopped) \in Nat
      /\ Len(stopped) > 0 /\ Len(stopped) <= Len(started)
  BY <1>1 DEF LifeInv, Order, Phases
<1>3. Last(stopped) = Len(started) + 1 - Len(stopped)
  BY <1>2 DEF LifeInv, Order, Last
<1>4. LifeInv'
  BY <1>1 DEF LifeInv, Order, Phases
<1> QED BY <1>1, <1>2, <1>3, <1>4

(* Requests to stop leave the services alone.                                *)
LEMMA LifeUnchanged ==
  ASSUME LifeInv, UNCHANGED <<started, stopped, pc>>
  PROVE  LifeInv'
BY LifeQuiet DEF Otherwhere

------------------------------------------------------------------------------
(* The console application.                                                  *)

(* The handlers are put back by the last StopAsync, not before.                *)
Owned == /\ Len(started) > 0
         /\ Len(stopped) < Len(started) \/ pc = "inStop"
         => handlersOwned

TeardownInv == LifeInv /\ Owned

(* What TeardownOrder reads off the order.                                     *)
LEMMA InvImpliesOrder == TeardownInv => TeardownOrder
<1> SUFFICES ASSUME TeardownInv PROVE TeardownOrder
  OBVIOUS
<1>1. /\ Len(started) \in Nat /\ Len(stopped) \in Nat
      /\ DOMAIN started = 1 .. Len(started) /\ DOMAIN stopped = 1 .. Len(stopped)
  BY DEF TeardownInv, LifeInv, Order
<1>2. HandlersOutliveServices
  <2> SUFFICES ASSUME NEW s \in Unstopped \ {CliService} PROVE handlersOwned
    BY DEF HandlersOutliveServices
  <2>1. s \in Range(started) /\ s \notin Range(stopped)
    BY DEF Unstopped
  <2>2. PICK i \in 1 .. Len(started) : started[i] = s
    BY <1>1, <2>1 DEF Range
  <2>3. s = i
    BY <2>2 DEF TeardownInv, LifeInv, Order
  <2>4. Len(stopped) # Len(started)
    <3> SUFFICES ASSUME Len(stopped) = Len(started) PROVE FALSE
      OBVIOUS
    <3>1. Len(started) + 1 - i \in DOMAIN stopped
      BY <1>1
    <3>2. stopped[Len(started) + 1 - i] = i
      BY <1>1, <3>1 DEF TeardownInv, LifeInv, Order
    <3> QED BY <2>1, <2>3, <3>1, <3>2 DEF Range
  <2>5. Len(stopped) <= Len(started)
    BY DEF TeardownInv, LifeInv, Order
  <2>6. Len(started) \in Nat /\ Len(stopped) \in Nat
    BY <1>1
  <2>7. Len(stopped) < Len(started) /\ Len(started) > 0
    BY <2>4, <2>5, <2>6
  <2> QED BY <2>7 DEF TeardownInv, Owned
<1>3. /\ Reverse(started) \in Seq(Nat)
      /\ Len(Reverse(started)) = Len(started)
      /\ \A j \in 1 .. Len(started) : Reverse(started)[j] = Len(started) + 1 - j
  <2>1. ASSUME NEW j \in 1 .. Len(started)
        PROVE  /\ started[(Len(started) - j) + 1] = Len(started) + 1 - j
               /\ Len(started) + 1 - j \in Nat
    <3>1. (Len(started) - j) + 1 \in 1 .. Len(started)
      BY <1>1
    <3> QED BY <1>1, <3>1 DEF TeardownInv, LifeInv, Order
  <2>2. Reverse(started) \in [1 .. Len(started) -> Nat]
    BY <1>1, <2>1 DEF Reverse
  <2>3. Reverse(started) \in Seq(Nat)
    BY <1>1, <2>2
  <2>4. Len(Reverse(started)) = Len(started)
    BY <1>1, <2>2, <2>3
  <2> QED BY <2>1, <2>3, <2>4 DEF Reverse
<1>4. IsPrefix(stopped, Reverse(started))
  <2>1. stopped \in Seq(Nat) /\ Len(stopped) <= Len(Reverse(started))
    BY <1>3 DEF TeardownInv, LifeInv, Order
  <2>2. ASSUME NEW j \in 1 .. Len(stopped) PROVE stopped[j] = Reverse(started)[j]
    <3>1. j \in 1 .. Len(started)
      BY <1>1, <1>3, <2>1
    <3>2. stopped[j] = Len(started) + 1 - j
      BY DEF TeardownInv, LifeInv, Order
    <3> QED BY <1>3, <3>1, <3>2
  <2> QED BY <1>3, <2>1, <2>2, PrefixByElements
<1>5. pc = "done" => stopped = Reverse(started)
  <2> SUFFICES ASSUME pc = "done" PROVE stopped = Reverse(started)
    OBVIOUS
  <2>1. Len(stopped) = Len(started)
    BY DEF TeardownInv, LifeInv, Phases
  <2>2. \A j \in 1 .. Len(stopped) : stopped[j] = Reverse(started)[j]
    BY <1>1, <1>3, <2>1 DEF TeardownInv, LifeInv, Order
  <2>3. stopped \in Seq(Nat)
    BY DEF TeardownInv, LifeInv, Order
  <2> QED BY <1>3, <2>1, <2>2, <2>3, SMTT(30)
<1>6. StoppedInReverse
  BY <1>4, <1>5 DEF StoppedInReverse
<1> QED BY <1>2, <1>6 DEF TeardownOrder

(* A step that starts and stops nothing and leaves the handlers alone.       *)
LEMMA QuietStep ==
  ASSUME TeardownInv, LifeInv', UNCHANGED <<started, stopped, handlersOwned>>, pc' = pc \/ Otherwhere
  PROVE  TeardownInv'
BY DEF TeardownInv, Owned, Otherwhere

(* StartAsync: the first service to be started installs the handlers.        *)
LEMMA StartStep ==
  ASSUME TeardownInv, CliEndStart
  PROVE  TeardownInv'
<1>1. /\ LifeInv' /\ stopped = <<>> /\ stopped' = <<>>
      /\ \/ started' = started
         \/ started' # <<>> /\ started' # started
      /\ started # <<>> => Len(started) > 0 /\ Len(stopped) < Len(started)
  BY LifeStart DEF CliEndStart, TeardownInv
<1>2. CASE started = <<>>
  <2>1. CASE started' = started
    <3>1. handlersOwned' = handlersOwned /\ Len(started') = 0
      BY <1>2, <2>1 DEF CliEndStart, cli
    <3> QED BY <1>1, <3>1 DEF TeardownInv, Owned
  <2>2. CASE started' # started
    <3>1. handlersOwned' = TRUE
      BY <1>2, <2>2 DEF CliEndStart, Installs
    <3> QED BY <1>1, <3>1 DEF TeardownInv, Owned
  <2> QED BY <2>1, <2>2
<1>3. CASE started # <<>>
  <2>1. handlersOwned /\ handlersOwned' = handlersOwned
    BY <1>1, <1>3 DEF CliEndStart, cli, TeardownInv, Owned
  <2> QED BY <1>1, <2>1 DEF TeardownInv, Owned
<1> QED BY <1>2, <1>3

LEMMA StopStep ==
  ASSUME TeardownInv, CliStopNext
  PROVE  TeardownInv'
<1>1. LifeInv' /\ Len(started) > 0 /\ Len(stopped) < Len(started)
  BY LifeStop DEF CliStopNext, TeardownInv
<1>2. handlersOwned' = handlersOwned /\ handlersOwned
  BY <1>1 DEF CliStopNext, TeardownInv, Owned
<1> QED BY <1>1, <1>2 DEF TeardownInv, Owned

(* The handlers are restored when the service stopped last is the first one: *)
(* then there is no other left.                                              *)
LEMMA EndStopStep ==
  ASSUME TeardownInv, CliEndStop
  PROVE  TeardownInv'
<1>1. /\ LifeInv' /\ UNCHANGED <<started, stopped>> /\ pc = "inStop" /\ pc' = "stopping"
      /\ Len(started) > 0
      /\ Last(stopped) = 1 <=> ~(Len(stopped) < Len(started))
  BY LifeEndStop DEF CliEndStop, TeardownInv
<1>2. CASE Last(stopped) = CliService
  BY <1>1, <1>2 DEF TeardownInv, Owned, CliService
<1>3. CASE Last(stopped) # CliService
  <2>1. handlersOwned' = handlersOwned /\ handlersOwned
    BY <1>1, <1>3 DEF CliEndStop, cli, TeardownInv, Owned
  <2> QED BY <1>1, <2>1 DEF TeardownInv, Owned
<1> QED BY <1>2, <1>3

(* Everything else: requests, the monitor, signals, and the other steps of     *)
(* RunAsync.                                                                   *)
LEMMA OtherStep ==
  ASSUME TeardownInv,
         \/ \E n \in Signal : HandleSignal(n)
         \/ MonitorStep
         \/ (Otherwise \/ OtherRequest \/ Deliver) /\ UNCHANGED cli
  PROVE  TeardownInv'
<1>0. LifeInv
  BY DEF TeardownInv
<1>1. CASE \E n \in Signal : HandleSignal(n)
  BY <1>0, <1>1, LifeUnchanged, QuietStep DEF HandleSignal, vars, app
<1>2. CASE MonitorStep
  <2>1. UNCHANGED <<started, stopped, pc, handlersOwned>>
    BY <1>2 DEF MonitorStep, Poll, MonitorRequests, MonitorExits, vars, app
  <2> QED BY <1>0, <2>1, LifeUnchanged, QuietStep
<1>3. CASE (OtherRequest \/ Deliver) /\ UNCHANGED cli
  <2>1. UNCHANGED <<started, stopped, pc, handlersOwned>>
    BY <1>3 DEF OtherRequest, RequestStop, Deliver, SignalToken, ReleaseWaiter, app, cli
  <2> QED BY <1>0, <2>1, LifeUnchanged, QuietStep
<1>4. CASE Otherwise /\ UNCHANGED cli
  BY <1>0, <1>4, LifeOtherwise, QuietStep DEF cli
<1> QED BY <1>1, <1>2, <1>3, <1>4

(* Shutdown undoes startup backwards and completely, and gives the signal      *)
(* handlers back last: whichever start, stop or log call fails, whoever        *)
(* requests the stop (RunAsync, ~SignalRegistration).                          *)
THEOREM TeardownOrderHolds == CliSpec => []TeardownOrder
<1>1. CliInit => TeardownInv
  <2> SUFFICES ASSUME CliInit PROVE TeardownInv
    OBVIOUS
  <2>1. pc = "created" /\ started = <<>> /\ stopped = <<>>
    BY DEF CliInit, Init
  <2> QED BY <2>1 DEF TeardownInv, LifeInv, Order, Phases, Owned
<1>2. TeardownInv /\ [CliNext]_cliVars => TeardownInv'
  <2> SUFFICES ASSUME TeardownInv, [CliNext]_cliVars PROVE TeardownInv'
    OBVIOUS
  <2>1. CASE UNCHANGED cliVars
    BY <2>1, LifeUnchanged, QuietStep DEF cliVars, vars, app, cli, TeardownInv
  <2>2. CASE CliNext
    BY <2>2, StartStep, StopStep, EndStopStep, OtherStep DEF CliNext, CliStep
  <2> QED BY <2>1, <2>2
<1> QED BY <1>1, <1>2, InvImpliesOrder, PTL DEF CliSpec

(* Types.  A service is started only while there is one left, and the monitor  *)
(* requests a stop only for a signal that it took.                             *)
CliTypeInv == /\ CliTypeOK
              /\ pc = "inStart" => Len(started) < ServiceCount
              /\ monitor = "requesting" => signalTaken \in Signal

ExitCodes == Code \cup {0, 1} \cup {128 + n : n \in Signal}

LEMMA CliTypes ==
  CliTypeOK <=>
    /\ appState \in States /\ pc \in Steps /\ failure \in BOOLEAN
    /\ started \in Seq(1 .. ServiceCount) /\ stopped \in Seq(1 .. ServiceCount)
    /\ stopRequested \in BOOLEAN /\ exitCode \in ExitCodes /\ tokenRequested \in BOOLEAN
    /\ waiter \in {"none", "registered", "released"}
    /\ winner \in Requester \cup {NoThread}
    /\ stopStep \in {"none", "signal", "release", "returned"} /\ holdsWaiter \in BOOLEAN
    /\ handlersOwned \in BOOLEAN /\ pendingSignal \in Signal \cup {0}
    /\ monitor \in {"none", "polling", "requesting", "exited"}
    /\ signalTaken \in Signal \cup {0} /\ joining \in BOOLEAN
BY DEF CliTypeOK, Typed, ExitCodes

LEMMA TypeInit == CliInit => CliTypeInv
<1> SUFFICES ASSUME CliInit PROVE CliTypeInv
  OBVIOUS
<1>1. CliTypeOK
  <2>1. <<>> \in Seq(1 .. ServiceCount)
    OBVIOUS
  <2> QED BY <2>1 DEF CliInit, Init, CliTypeOK, Typed, States, Steps
<1> QED BY <1>1 DEF CliInit, Init, CliTypeInv

(* RequestStop, by whom and for what code it may be.                           *)
LEMMA TypeRequest ==
  ASSUME CliTypeInv, NEW t \in Requester, NEW code \in ExitCodes, BeginRequest(t, code),
         UNCHANGED app, UNCHANGED <<handlersOwned, pendingSignal, signalTaken, joining>>,
         monitor' = monitor
  PROVE  CliTypeInv'
<1>1. UNCHANGED <<appState, pc, started, stopped, failure>>
  BY DEF app
<1>2. /\ stopRequested' \in BOOLEAN /\ exitCode' \in ExitCodes /\ tokenRequested' = tokenRequested
      /\ waiter' \in {"none", "registered", "released"} /\ winner' \in Requester \cup {NoThread}
      /\ stopStep' \in {"none", "signal", "release", "returned"} /\ holdsWaiter' \in BOOLEAN
  BY DEF BeginRequest, CliTypeInv, CliTypeOK, Typed
<1>3. CliTypeOK'
  BY <1>1, <1>2 DEF CliTypeInv, CliTypeOK, Typed, ExitCodes
<1> QED BY <1>1, <1>3 DEF CliTypeInv

(* Only the state of the signals and the monitor changes.                      *)
LEMMA TypeSignals ==
  ASSUME CliTypeInv, UNCHANGED vars,
         handlersOwned' \in BOOLEAN, pendingSignal' \in Signal \cup {0}, joining' \in BOOLEAN,
         monitor' \in {"none", "polling", "requesting", "exited"},
         signalTaken' \in Signal \cup {0}, monitor' = "requesting" => signalTaken' \in Signal
  PROVE  CliTypeInv'
<1>1. CliTypeOK'
  BY DEF vars, app, lifetime, request, CliTypeInv, CliTypeOK, Typed
<1> QED BY <1>1 DEF vars, app, CliTypeInv

LEMMA TypeMonitor ==
  ASSUME CliTypeInv, MonitorStep \/ \E n \in Signal : HandleSignal(n)
  PROVE  CliTypeInv'
<1> USE DEF CliTypeInv, CliTypeOK
<1>1. CASE \E n \in Signal : HandleSignal(n)
  BY <1>1, TypeSignals DEF HandleSignal
<1>2. CASE Poll
  BY <1>2, TypeSignals DEF Poll, AfterPoll
<1>3. CASE MonitorExits
  BY <1>3, TypeSignals DEF MonitorExits
<1>4. CASE MonitorRequests /\ stopRequested /\ monitor' = "exited"
  <2>1. UNCHANGED vars
    BY <1>4 DEF MonitorRequests, BeginRequest, FirstRequest, vars
  <2> QED BY <1>4, <2>1, TypeSignals DEF MonitorRequests
<1>5. CASE MonitorRequests /\ BeginRequest(Monitor, ExitCodeOf(signalTaken)) /\ monitor' = monitor
  <2>1. Monitor \in Requester /\ ExitCodeOf(signalTaken) \in ExitCodes
    BY <1>5, CliAssumption DEF MonitorRequests, Requester, ExitCodeOf, ExitCodes
  <2> QED BY <1>5, <2>1, TypeRequest DEF MonitorRequests
<1> QED BY <1>1, <1>2, <1>3, <1>4, <1>5 DEF MonitorStep, MonitorRequests

LEMMA TypeDeliver ==
  ASSUME CliTypeInv, (OtherRequest \/ Deliver) /\ UNCHANGED cli
  PROVE  CliTypeInv'
<1>1. CASE OtherRequest
  <2>1. PICK t \in Requester, code \in Code : RequestStop(t, code)
    BY <1>1 DEF OtherRequest
  <2>2. code \in ExitCodes
    BY DEF ExitCodes
  <2> QED BY <2>1, <2>2, TypeRequest DEF RequestStop, cli
<1>2. CASE Deliver
  <2>1. UNCHANGED <<app, cli>>
    BY <1>2 DEF Deliver, SignalToken, ReleaseWaiter
  <2>2. /\ UNCHANGED <<stopRequested, exitCode, winner, holdsWaiter>>
        /\ tokenRequested' \in BOOLEAN /\ waiter' \in {"none", "registered", "released"}
        /\ stopStep' \in {"none", "signal", "release", "returned"}
    BY <1>2 DEF Deliver, SignalToken, ReleaseWaiter, CliTypeInv, CliTypeOK, Typed
  <2>3. CliTypeOK'
    BY <2>1, <2>2 DEF app, cli, CliTypeInv, CliTypeOK, Typed
  <2> QED BY <2>1, <2>3 DEF app, cli, CliTypeInv
<1> QED BY <1>1, <1>2

(* The steps of RunAsync that start and stop nothing.                          *)
LEMMA TypeOtherwise ==
  ASSUME CliTypeInv, Otherwise, UNCHANGED cli
  PROVE  CliTypeInv'
<1>1. CASE RequestStopOnFailure
  <2>1. /\ UNCHANGED <<appState, started, stopped, failure>> /\ pc' = "closing"
        /\ FailureCode \in ExitCodes /\ App \in Requester
    BY <1>1 DEF RequestStopOnFailure, FailureCode, ExitCodes, Requester
  <2>2. /\ stopRequested' \in BOOLEAN /\ exitCode' \in ExitCodes
        /\ tokenRequested' = tokenRequested
        /\ waiter' \in {"none", "registered", "released"}
        /\ winner' \in Requester \cup {NoThread}
        /\ stopStep' \in {"none", "signal", "release", "returned"} /\ holdsWaiter' \in BOOLEAN
    BY <1>1, <2>1, CliTypes
       DEF RequestStopOnFailure, BeginRequest, lifetime, request, CliTypeInv
  <2>3. CliTypeOK'
    BY <2>1, <2>2 DEF cli, CliTypeInv, CliTypeOK, Typed, Steps, ExitCodes
  <2> QED BY <2>1, <2>3 DEF cli, CliTypeInv
<1>2. CASE ~RequestStopOnFailure
  <2>1. /\ UNCHANGED <<started, stopped, stopRequested, exitCode, tokenRequested, request>>
        /\ appState' \in States /\ pc' \in Steps /\ failure' \in BOOLEAN
        /\ waiter' \in {"none", "registered", "released"}
        /\ pc' = "inStart" => Len(started) < ServiceCount
    BY <1>2 DEF Otherwise, RunAsync, Configure, StartNext, EndStartup, AwaitStop, Resume,
                BeginStopping, Flush, Return, MayFail, lifetime, CliTypeInv, CliTypeOK, Typed,
                States, Steps
  <2>2. CliTypeOK'
    BY <2>1 DEF cli, request, CliTypeInv, CliTypeOK, Typed
  <2> QED BY <2>1, <2>2 DEF cli, CliTypeInv
<1> QED BY <1>1, <1>2

LEMMA TypeServices ==
  ASSUME CliTypeInv, CliEndStart \/ CliStopNext \/ CliEndStop
  PROVE  CliTypeInv'
<1>0. ServiceCount \in Nat
  BY LifecycleAssumption
<1>1. CASE CliEndStart
  <2>1. /\ UNCHANGED <<appState, stopped, lifetime, request>>
        /\ failure' \in BOOLEAN /\ pc' \in Steps /\ pc' # "inStart"
        /\ \/ started' = started
           \/ started' = Append(started, Len(started) + 1)
        /\ pc = "inStart"
    BY <1>1 DEF CliEndStart, EndStart, AppAt, Steps, CliTypeInv, CliTypeOK, Typed
  <2>2. started' \in Seq(1 .. ServiceCount)
    <3>1. started \in Seq(1 .. ServiceCount) /\ Len(started) \in Nat /\ Len(started) < ServiceCount
      BY <2>1 DEF CliTypeInv, CliTypeOK, Typed
    <3>2. Len(started) + 1 \in 1 .. ServiceCount
      BY <1>0, <3>1
    <3>3. Append(started, Len(started) + 1) \in Seq(1 .. ServiceCount)
      BY <3>1, <3>2
    <3> QED BY <2>1, <3>1, <3>3
  <2>3. /\ handlersOwned' \in BOOLEAN /\ pendingSignal' \in Signal \cup {0}
        /\ monitor' \in {"none", "polling", "requesting", "exited"}
        /\ UNCHANGED <<signalTaken, joining>>
        /\ monitor' = "requesting" => monitor = "requesting"
    BY <1>1 DEF CliEndStart, Installs, cli, CliTypeInv, CliTypeOK
  <2>4. CliTypeOK'
    BY <2>1, <2>2, <2>3 DEF lifetime, request, CliTypeInv, CliTypeOK, Typed
  <2> QED BY <2>1, <2>3, <2>4 DEF CliTypeInv
<1>2. CASE CliStopNext
  <2>1. /\ UNCHANGED <<appState, started, failure, lifetime, request>>
        /\ pc' = "inStop" /\ Len(stopped) < Len(started)
        /\ stopped' = Append(stopped, started[Len(started) - Len(stopped)])
        /\ UNCHANGED <<handlersOwned, pendingSignal, monitor, signalTaken>>
        /\ joining' = (joining \/ AsksMonitor)
    BY <1>2 DEF CliStopNext, StopNext, NextToStop
  <2>2. stopped' \in Seq(1 .. ServiceCount)
    <3>1. /\ started \in Seq(1 .. ServiceCount) /\ stopped \in Seq(1 .. ServiceCount)
          /\ Len(started) \in Nat /\ Len(stopped) \in Nat
      BY DEF CliTypeInv, CliTypeOK, Typed
    <3>2. Len(started) - Len(stopped) \in 1 .. Len(started)
      BY <2>1, <3>1
    <3>3. started[Len(started) - Len(stopped)] \in 1 .. ServiceCount
      <4>1. \A i \in 1 .. Len(started) : started[i] \in 1 .. ServiceCount
        BY <3>1, ElementOfSeq
      <4> QED BY <3>2, <4>1
    <3>4. Append(stopped, started[Len(started) - Len(stopped)]) \in Seq(1 .. ServiceCount)
      BY <3>1, <3>3
    <3> QED BY <2>1, <3>4
  <2>3. joining' \in BOOLEAN
    BY <2>1 DEF CliTypeInv, CliTypeOK
  <2>4. CliTypeOK'
    BY <2>1, <2>2, <2>3 DEF lifetime, request, CliTypeInv, CliTypeOK, Typed, Steps
  <2> QED BY <2>1, <2>4 DEF CliTypeInv
<1>3. CASE CliEndStop
  <2>1. /\ UNCHANGED <<appState, started, stopped, lifetime, request>>
        /\ failure' \in BOOLEAN /\ pc' = "stopping"
        /\ UNCHANGED <<monitor, signalTaken, joining>>
        /\ handlersOwned' \in BOOLEAN /\ pendingSignal' \in Signal \cup {0}
    BY <1>3 DEF CliEndStop, EndStop, MayFail, Restores, cli, CliTypeInv, CliTypeOK, Typed
  <2>2. CliTypeOK'
    BY <2>1 DEF lifetime, request, CliTypeInv, CliTypeOK, Typed, Steps
  <2> QED BY <2>1, <2>2 DEF CliTypeInv
<1> QED BY <1>1, <1>2, <1>3

(* Every variable has its type; in particular the exit code is one a caller    *)
(* passed, the failure code, or 128 plus a signal that was caught              *)
(* (ApplicationLifetime::RequestStop, CliApplication's monitor).               *)
THEOREM CliTypeCorrect == CliSpec => []CliTypeOK
<1>1. CliTypeInv /\ [CliNext]_cliVars => CliTypeInv'
  <2> SUFFICES ASSUME CliTypeInv, [CliNext]_cliVars PROVE CliTypeInv'
    OBVIOUS
  <2>1. CASE UNCHANGED cliVars
    <3>1. UNCHANGED vars /\ UNCHANGED cli
      BY <2>1 DEF cliVars
    <3> QED BY <3>1, TypeSignals DEF cli, CliTypeInv, CliTypeOK
  <2>2. CASE CliNext
    BY <2>2, TypeMonitor, TypeDeliver, TypeOtherwise, TypeServices DEF CliNext, CliStep
  <2> QED BY <2>1, <2>2
<1>2. CliTypeInv => CliTypeOK
  BY DEF CliTypeInv
<1> QED BY <1>1, <1>2, TypeInit, PTL DEF CliSpec

------------------------------------------------------------------------------
(* The desktop application.                                                  *)

(* The event runtime: a command waits once, and nothing runs that was not    *)
(* served.  As long as the worker has not closed it, it refuses or drops     *)
(* commands only if its pump never ran.                                      *)
Held == Range(queue) \cup Range(active)
Submitted(op) == op \in Held \/ outcome[op] # "none"
Unserved == active = <<>> /\ \A op \in Commands : outcome[op] # "executed"

ExecutorTypes ==
  /\ open \in BOOLEAN /\ mode \in {"waiting", "serving", "over"}
  /\ queue \in Seq(Commands)
  /\ active = <<>> \/ \E op \in Commands : active = <<op>>
  /\ outcome \in [Commands -> {"none", "executed", "refused", "discarded"}]

WaitsOnce ==
  /\ \A op \in Held : outcome[op] = "none"
  /\ \A i, j \in 1 .. Len(queue) : queue[i] = queue[j] => i = j
  /\ \A i \in 1 .. Len(queue) : active # <<queue[i]>>

Served ==
  /\ mode = "waiting" => Unserved
  /\ mode = "over" => ~open
  /\ ~open /\ worker # "finished" => mode = "over" /\ Unserved
  /\ \A op \in Commands : outcome[op] \in {"refused", "discarded"} => ~open

ExecutorInv == ExecutorTypes /\ WaitsOnce /\ Served

(* The root window and its context: made by their creation alone, once, and  *)
(* not open any more when a command that destroys them was executed.         *)
Facade == {"none", "open", "destroyed"}
EndsWindow == {"rollbackWindow", "endWindow", "stopWindows"}
EndsContext == {"rollbackContext", "endContext", "stopInput"}

RootInv ==
  /\ window \in Facade /\ context \in Facade
  /\ succeeded \subseteq {"createWindow", "createContext"}
  /\ \A op \in succeeded : outcome[op] = "executed"
  /\ window # "none" <=> "createWindow" \in succeeded
  /\ context # "none" <=> "createContext" \in succeeded
  /\ \A op \in EndsWindow : outcome[op] = "executed" => window # "open"
  /\ \A op \in EndsContext : outcome[op] = "executed" => context # "open"
  /\ "input" \in stoppedManagers => context # "open"
  /\ stoppedManagers # {} => pc = "done"

(* The coordinator: what it has not come to yet was not submitted, and what  *)
(* it is past does not wait any more.                                        *)
Busy == {"window", "input", "context", "session", "rollbackContext", "rollbackWindow"}

CoordinatorInv ==
  /\ coordinator \in Busy \cup {"idle", "started", "failed"}
  /\ coordinator \in Busy => pc = "inStart" /\ started = <<>>
  /\ coordinator = "idle" => ~Submitted("createWindow")
  /\ coordinator # "window" => "createWindow" \notin Held
  /\ coordinator \in {"idle", "window", "input"} => ~Submitted("createContext")
  /\ coordinator # "context" => "createContext" \notin Held
  /\ coordinator \in {"idle", "window"} => ~Submitted("rollbackWindow")
  /\ coordinator \notin {"rollbackContext", "rollbackWindow", "failed"} => ~Submitted("rollbackContext")
  /\ coordinator \notin {"rollbackWindow", "failed"} => ~Submitted("rollbackWindow")
  /\ coordinator \in {"rollbackWindow", "failed"} => context # "open"
  /\ coordinator = "failed" => window # "open"
  /\ ~rooted => coordinator \in {"idle", "started"} /\ ~Submitted("createWindow") /\ ~Submitted("createContext")
  /\ coordinator = "started" => (rooted <=> scope # "none")
  /\ coordinator # "started" => scope = "none"

(* The session's scope: its cleanups, the callers of EndAsync.               *)
ScopeInv ==
  /\ rooted \in BOOLEAN
  /\ session \in [subscribed : BOOLEAN, published : BOOLEAN, owned : BOOLEAN, endQueued : BOOLEAN]
  /\ pending \in Seq([scope : BOOLEAN])
  /\ scope \in {"none", "Active", "Ending", "Ended"}
  /\ endStep \in {"none", "context", "window", "done"}
  /\ scope \in {"none", "Active"} <=> endStep = "none"
  /\ scope = "Ended" => endStep = "done"
  /\ endStep \notin {"window", "done"} => ~Submitted("endWindow")
  /\ endStep = "none" => ~Submitted("endContext")
  /\ endStep \in {"window", "done"} => context # "open"
  /\ endStep = "done" => window # "open"
  /\ endCall \in [Agents -> {"none", "waiting", "done"}]
  /\ \A a \in Agents : /\ endCall[a] # "none" => scope \in {"Ending", "Ended"}
                       /\ endCall[a] = "done" => scope = "Ended"
  /\ session.published \/ session.owned => scope # "none"
  /\ \A i \in 1 .. Len(pending) : pending[i].scope => scope # "none"
  /\ scope # "none" /\ endCall[App] = "none" => session.published

(* The order of the services, and the root session among them.               *)
EndedWithRoot ==
  /\ started # <<>> => coordinator = "started"
  /\ coordinator = "started" => started # <<>> \/ pc = "inStart"
  /\ (started # <<>> /\ Len(stopped) = Len(started) /\ pc # "inStop") => StopAwaits
  /\ worker \in {"application", "input", "windows", "runtime", "finished"}
  /\ worker # "application" => pc = "done"
  /\ worker = "application" => ~Submitted("stopInput")
  /\ worker \in {"application", "input"} => ~Submitted("stopWindows")

(* Commands keep their standing: none of them is submitted, and none waits   *)
(* that did not wait.                                                        *)
Untouched(ops) ==
  \A op \in ops : /\ op \in Held' => op \in Held
                  /\ Submitted(op)' <=> Submitted(op)

SameExecuted ==
  \A op \in Commands : outcome'[op] = "executed" <=> outcome[op] = "executed"

StillServed == worker' # "finished" => worker # "finished"

(* The commands of a queue that grows at its end or shrinks at its head.     *)
LEMMA QueueAppend ==
  ASSUME NEW q \in Seq(Commands), NEW op \in Commands
  PROVE  /\ Append(q, op) \in Seq(Commands)
         /\ Range(Append(q, op)) = Range(q) \cup {op}
         /\ Len(Append(q, op)) = Len(q) + 1 /\ Len(q) \in Nat
         /\ \A i \in 1 .. Len(q) : Append(q, op)[i] = q[i]
         /\ Append(q, op)[Len(q) + 1] = op
<1>1. /\ Append(q, op) \in Seq(Commands) /\ Len(q) \in Nat
      /\ DOMAIN q = 1 .. Len(q) /\ DOMAIN Append(q, op) = 1 .. Len(q) + 1
      /\ Len(Append(q, op)) = Len(q) + 1
      /\ \A i \in 1 .. Len(q) : Append(q, op)[i] = q[i]
      /\ Append(q, op)[Len(q) + 1] = op
  OBVIOUS
<1>2. 1 .. Len(q) + 1 = (1 .. Len(q)) \cup {Len(q) + 1}
  BY <1>1
<1>3. Range(Append(q, op)) = Range(q) \cup {op}
  BY <1>1, <1>2 DEF Range
<1> QED BY <1>1, <1>3

LEMMA QueueTail ==
  ASSUME NEW q \in Seq(Commands), q # <<>>
  PROVE  /\ Head(q) \in Commands /\ Tail(q) \in Seq(Commands)
         /\ Range(q) = {Head(q)} \cup Range(Tail(q))
         /\ Head(q) = q[1] /\ Len(q) \in Nat /\ Len(q) > 0
         /\ Len(Tail(q)) = Len(q) - 1
         /\ \A i \in 1 .. Len(Tail(q)) : Tail(q)[i] = q[i + 1]
<1>1. /\ Head(q) \in Commands /\ Tail(q) \in Seq(Commands) /\ Head(q) = q[1]
      /\ Len(q) \in Nat /\ Len(q) > 0 /\ Len(Tail(q)) = Len(q) - 1
      /\ DOMAIN q = 1 .. Len(q) /\ DOMAIN Tail(q) = 1 .. Len(q) - 1
      /\ \A i \in 1 .. Len(Tail(q)) : Tail(q)[i] = q[i + 1]
  OBVIOUS
<1>2. ASSUME NEW op \in Range(q) PROVE op \in {Head(q)} \cup Range(Tail(q))
  <2>1. PICK i \in 1 .. Len(q) : q[i] = op
    BY <1>1 DEF Range
  <2>2. CASE i = 1
    BY <1>1, <2>1, <2>2
  <2>3. CASE i # 1
    <3>1. i - 1 \in 1 .. Len(q) - 1 /\ (i - 1) + 1 = i
      BY <1>1, <2>3
    <3>2. Tail(q)[i - 1] = op
      BY <1>1, <2>1, <3>1
    <3> QED BY <1>1, <3>1, <3>2 DEF Range
  <2> QED BY <2>2, <2>3
<1>3. ASSUME NEW op \in Range(Tail(q)) PROVE op \in Range(q)
  <2>1. PICK i \in 1 .. Len(q) - 1 : Tail(q)[i] = op
    BY <1>1 DEF Range
  <2>2. i + 1 \in 1 .. Len(q) /\ q[i + 1] = op
    BY <1>1, <2>1
  <2> QED BY <1>1, <2>2 DEF Range
<1>4. Head(q) \in Range(q)
  <2>1. 1 \in DOMAIN q
    BY <1>1
  <2> QED BY <1>1, <2>1 DEF Range
<1> QED BY <1>1, <1>2, <1>3, <1>4

LEMMA ActiveRange ==
  /\ Range(<<>>) = {}
  /\ \A op : Range(<<op>>) = {op}
<1>1. Range(<<>>) = {}
  BY DEF Range
<1>2. ASSUME NEW op PROVE Range(<<op>>) = {op}
  <2>1. DOMAIN <<op>> = {1} /\ <<op>>[1] = op
    OBVIOUS
  <2> QED BY <2>1 DEF Range
<1> QED BY <1>1, <1>2

LEMMA HeldCommands == ExecutorInv => Held \subseteq Commands
<1> SUFFICES ASSUME ExecutorInv, NEW op \in Held PROVE op \in Commands
  OBVIOUS
<1>1. CASE op \in Range(queue)
  <2>1. queue \in Seq(Commands) /\ DOMAIN queue = 1 .. Len(queue)
    BY DEF ExecutorInv, ExecutorTypes
  <2>2. PICK i \in 1 .. Len(queue) : queue[i] = op
    BY <1>1, <2>1 DEF Range
  <2> QED BY <2>1, <2>2
<1>2. CASE op \in Range(active)
  BY <1>2, ActiveRange DEF ExecutorInv, ExecutorTypes
<1> QED BY <1>1, <1>2 DEF Held

LEMMA ExecutorQuiet ==
  ASSUME ExecutorInv, UNCHANGED executor, StillServed
  PROVE  ExecutorInv' /\ Untouched(Commands) /\ SameExecuted
BY DEF executor, ExecutorInv, ExecutorTypes, WaitsOnce, Served, Unserved, Held, Submitted,
       StillServed, Untouched, SameExecuted

(* A command is admitted or refused.                                         *)
LEMMA Submits ==
  ASSUME ExecutorInv, NEW op \in Commands, Submit(op), StillServed
  PROVE  /\ ExecutorInv'
         /\ Untouched(Commands \ {op}) /\ SameExecuted
         /\ ~Submitted(op) /\ Submitted(op)' /\ UNCHANGED active
<1>1. op \notin Held /\ outcome[op] = "none"
  BY DEF Submit, Executor!Admit, Executor!Refuse, Executor!Fresh, Executor!Range, Range, Held
<1>2. CASE Executor!Admit(op)
  <2>1. /\ open /\ queue' = Append(queue, op) /\ UNCHANGED <<open, mode, active, outcome>>
    BY <1>2 DEF Executor!Admit
  <2>2. queue \in Seq(Commands)
    BY DEF ExecutorInv, ExecutorTypes
  <2>3. Held' = Held \cup {op}
    BY <2>1, <2>2, QueueAppend DEF Held
  <2>4. ExecutorTypes'
    BY <2>1, <2>2, QueueAppend DEF ExecutorInv, ExecutorTypes
  <2>5. \A i \in 1 .. Len(queue) : queue[i] \in Held /\ queue[i] # op
    <3>1. \A i \in 1 .. Len(queue) : queue[i] \in Held
      BY <2>2 DEF Held, Range
    <3> QED BY <1>1, <3>1
  <2>6. active # <<op>>
    BY <1>1, ActiveRange DEF Held
  <2>7. WaitsOnce'
    <3>1. \A p \in Held' : outcome'[p] = "none"
      BY <1>1, <2>1, <2>3 DEF ExecutorInv, WaitsOnce
    <3>2. ASSUME NEW i \in 1 .. Len(queue') PROVE i \in 1 .. Len(queue) \/ i = Len(queue) + 1
      BY <2>1, <2>2, QueueAppend
    <3>3. ASSUME NEW i \in 1 .. Len(queue'), NEW j \in 1 .. Len(queue'), queue'[i] = queue'[j]
          PROVE  i = j
      BY <2>1, <2>2, <2>5, <3>2, <3>3, QueueAppend DEF ExecutorInv, WaitsOnce
    <3>4. ASSUME NEW i \in 1 .. Len(queue') PROVE active' # <<queue'[i]>>
      BY <2>1, <2>2, <2>6, <3>2, QueueAppend DEF ExecutorInv, WaitsOnce
    <3> QED BY <3>1, <3>3, <3>4 DEF WaitsOnce
  <2>8. Served'
    BY <2>1 DEF ExecutorInv, Served, Unserved, StillServed
  <2>9. Untouched(Commands \ {op}) /\ SameExecuted /\ Submitted(op)'
    BY <2>1, <2>3 DEF Untouched, SameExecuted, Submitted
  <2> QED BY <1>1, <2>1, <2>4, <2>7, <2>8, <2>9 DEF ExecutorInv, Submitted
<1>3. CASE Executor!Refuse(op)
  <2>1. /\ ~open /\ outcome' = [outcome EXCEPT ![op] = "refused"]
        /\ UNCHANGED <<open, mode, queue, active>>
    BY <1>3 DEF Executor!Refuse
  <2>2. Held' = Held
    BY <2>1 DEF Held
  <2>3. /\ outcome' \in [Commands -> {"none", "executed", "refused", "discarded"}]
        /\ outcome'[op] = "refused"
        /\ \A p \in Commands \ {op} : outcome'[p] = outcome[p]
    BY <2>1 DEF ExecutorInv, ExecutorTypes
  <2>4. ExecutorTypes'
    BY <2>1, <2>3 DEF ExecutorInv, ExecutorTypes
  <2>5. WaitsOnce'
    <3>1. \A p \in Held' : outcome'[p] = "none"
      BY <1>1, <2>2, <2>3, HeldCommands DEF ExecutorInv, WaitsOnce
    <3> QED BY <2>1, <3>1 DEF ExecutorInv, WaitsOnce
  <2>6. Served'
    BY <1>1, <2>1, <2>3 DEF ExecutorInv, Served, Unserved, StillServed
  <2>7. Untouched(Commands \ {op}) /\ SameExecuted /\ Submitted(op)'
    BY <1>1, <2>2, <2>3 DEF Untouched, SameExecuted, Submitted
  <2> QED BY <1>1, <2>1, <2>4, <2>5, <2>6, <2>7 DEF ExecutorInv, Submitted
<1> QED BY <1>2, <1>3 DEF Submit

(* The pump comes and goes, takes a command up or discards one.              *)
LEMMA Pumps ==
  ASSUME ExecutorInv, StillServed,
         \/ Executor!Serve \/ Executor!Fail \/ Executor!Begin \/ Executor!Discard \/ Executor!Finish
         \/ Executor!Close /\ worker' = "finished"
  PROVE  ExecutorInv' /\ Untouched(Commands) /\ SameExecuted
<1>1. CASE UNCHANGED <<queue, active, outcome>>
  <2>1. ExecutorTypes' /\ WaitsOnce'
    BY <1>1 DEF ExecutorInv, ExecutorTypes, WaitsOnce, Held, Executor!Serve, Executor!Fail,
                Executor!Begin, Executor!Discard, Executor!Finish, Executor!Close
  <2>2. Served'
    BY <1>1 DEF ExecutorInv, ExecutorTypes, Served, Unserved, StillServed, Executor!Serve, Executor!Fail,
                Executor!Begin, Executor!Discard, Executor!Finish, Executor!Close
  <2> QED BY <1>1, <2>1, <2>2 DEF ExecutorInv, Untouched, SameExecuted, Submitted, Held
<1>2. CASE Executor!Begin
  <2>1. /\ mode = "serving" /\ active = <<>> /\ queue # <<>>
        /\ active' = <<Head(queue)>> /\ queue' = Tail(queue) /\ UNCHANGED <<open, mode, outcome>>
    BY <1>2 DEF Executor!Begin
  <2>2. queue \in Seq(Commands)
    BY DEF ExecutorInv, ExecutorTypes
  <2>3. Held' = Held
    BY <2>1, <2>2, QueueTail, ActiveRange DEF Held
  <2>4. ExecutorTypes'
    BY <2>1, <2>2, QueueTail DEF ExecutorInv, ExecutorTypes
  <2>5. WaitsOnce'
    <3>1. ASSUME NEW i \in 1 .. Len(queue')
          PROVE  i + 1 \in 1 .. Len(queue) /\ queue'[i] = queue[i + 1] /\ i \in Nat
      BY <2>1, <2>2, QueueTail
    <3>2. ASSUME NEW i \in 1 .. Len(queue'), NEW j \in 1 .. Len(queue'), queue'[i] = queue'[j]
          PROVE  i = j
      <4>1. queue[i + 1] = queue[j + 1] /\ i + 1 \in 1 .. Len(queue) /\ j + 1 \in 1 .. Len(queue)
        BY <3>1, <3>2
      <4>2. i + 1 = j + 1
        BY <4>1 DEF ExecutorInv, WaitsOnce
      <4> QED BY <3>1, <4>2
    <3>3. ASSUME NEW i \in 1 .. Len(queue') PROVE active' # <<queue'[i]>>
      <4>1. 1 \in 1 .. Len(queue) /\ Head(queue) = queue[1]
        BY <2>1, <2>2, QueueTail
      <4>2. i + 1 # 1 /\ i + 1 \in 1 .. Len(queue)
        BY <3>1
      <4>3. queue[1] # queue[i + 1]
        BY <4>1, <4>2 DEF ExecutorInv, WaitsOnce
      <4> QED BY <2>1, <3>1, <4>1, <4>3
    <3>4. \A p \in Held' : outcome'[p] = "none"
      BY <2>1, <2>3 DEF ExecutorInv, WaitsOnce
    <3> QED BY <3>2, <3>3, <3>4 DEF WaitsOnce
  <2>6. Served'
    BY <2>1 DEF ExecutorInv, Served, Unserved, StillServed
  <2> QED BY <2>1, <2>3, <2>4, <2>5, <2>6 DEF ExecutorInv, Untouched, SameExecuted, Submitted
<1>3. CASE Executor!Discard
  <2> DEFINE op == Head(queue)
  <2>1. /\ mode = "over" /\ queue # <<>>
        /\ outcome' = [outcome EXCEPT ![op] = "discarded"]
        /\ queue' = Tail(queue) /\ UNCHANGED <<open, mode, active>>
    BY <1>3 DEF Executor!Discard
  <2>2. queue \in Seq(Commands)
    BY DEF ExecutorInv, ExecutorTypes
  <2>3. op \in Commands /\ op \in Held
    BY <2>1, <2>2, QueueTail DEF Held
  <2>4. outcome[op] = "none"
    BY <2>3 DEF ExecutorInv, WaitsOnce
  <2>5. /\ outcome' \in [Commands -> {"none", "executed", "refused", "discarded"}]
        /\ outcome'[op] = "discarded"
        /\ \A p \in Commands \ {op} : outcome'[p] = outcome[p]
    BY <2>1, <2>3 DEF ExecutorInv, ExecutorTypes
  <2>6. Held = Held' \cup {op}
    BY <2>1, <2>2, QueueTail DEF Held
  <2>7. ASSUME NEW i \in 1 .. Len(queue')
        PROVE  i + 1 \in 1 .. Len(queue) /\ queue'[i] = queue[i + 1] /\ i \in Nat
    BY <2>1, <2>2, QueueTail
  <2>8. op \notin Held'
    <3>1. ASSUME NEW i \in 1 .. Len(queue') PROVE queue'[i] # op
      <4>1. 1 \in 1 .. Len(queue) /\ op = queue[1]
        BY <2>1, <2>2, QueueTail
      <4>2. i + 1 # 1 /\ i + 1 \in 1 .. Len(queue)
        BY <2>7
      <4> QED BY <2>7, <4>1, <4>2 DEF ExecutorInv, WaitsOnce
    <3>2. op \notin Range(active)
      <4>1. 1 \in 1 .. Len(queue) /\ op = queue[1]
        BY <2>1, <2>2, QueueTail
      <4>2. active # <<op>>
        BY <4>1 DEF ExecutorInv, WaitsOnce
      <4> QED BY <4>2, ActiveRange DEF ExecutorInv, ExecutorTypes
    <3>3. DOMAIN queue' = 1 .. Len(queue')
      BY <2>1, <2>2, QueueTail
    <3> QED BY <2>1, <3>1, <3>2, <3>3 DEF Held, Range
  <2>9. ExecutorTypes'
    BY <2>1, <2>2, <2>5, QueueTail DEF ExecutorInv, ExecutorTypes
  <2>10. WaitsOnce'
    <3>1. \A p \in Held' : outcome'[p] = "none"
      BY <2>5, <2>6, <2>8, HeldCommands DEF ExecutorInv, WaitsOnce
    <3>2. ASSUME NEW i \in 1 .. Len(queue'), NEW j \in 1 .. Len(queue'), queue'[i] = queue'[j]
          PROVE  i = j
      <4>1. queue[i + 1] = queue[j + 1] /\ i + 1 \in 1 .. Len(queue) /\ j + 1 \in 1 .. Len(queue)
        BY <2>7, <3>2
      <4>2. i + 1 = j + 1
        BY <4>1 DEF ExecutorInv, WaitsOnce
      <4> QED BY <2>7, <4>2
    <3>3. ASSUME NEW i \in 1 .. Len(queue') PROVE active' # <<queue'[i]>>
      BY <2>1, <2>7 DEF ExecutorInv, WaitsOnce
    <3> QED BY <3>1, <3>2, <3>3 DEF WaitsOnce
  <2>11. Served'
    BY <2>1, <2>3, <2>5 DEF ExecutorInv, Served, Unserved, StillServed
  <2>12. Untouched(Commands) /\ SameExecuted
    BY <2>4, <2>5, <2>6, <2>8 DEF Untouched, SameExecuted, Submitted
  <2> QED BY <2>9, <2>10, <2>11, <2>12 DEF ExecutorInv
<1> QED
  BY <1>1, <1>2, <1>3 DEF Executor!Serve, Executor!Fail, Executor!Finish, Executor!Close

(* A command has run.                                                        *)
LEMMA Executes ==
  ASSUME ExecutorInv, NEW op \in Commands, active = <<op>>, Executor!End, UNCHANGED worker
  PROVE  /\ ExecutorInv' /\ Untouched(Commands)
         /\ op \in Held /\ outcome[op] = "none" /\ op \notin Held'
         /\ outcome'[op] = "executed"
         /\ \A p \in Commands \ {op} : outcome'[p] = "executed" <=> outcome[p] = "executed"
<1>1. /\ outcome' = [outcome EXCEPT ![op] = "executed"] /\ active' = <<>>
      /\ UNCHANGED <<open, mode, queue>>
  <2>1. Len(active) = 1 /\ active[1] = op
    OBVIOUS
  <2>2. SubSeq(active, 1, 0) = <<>>
    OBVIOUS
  <2> QED BY <2>1, <2>2 DEF Executor!End
<1>2. Held = Held' \cup {op} /\ op \in Held
  BY <1>1, ActiveRange DEF Held
<1>3. outcome[op] = "none"
  BY <1>2 DEF ExecutorInv, WaitsOnce
<1>4. /\ outcome' \in [Commands -> {"none", "executed", "refused", "discarded"}]
      /\ outcome'[op] = "executed"
      /\ \A p \in Commands \ {op} : outcome'[p] = outcome[p]
  BY <1>1 DEF ExecutorInv, ExecutorTypes
<1>5. op \notin Held'
  <2>1. DOMAIN queue = 1 .. Len(queue)
    BY DEF ExecutorInv, ExecutorTypes
  <2>2. \A i \in 1 .. Len(queue) : queue[i] # op
    BY DEF ExecutorInv, WaitsOnce
  <2> QED BY <1>1, <2>1, <2>2, ActiveRange DEF Held, Range
<1>6. ExecutorTypes'
  BY <1>1, <1>4 DEF ExecutorInv, ExecutorTypes
<1>7. WaitsOnce'
  <2>1. \A p \in Held' : outcome'[p] = "none"
    BY <1>2, <1>4, <1>5, HeldCommands DEF ExecutorInv, WaitsOnce
  <2> QED BY <1>1, <2>1 DEF ExecutorInv, WaitsOnce
<1>8. Served'
  <2>1. active # <<>>
    OBVIOUS
  <2> QED BY <1>1, <1>4, <2>1 DEF ExecutorInv, Served, Unserved
<1> QED BY <1>2, <1>3, <1>4, <1>5, <1>6, <1>7, <1>8 DEF ExecutorInv, Untouched, Submitted

------------------------------------------------------------------------------
(* What leaves each part of the invariant as it is.                          *)

LEMMA RootQuiet ==
  ASSUME RootInv, UNCHANGED <<window, context, succeeded, stoppedManagers>>, SameExecuted,
         pc = "done" => pc' = "done"
  PROVE  RootInv'
<1>1. \A op \in EndsWindow \cup EndsContext : outcome'[op] = "executed" <=> outcome[op] = "executed"
  BY DEF SameExecuted, EndsWindow, EndsContext, Commands
<1>2. \A op \in succeeded : outcome'[op] = "executed"
  BY DEF RootInv, SameExecuted, Commands
<1> QED BY <1>1, <1>2 DEF RootInv

Composing == {"createWindow", "createContext", "rollbackContext", "rollbackWindow"}
Cleaning == {"endWindow", "endContext"}
Shutting == {"stopInput", "stopWindows"}

LEMMA CoordinatorQuiet ==
  ASSUME CoordinatorInv, UNCHANGED <<coordinator, rooted>>, Untouched(Composing),
         coordinator \in Busy => UNCHANGED <<pc, started>>,
         scope' = "none" <=> scope = "none",
         coordinator \in {"rollbackWindow", "failed"}
           => (context # "open" => context' # "open") /\ (window # "open" => window' # "open")
  PROVE  CoordinatorInv'
<1>1. \A op \in Composing : (op \in Held' => op \in Held) /\ (Submitted(op)' <=> Submitted(op))
  BY DEF Untouched
<1>2. /\ "createWindow" \in Composing /\ "createContext" \in Composing
      /\ "rollbackContext" \in Composing /\ "rollbackWindow" \in Composing
  BY DEF Composing
<1> HIDE DEF Composing
<1> QED BY <1>1, <1>2 DEF CoordinatorInv

LEMMA ScopeQuiet ==
  ASSUME ScopeInv, UNCHANGED <<rooted, session, pending, scope, endStep, endCall>>, Untouched(Cleaning),
         endStep # "none"
           => (context # "open" => context' # "open") /\ (window # "open" => window' # "open")
  PROVE  ScopeInv'
<1>1. \A op \in Cleaning : Submitted(op)' <=> Submitted(op)
  BY DEF Untouched
<1>2. "endWindow" \in Cleaning /\ "endContext" \in Cleaning
  BY DEF Cleaning
<1> HIDE DEF Cleaning
<1> QED BY <1>1, <1>2 DEF ScopeInv

LEMMA EndedQuiet ==
  ASSUME EndedWithRoot, Untouched(Shutting),
         UNCHANGED <<coordinator, worker, pc, started, stopped>>,
         StopAwaits => StopAwaits'
  PROVE  EndedWithRoot'
<1>1. \A op \in Shutting : Submitted(op)' <=> Submitted(op)
  BY DEF Untouched
<1>2. "stopInput" \in Shutting /\ "stopWindows" \in Shutting
  BY DEF Shutting
<1> HIDE DEF Shutting
<1> QED BY <1>1, <1>2 DEF EndedWithRoot

LEMMA UntouchedPart ==
  /\ Untouched(Commands) => Untouched(Composing) /\ Untouched(Cleaning) /\ Untouched(Shutting)
  /\ Untouched(Commands \ {"userDestroy"})
       => Untouched(Composing) /\ Untouched(Cleaning) /\ Untouched(Shutting)
  /\ \A op \in Composing : Untouched(Commands \ {op}) => Untouched(Cleaning) /\ Untouched(Shutting)
  /\ \A op \in Cleaning : Untouched(Commands \ {op}) => Untouched(Composing) /\ Untouched(Shutting)
  /\ \A op \in Shutting : Untouched(Commands \ {op}) => Untouched(Composing) /\ Untouched(Cleaning)
<1>1. /\ Composing \subseteq Commands /\ Cleaning \subseteq Commands /\ Shutting \subseteq Commands
      /\ "userDestroy" \notin Composing \cup Cleaning \cup Shutting
      /\ Composing \cap Cleaning = {} /\ Composing \cap Shutting = {} /\ Cleaning \cap Shutting = {}
  BY DEF Composing, Cleaning, Shutting, Commands
<1>2. ASSUME NEW S, NEW T, S \subseteq T, Untouched(T) PROVE Untouched(S)
  BY <1>2 DEF Untouched
<1>3. ASSUME NEW op \in Composing
      PROVE  Cleaning \subseteq Commands \ {op} /\ Shutting \subseteq Commands \ {op}
  BY <1>1
<1>4. ASSUME NEW op \in Cleaning
      PROVE  Composing \subseteq Commands \ {op} /\ Shutting \subseteq Commands \ {op}
  BY <1>1
<1>5. ASSUME NEW op \in Shutting
      PROVE  Composing \subseteq Commands \ {op} /\ Cleaning \subseteq Commands \ {op}
  BY <1>1
<1>6. /\ Composing \subseteq Commands \ {"userDestroy"} /\ Cleaning \subseteq Commands \ {"userDestroy"}
      /\ Shutting \subseteq Commands \ {"userDestroy"}
  BY <1>1
<1> HIDE DEF Untouched, Composing, Cleaning, Shutting, Commands
<1> QED BY <1>1, <1>2, <1>3, <1>4, <1>5, <1>6

(* As long as the worker runs, a command that is answered without having run *)
(* belongs to a pump that never ran: then nothing was ever made.             *)
LEMMA RefusedMeansNothingMade ==
  ASSUME ExecutorInv, RootInv, worker # "finished", NEW op \in Commands,
         outcome[op] # "none", outcome[op] # "executed"
  PROVE  window = "none" /\ context = "none"
<1>1. ~open
  BY DEF ExecutorInv, ExecutorTypes, Served
<1>2. Unserved
  BY <1>1 DEF ExecutorInv, Served
<1>3. \A p \in succeeded : p \in Commands /\ outcome[p] = "executed"
  BY DEF RootInv, Commands
<1>4. succeeded = {}
  BY <1>2, <1>3 DEF Unserved
<1> QED BY <1>4 DEF RootInv

GuiInv == LifeInv /\ ExecutorInv /\ RootInv /\ CoordinatorInv /\ ScopeInv /\ EndedWithRoot

LEMMA EndedWhenDone == GuiInv => RootEndsWithApplication
<1> SUFFICES ASSUME GuiInv, pc = "done"
             PROVE  window # "open" /\ context # "open" /\ scope \in {"none", "Ended"}
  BY DEF RootEndsWithApplication
<1>1. Len(stopped) = Len(started)
  BY DEF GuiInv, LifeInv, Phases
<1>2. coordinator \notin Busy
  BY DEF GuiInv, CoordinatorInv
<1>3. "createWindow" \in Commands /\ "createContext" \in Commands
  BY DEF Commands
<1>4. ASSUME ~Submitted("createWindow"), ~Submitted("createContext")
      PROVE  window # "open" /\ context # "open"
  BY <1>4 DEF GuiInv, RootInv, Submitted
<1>5. CASE started = <<>>
  <2>1. coordinator \in {"idle", "failed"}
    BY <1>2, <1>5 DEF GuiInv, EndedWithRoot, CoordinatorInv
  <2>2. scope = "none"
    BY <2>1 DEF GuiInv, CoordinatorInv
  <2>3. window # "open" /\ context # "open"
    BY <1>4, <2>1 DEF GuiInv, CoordinatorInv
  <2> QED BY <2>2, <2>3
<1>6. CASE started # <<>>
  <2>1. coordinator = "started" /\ StopAwaits
    BY <1>1, <1>6 DEF GuiInv, EndedWithRoot
  <2>2. CASE ~rooted
    BY <1>4, <2>1, <2>2 DEF GuiInv, CoordinatorInv
  <2>3. CASE rooted
    <3>1. scope # "none"
      BY <2>1, <2>3 DEF GuiInv, CoordinatorInv
    <3>2. endCall[App] = "done"
      BY <2>1, <3>1 DEF StopAwaits, GuiInv, ScopeInv
    <3>3. App \in Agents
      BY DEF Agents
    <3>4. scope = "Ended" /\ endStep = "done"
      BY <3>2, <3>3 DEF GuiInv, ScopeInv
    <3> QED BY <3>4 DEF GuiInv, ScopeInv
  <2> QED BY <2>2, <2>3 DEF GuiInv, ScopeInv
<1> QED BY <1>5, <1>6

LEMMA GuiInitInv == GuiInit => GuiInv
<1> SUFFICES ASSUME GuiInit PROVE GuiInv
  OBVIOUS
<1>1. /\ open = TRUE /\ mode = "waiting" /\ queue = <<>> /\ active = <<>>
      /\ outcome = [op \in Commands |-> "none"]
  BY DEF GuiInit, Executor!Init
<1>2. Held = {} /\ Len(queue) = 0 /\ 1 .. Len(queue) = {}
  BY <1>1, ActiveRange DEF Held
<1>3. \A op \in Commands : ~Submitted(op) /\ outcome[op] = "none"
  BY <1>1, <1>2 DEF Submitted
<1>4. ExecutorInv
  BY <1>1, <1>2, <1>3 DEF ExecutorInv, ExecutorTypes, WaitsOnce, Served, Unserved
<1>5. pc = "created" /\ started = <<>> /\ stopped = <<>> /\ Len(started) = 0 /\ Len(stopped) = 0
  BY DEF GuiInit, Init
<1>6. LifeInv
  BY <1>5 DEF LifeInv, Order, Phases
<1>7. RootInv
  BY <1>3, <1>5 DEF GuiInit, RootInv, Facade, EndsWindow, EndsContext, Commands
<1>8. \A op \in Composing \cup Cleaning \cup Shutting : ~Submitted(op) /\ op \notin Held
  BY <1>2, <1>3 DEF Composing, Cleaning, Shutting, Commands
<1>9. CoordinatorInv
  BY <1>8 DEF GuiInit, CoordinatorInv, Busy, Composing
<1>10. ScopeInv
  BY <1>8 DEF GuiInit, ScopeInv, Cleaning, NoSession
<1>11. EndedWithRoot
  BY <1>5, <1>8 DEF GuiInit, EndedWithRoot, Shutting
<1> QED BY <1>4, <1>6, <1>7, <1>9, <1>10, <1>11 DEF GuiInv

------------------------------------------------------------------------------
(* The steps, one thread of the program after the other.                     *)

(* Only the event runtime, the requests and the calling thread move.         *)
LEMMA GuiElsewhere ==
  ASSUME GuiInv, UNCHANGED <<app, desktop, composition, ending, pending>>, ExecutorInv',
         Untouched(Composing), Untouched(Cleaning), Untouched(Shutting), SameExecuted,
         \/ worker' = worker
         \/ worker = "runtime" /\ worker' = "finished"
  PROVE  GuiInv'
<1>1. /\ UNCHANGED <<pc, started, stopped, window, context, succeeded, stoppedManagers>>
      /\ UNCHANGED <<coordinator, rooted, session, scope, endStep, endCall, pending>>
  BY DEF app, desktop, composition, ending
<1>2. StopAwaits' = StopAwaits
  BY <1>1 DEF StopAwaits
<1>3. EndedWithRoot'
  <2>1. CASE worker' = worker
    BY <1>1, <1>2, <2>1, EndedQuiet DEF GuiInv
  <2>2. CASE worker = "runtime" /\ worker' = "finished"
    BY <1>1, <1>2, <2>2 DEF GuiInv, EndedWithRoot
  <2> QED BY <2>1, <2>2
<1>4. LifeInv' /\ RootInv' /\ CoordinatorInv' /\ ScopeInv'
  BY <1>1, LifeUnchanged, RootQuiet, CoordinatorQuiet, ScopeQuiet DEF GuiInv
<1> QED BY <1>3, <1>4 DEF GuiInv

LEMMA GuiQuietSteps ==
  ASSUME GuiInv,
         \/ Run \/ StartPump \/ PumpStep \/ PumpReturns \/ CallerRequestsStop \/ Join
         \/ EndingDone \/ EnderRequestsStop \/ StopRuntime \/ UserDestroys
         \/ (RequestStop(User, 0) \/ Deliver) /\ UNCHANGED gui
         \/ UNCHANGED guiVars
  PROVE  GuiInv'
<1>0. ExecutorInv
  BY DEF GuiInv
<1>1. CASE \/ Run \/ PumpReturns \/ CallerRequestsStop \/ Join
           \/ EndingDone \/ EnderRequestsStop
           \/ (RequestStop(User, 0) \/ Deliver) /\ UNCHANGED gui
           \/ UNCHANGED guiVars
  <2>1. UNCHANGED <<app, executor, desktop, composition, ending, pending, worker>>
    <3>1. CASE Run \/ PumpReturns \/ Join \/ EndingDone
      BY <3>1 DEF Run, PumpReturns, Join, EndingDone, vars, dispatcher, running
    <3>2. CASE CallerRequestsStop \/ EnderRequestsStop
      BY <3>2 DEF CallerRequestsStop, EnderRequestsStop, dispatcher, running
    <3>3. CASE (RequestStop(User, 0) \/ Deliver) /\ UNCHANGED gui
      BY <3>3 DEF RequestStop, Deliver, SignalToken, ReleaseWaiter, gui, dispatcher, running
    <3>4. CASE UNCHANGED guiVars
      BY <3>4 DEF guiVars, vars, dispatcher, running
    <3> QED BY <1>1, <3>1, <3>2, <3>3, <3>4
  <2>2. ExecutorInv' /\ Untouched(Commands) /\ SameExecuted
    BY <1>0, <2>1, ExecutorQuiet DEF StillServed
  <2> QED BY <2>1, <2>2, UntouchedPart, GuiElsewhere
<1>2. CASE StartPump \/ PumpStep
  <2>1. UNCHANGED <<app, desktop, composition, ending, pending, worker>>
    BY <1>2 DEF StartPump, PumpStep, vars, dispatcher, running
  <2>2. ExecutorInv' /\ Untouched(Commands) /\ SameExecuted
    BY <1>0, <1>2, <2>1, Pumps DEF StillServed, StartPump, PumpStep
  <2> QED BY <2>1, <2>2, UntouchedPart, GuiElsewhere
<1>3. CASE StopRuntime
  <2>1. /\ UNCHANGED <<app, desktop, composition, ending, pending>>
        /\ worker = "runtime" /\ worker' = "finished"
    BY <1>3 DEF StopRuntime, vars, dispatcher
  <2>2. ExecutorInv' /\ Untouched(Commands) /\ SameExecuted
    BY <1>0, <1>3, <2>1, Pumps, ExecutorQuiet DEF StillServed, StopRuntime
  <2> QED BY <2>1, <2>2, UntouchedPart, GuiElsewhere
<1>4. CASE UserDestroys
  <2>1. /\ UNCHANGED <<app, desktop, composition, ending, pending, worker>>
        /\ Submit("userDestroy") /\ "userDestroy" \in Commands
    BY <1>4 DEF UserDestroys, vars, dispatcher, running, Commands
  <2>2. ExecutorInv' /\ Untouched(Commands \ {"userDestroy"}) /\ SameExecuted
    BY <1>0, <2>1, Submits DEF StillServed
  <2> QED BY <2>1, <2>2, UntouchedPart, GuiElsewhere
<1> QED BY <1>1, <1>2, <1>3, <1>4

(* RunAsync, with the root session as its first service.                     *)
LEMMA GuiRunAsync ==
  ASSUME GuiInv, UNCHANGED executor, UNCHANGED <<desktop, composition, ending, dispatcher, running>>,
         LifeInv', pc = "done" => pc' = "done",
         coordinator \notin Busy,
         EndedWithRoot'
  PROVE  GuiInv'
<1>1. /\ UNCHANGED <<window, context, succeeded, stoppedManagers, worker>>
      /\ UNCHANGED <<coordinator, rooted, session, scope, endStep, endCall, pending>>
  BY DEF desktop, composition, ending, dispatcher, running
<1>2. ExecutorInv' /\ Untouched(Commands) /\ SameExecuted
  BY <1>1, ExecutorQuiet DEF GuiInv, StillServed
<1>3. RootInv' /\ CoordinatorInv' /\ ScopeInv'
  BY <1>1, <1>2, UntouchedPart, RootQuiet, CoordinatorQuiet, ScopeQuiet DEF GuiInv
<1> QED BY <1>2, <1>3 DEF GuiInv

LEMMA GuiServices ==
  ASSUME GuiInv, GuiEndStart \/ GuiEndStop \/ ((Otherwise \/ StopNext) /\ UNCHANGED gui)
  PROVE  GuiInv'
<1>0. /\ UNCHANGED executor /\ UNCHANGED <<desktop, composition, ending, dispatcher, running>>
      /\ LifeInv
  BY DEF GuiEndStart, GuiEndStop, gui, GuiInv
<1>1. /\ UNCHANGED <<coordinator, session, endCall, worker>>
      /\ StopAwaits' = StopAwaits
  BY <1>0 DEF composition, ending, running, StopAwaits
<1>2. UNCHANGED <<queue, active, outcome>>
  BY <1>0 DEF executor
<1>3. \A op \in Commands : Submitted(op)' <=> Submitted(op)
  BY <1>2 DEF Submitted, Held
<1>4. "stopInput" \in Commands /\ "stopWindows" \in Commands
  BY DEF Commands
<1>5. ASSUME pc # "done",
             started' # <<>> => coordinator = "started",
             coordinator = "started" => started' # <<>> \/ pc' = "inStart",
             started' # <<>> /\ Len(stopped') = Len(started') /\ pc' # "inStop" => StopAwaits
      PROVE  EndedWithRoot'
  BY <1>1, <1>3, <1>4, <1>5 DEF GuiInv, EndedWithRoot
<1>6. CASE GuiEndStart
  <2>1. EndStart /\ (StartingHere => IF started' # started THEN coordinator = "started" ELSE coordinator = "failed")
    BY <1>6 DEF GuiEndStart
  <2>2. /\ LifeInv' /\ pc = "inStart" /\ stopped' = <<>>
        /\ \/ started' = started /\ pc' = "failing"
           \/ pc' = "starting" /\ started' # <<>> /\ started' # started
    BY <1>0, <2>1, LifeStart
  <2>3. started # <<>> => coordinator = "started"
    BY DEF GuiInv, EndedWithRoot
  <2>4. /\ coordinator \notin Busy
        /\ started' # <<>> => coordinator = "started"
        /\ coordinator = "started" => started' # <<>>
    BY <2>1, <2>2, <2>3 DEF StartingHere, Busy
  <2>5. started' # <<>> => Len(stopped') # Len(started')
    BY <2>2 DEF LifeInv, Order
  <2>6. EndedWithRoot'
    BY <1>5, <2>2, <2>4, <2>5
  <2> QED BY <1>0, <2>2, <2>4, <2>6, GuiRunAsync
<1>7. CASE GuiEndStop
  <2>1. EndStop /\ (StoppingHere => StopAwaits)
    BY <1>7 DEF GuiEndStop
  <2>2. /\ LifeInv' /\ pc = "inStop" /\ pc' = "stopping" /\ UNCHANGED <<started, stopped>>
        /\ Len(stopped) = Len(started) => Last(stopped) = 1
    BY <1>0, <2>1, LifeEndStop
  <2>3. Len(stopped) = Len(started) => StopAwaits
    BY <2>1, <2>2 DEF StoppingHere, Coordinator
  <2>4. /\ coordinator \notin Busy
        /\ started # <<>> => coordinator = "started"
        /\ coordinator = "started" => started # <<>>
    BY <2>2 DEF GuiInv, EndedWithRoot, CoordinatorInv
  <2>5. EndedWithRoot'
    BY <1>5, <2>2, <2>3, <2>4
  <2> QED BY <1>0, <2>2, <2>4, <2>5, GuiRunAsync
<1>8. CASE StopNext
  <2>1. LifeInv' /\ pc = "stopping" /\ pc' = "inStop" /\ started' = started
    BY <1>0, <1>8, LifeStop
  <2>2. /\ coordinator \notin Busy
        /\ started # <<>> => coordinator = "started"
        /\ coordinator = "started" => started # <<>>
    BY <2>1 DEF GuiInv, EndedWithRoot, CoordinatorInv
  <2>3. EndedWithRoot'
    BY <1>5, <2>1, <2>2
  <2> QED BY <1>0, <2>1, <2>2, <2>3, GuiRunAsync
<1>9. CASE Otherwise
  <2>1. LifeInv' /\ UNCHANGED <<started, stopped>>
    BY <1>0, <1>9, LifeOtherwise
  <2>2. pc \notin {"inStart", "inStop", "done"}
    BY <1>9 DEF Otherwise, RunAsync, Configure, StartNext, EndStartup, AwaitStop, Resume,
           RequestStopOnFailure, BeginStopping, Flush, Return, AppAt
  <2>3. /\ coordinator \notin Busy
        /\ started # <<>> => coordinator = "started"
        /\ coordinator = "started" => started # <<>>
        /\ started # <<>> /\ Len(stopped) = Len(started) => StopAwaits
    BY <2>2 DEF GuiInv, EndedWithRoot, CoordinatorInv
  <2>4. EndedWithRoot'
    BY <1>5, <2>1, <2>2, <2>3
  <2> QED BY <1>0, <2>1, <2>2, <2>3, <2>4, GuiRunAsync
<1> QED BY <1>6, <1>7, <1>8, <1>9

(* The coordinator composes the root and rolls it back, all in its first     *)
(* StartAsync.                                                               *)
LEMMA GuiComposes ==
  ASSUME GuiInv, UNCHANGED <<app, desktop, rooted, ending, pending, worker>>, ExecutorInv',
         Untouched(Cleaning), Untouched(Shutting), SameExecuted,
         pc = "inStart" /\ started = <<>>, coordinator # "started", CoordinatorInv'
  PROVE  GuiInv'
<1>1. /\ UNCHANGED <<pc, started, stopped, window, context, succeeded, stoppedManagers>>
      /\ UNCHANGED <<session, scope, endStep, endCall>>
  BY DEF app, desktop, ending
<1>2. LifeInv' /\ RootInv' /\ ScopeInv'
  BY <1>1, LifeUnchanged, RootQuiet, ScopeQuiet DEF GuiInv
<1>3. \A op \in Shutting : Submitted(op)' <=> Submitted(op)
  BY DEF Untouched
<1>4. EndedWithRoot'
  BY <1>1, <1>3 DEF GuiInv, EndedWithRoot, Shutting
<1> QED BY <1>2, <1>4 DEF GuiInv

(* What is not submitted does not wait and made nothing.                     *)
LEMMA UnsubmittedMadeNothing ==
  /\ \A op \in Commands : ~Submitted(op) => op \notin Held
  /\ GuiInv /\ ~Submitted("createWindow") => window = "none"
  /\ GuiInv /\ ~Submitted("createContext") => context = "none"
  /\ GuiInv => \A op \in Held : outcome[op] = "none"
<1>1. \A op \in Commands : ~Submitted(op) => op \notin Held /\ outcome[op] # "executed"
  BY DEF Submitted
<1>2. GuiInv => \A op \in Held : outcome[op] = "none"
  BY DEF GuiInv, ExecutorInv, WaitsOnce
<1>3. "createWindow" \in Commands /\ "createContext" \in Commands
  BY DEF Commands
<1> QED BY <1>1, <1>2, <1>3 DEF GuiInv, RootInv

LEMMA CoordinatorSubmits ==
  ASSUME GuiInv, \/ CreateRootWindow /\ rooted
                 \/ CreateForWindow /\ window = "open"
                 \/ \E op \in {"rollbackContext", "rollbackWindow"}, after \in Busy \cup {"failed"} :
                      Rollback(op, after) /\ ~Answered(op)
  PROVE  GuiInv'
<1>1. PICK op \in Composing :
        /\ Submit(op)
        /\ UNCHANGED <<vars, desktop, rooted, ending, dispatcher, running>>
        /\ \/ op = "createWindow" /\ StartingHere /\ coordinator = "idle" /\ coordinator' = "window" /\ rooted
           \/ op = "createContext" /\ coordinator = "input" /\ coordinator' = "context"
           \/ op \in {"rollbackContext", "rollbackWindow"} /\ coordinator = op /\ coordinator' = coordinator
  BY DEF CreateRootWindow, CreateForWindow, Rollback, Composing
<1>2. op \in Commands
  BY DEF Composing, Commands
<1>3. UNCHANGED <<app, worker, pending, pc, started, scope, window, context>>
  BY <1>1 DEF vars, app, running, dispatcher, ending, desktop
<1>4. /\ ExecutorInv' /\ Untouched(Commands \ {op}) /\ SameExecuted /\ ~Submitted(op)
  BY <1>1, <1>2, <1>3, Submits DEF GuiInv, StillServed
<1>5. Untouched(Cleaning) /\ Untouched(Shutting)
  BY <1>4, UntouchedPart
<1>6. pc = "inStart" /\ started = <<>> /\ coordinator # "started"
  BY <1>1 DEF StartingHere, GuiInv, CoordinatorInv, Busy
<1>7. \A p \in Composing : p # op => (p \in Held' => p \in Held) /\ (Submitted(p)' <=> Submitted(p))
  BY <1>4 DEF Untouched, Composing, Commands
<1>8. \A p \in Composing : ~Submitted(p) => p \notin Held
  BY DEF Submitted
<1>9. CoordinatorInv'
  BY <1>1, <1>3, <1>6, <1>7, <1>8 DEF GuiInv, CoordinatorInv, Composing, Busy
<1> QED BY <1>1, <1>3, <1>4, <1>5, <1>6, <1>9, GuiComposes

LEMMA CoordinatorGoesOn ==
  ASSUME GuiInv, \/ CreateRootWindow /\ ~rooted
                 \/ RootWindowCreated \/ ContextCreated
                 \/ CreateForWindow /\ window # "open"
                 \/ Rollback("rollbackContext", "rollbackWindow") /\ Answered("rollbackContext")
                 \/ Rollback("rollbackWindow", "failed") /\ Answered("rollbackWindow")
  PROVE  GuiInv'
<1>1. /\ UNCHANGED executor
      /\ UNCHANGED <<vars, desktop, rooted, ending, dispatcher, running>>
      /\ \/ /\ coordinator = "idle" /\ coordinator' = "started" /\ StartingHere /\ ~rooted
         \/ /\ coordinator = "window" /\ Answered("createWindow")
            /\ coordinator' = IF "createWindow" \in succeeded THEN "input" ELSE "failed"
         \/ /\ coordinator = "input" /\ coordinator' = "rollbackWindow"
         \/ /\ coordinator = "context" /\ Answered("createContext")
            /\ coordinator' = IF "createContext" \in succeeded THEN "session" ELSE "rollbackWindow"
         \/ /\ coordinator = "rollbackContext" /\ Answered("rollbackContext")
            /\ coordinator' = "rollbackWindow"
         \/ /\ coordinator = "rollbackWindow" /\ Answered("rollbackWindow")
            /\ coordinator' = "failed"
  BY DEF CreateRootWindow, RootWindowCreated, ContextCreated, CreateForWindow, Rollback,
         RollbackWithoutContext
<1>2. UNCHANGED <<app, worker, pending, pc, started, scope, window, context>>
  BY <1>1 DEF vars, app, running, dispatcher, ending, desktop
<1>3. ExecutorInv' /\ Untouched(Commands) /\ SameExecuted
  BY <1>1, <1>2, ExecutorQuiet DEF GuiInv, StillServed
<1>4. Untouched(Cleaning) /\ Untouched(Shutting)
  BY <1>3, UntouchedPart
<1>5. pc = "inStart" /\ started = <<>> /\ coordinator # "started"
  BY <1>1 DEF StartingHere, GuiInv, CoordinatorInv, Busy
<1>6. \A p \in Composing : (p \in Held' => p \in Held) /\ (Submitted(p)' <=> Submitted(p))
  BY <1>3 DEF Untouched, Composing, Commands
<1>7. \A p \in Composing : /\ ~Submitted(p) => p \notin Held
                           /\ Answered(p) => p \notin Held
  BY UnsubmittedMadeNothing DEF Submitted, Answered
<1>8. worker # "finished"
  BY <1>5 DEF GuiInv, EndedWithRoot
<1>9. coordinator' \in {"rollbackWindow", "failed"} => context # "open"
  <2>1. coordinator \in {"window", "input"} => context = "none"
    BY UnsubmittedMadeNothing DEF GuiInv, CoordinatorInv
  <2>2. coordinator = "context" /\ "createContext" \notin succeeded => context # "open"
    BY DEF GuiInv, RootInv
  <2>3. coordinator = "rollbackContext" /\ Answered("rollbackContext") => context # "open"
    <3>1. "rollbackContext" \in Commands /\ "rollbackContext" \in EndsContext
      BY DEF Commands, EndsContext
    <3> QED BY <1>8, <3>1, RefusedMeansNothingMade DEF Answered, GuiInv, RootInv
  <2>4. coordinator = "rollbackWindow" => context # "open"
    BY DEF GuiInv, CoordinatorInv
  <2> QED BY <1>1, <2>1, <2>2, <2>3, <2>4
<1>10. coordinator' = "failed" => window # "open"
  <2>1. coordinator = "window" /\ "createWindow" \notin succeeded => window # "open"
    BY DEF GuiInv, RootInv
  <2>2. coordinator = "rollbackWindow" /\ Answered("rollbackWindow") => window # "open"
    <3>1. "rollbackWindow" \in Commands /\ "rollbackWindow" \in EndsWindow
      BY DEF Commands, EndsWindow
    <3> QED BY <1>8, <3>1, RefusedMeansNothingMade DEF Answered, GuiInv, RootInv
  <2> QED BY <1>1, <2>1, <2>2
<1>11. CoordinatorInv'
  <2>1. \A p \in Composing : Answered(p) => p \notin Held'
    BY <1>6, <1>7
  <2> QED BY <1>1, <1>2, <1>5, <1>6, <1>7, <1>9, <1>10, <2>1 DEF GuiInv, CoordinatorInv, Composing, Busy
<1> QED BY <1>1, <1>2, <1>3, <1>4, <1>5, <1>11, GuiComposes

LEMMA SessionCreated == ASSUME GuiInv, CreateSession PROVE GuiInv'
<1>1. /\ coordinator = "session" /\ UNCHANGED executor
      /\ UNCHANGED <<vars, desktop, rooted, endStep, endCall, dispatcher, running>>
  BY DEF CreateSession
<1>2. /\ UNCHANGED <<app, worker, pending, pc, started, stopped, window, context, succeeded, stoppedManagers>>
      /\ UNCHANGED <<rooted, endStep, endCall>>
  BY <1>1 DEF vars, app, running, dispatcher, desktop
<1>3. ExecutorInv' /\ Untouched(Commands) /\ SameExecuted
  BY <1>1, <1>2, ExecutorQuiet DEF GuiInv, StillServed
<1>4. Untouched(Composing) /\ Untouched(Cleaning) /\ Untouched(Shutting)
  BY <1>3, UntouchedPart
<1>5. pc = "inStart" /\ started = <<>>
  BY <1>1 DEF GuiInv, CoordinatorInv, Busy
<1>6. \A p \in Composing : (p \in Held' => p \in Held) /\ (Submitted(p)' <=> Submitted(p))
  BY <1>4 DEF Untouched
<1>7. CASE coordinator' = "rollbackContext" /\ UNCHANGED <<session, scope>>
  <2>1. CoordinatorInv'
    BY <1>1, <1>2, <1>5, <1>6, <1>7 DEF GuiInv, CoordinatorInv, Composing, Busy
  <2> QED BY <1>1, <1>2, <1>3, <1>4, <1>5, <1>7, <2>1, GuiComposes DEF ending
<1>8. CASE /\ session' = [subscribed |-> TRUE, published |-> TRUE, owned |-> TRUE, endQueued |-> FALSE]
           /\ scope' = "Active" /\ coordinator' = "started"
  <2>1. CoordinatorInv'
    BY <1>1, <1>2, <1>5, <1>6, <1>8 DEF GuiInv, CoordinatorInv, Composing, Busy
  <2>2. \A p \in Cleaning : Submitted(p)' <=> Submitted(p)
    BY <1>4 DEF Untouched
  <2>3. scope = "none" /\ endStep = "none"
    BY <1>1 DEF GuiInv, CoordinatorInv, ScopeInv
  <2>4. ScopeInv'
    BY <1>2, <1>8, <2>2, <2>3 DEF GuiInv, ScopeInv, Cleaning
  <2>5. LifeInv' /\ RootInv'
    BY <1>2, <1>3, LifeUnchanged, RootQuiet DEF GuiInv
  <2>6. \A op \in Shutting : Submitted(op)' <=> Submitted(op)
    BY <1>4 DEF Untouched
  <2>7. EndedWithRoot'
    BY <1>2, <1>5, <1>8, <2>6 DEF GuiInv, EndedWithRoot, Shutting
  <2> QED BY <1>3, <2>1, <2>4, <2>5, <2>7 DEF GuiInv
<1> QED BY <1>7, <1>8 DEF CreateSession

LEMMA GuiCoordinator ==
  ASSUME GuiInv, \/ CreateRootWindow \/ RootWindowCreated \/ CreateForWindow \/ ContextCreated
                 \/ CreateSession
                 \/ Rollback("rollbackContext", "rollbackWindow")
                 \/ Rollback("rollbackWindow", "failed")
  PROVE  GuiInv'
<1>1. "rollbackWindow" \in Busy \cup {"failed"} /\ "failed" \in Busy \cup {"failed"}
  BY DEF Busy
<1> QED BY <1>1, CoordinatorSubmits, CoordinatorGoesOn, SessionCreated

(* Ending the scope: somebody calls EndAsync, a cleanup is done, the calls   *)
(* return.                                                                   *)
LEMMA GuiEndings ==
  ASSUME GuiInv, UNCHANGED <<vars, desktop, composition, worker>>, ExecutorInv',
         Untouched(Composing), Untouched(Shutting), SameExecuted,
         ScopeInv', scope' = "none" <=> scope = "none", StopAwaits => StopAwaits'
  PROVE  GuiInv'
<1>1. /\ UNCHANGED <<pc, started, stopped, window, context, succeeded, stoppedManagers>>
      /\ UNCHANGED <<coordinator, rooted>>
  BY DEF vars, app, desktop, composition
<1>2. LifeInv' /\ RootInv' /\ CoordinatorInv' /\ EndedWithRoot'
  BY <1>1, LifeUnchanged, RootQuiet, CoordinatorQuiet, EndedQuiet DEF GuiInv
<1> QED BY <1>2 DEF GuiInv

Sessions == [subscribed : BOOLEAN, published : BOOLEAN, owned : BOOLEAN, endQueued : BOOLEAN]

LEMMA EndBegins ==
  ASSUME GuiInv, NEW a \in Agents, BeginEnd(a), scope # "none",
         UNCHANGED <<rooted, window, context>>, Untouched(Cleaning),
         session' \in Sessions, pending' \in Seq([scope : BOOLEAN]),
         a = App \/ session'.published = session.published
  PROVE  ScopeInv' /\ scope' # "none" /\ (StopAwaits => StopAwaits')
<1>1. /\ endCall[a] = "none" /\ endCall' = [endCall EXCEPT ![a] = "waiting"]
      /\ \/ scope = "Active" /\ scope' = "Ending" /\ endStep' = "context"
         \/ scope # "Active" /\ UNCHANGED <<scope, endStep>>
  BY DEF BeginEnd, FirstCleanup
<1>2. /\ endCall' \in [Agents -> {"none", "waiting", "done"}] /\ endCall'[a] = "waiting"
      /\ \A b \in Agents \ {a} : endCall'[b] = endCall[b]
  BY <1>1 DEF GuiInv, ScopeInv
<1>3. App \in Agents
  BY DEF Agents
<1>4. scope' \in {"Ending", "Ended"} /\ (scope = "Ended" => scope' = "Ended")
  BY <1>1 DEF GuiInv, ScopeInv
<1>5. \A op \in Cleaning : Submitted(op)' <=> Submitted(op)
  BY DEF Untouched
<1>6. StopAwaits => endCall[App] = "done"
  BY DEF StopAwaits, GuiInv, ScopeInv
<1>7. endCall[App] = "done" => endCall'[App] = "done"
  BY <1>1, <1>2, <1>3
<1>8. /\ endStep' \in {"none", "context", "window", "done"}
      /\ scope' \in {"none", "Active"} <=> endStep' = "none"
      /\ scope' = "Ended" => endStep' = "done"
      /\ endStep' \notin {"window", "done"} => ~Submitted("endWindow")'
      /\ endStep' = "none" => ~Submitted("endContext")'
      /\ endStep' \in {"window", "done"} => context' # "open"
      /\ endStep' = "done" => window' # "open"
  BY <1>1, <1>5 DEF GuiInv, ScopeInv, Cleaning
<1>9. \A b \in Agents : /\ endCall'[b] # "none" => scope' \in {"Ending", "Ended"}
                        /\ endCall'[b] = "done" => scope' = "Ended"
  BY <1>2, <1>4 DEF GuiInv, ScopeInv
<1>10. scope' # "none" /\ endCall'[App] = "none" => session'.published
  <2>1. endCall'[App] = "none" => a # App /\ endCall[App] = "none"
    BY <1>2, <1>3
  <2> QED BY <2>1 DEF GuiInv, ScopeInv
<1>11. ScopeInv'
  BY <1>2, <1>4, <1>8, <1>9, <1>10 DEF GuiInv, ScopeInv, Sessions
<1> QED BY <1>4, <1>6, <1>7, <1>11 DEF StopAwaits

LEMMA GuiEndCalls ==
  ASSUME GuiInv, StopRootSession \/ UserEnds \/ TakeWork
  PROVE  GuiInv'
<1>1. UNCHANGED <<vars, executor, desktop, composition, worker>>
  BY DEF StopRootSession, UserEnds, TakeWork, running
<1>2. ExecutorInv' /\ Untouched(Commands) /\ SameExecuted
  BY <1>1, ExecutorQuiet DEF GuiInv, StillServed
<1>3. Untouched(Composing) /\ Untouched(Cleaning) /\ Untouched(Shutting)
  BY <1>2, UntouchedPart
<1>4. UNCHANGED <<rooted, window, context>>
  BY <1>1 DEF desktop, composition
<1>5. session \in Sessions /\ pending \in Seq([scope : BOOLEAN])
  BY DEF GuiInv, ScopeInv, Sessions
<1>6. CASE StopRootSession \/ UserEnds
  <2>1. PICK a \in Agents, published \in BOOLEAN :
          /\ session.published /\ Ends(a, published) /\ UNCHANGED pending
          /\ a = App \/ published = session.published
    <3>1. session.published \in BOOLEAN
      BY <1>5 DEF Sessions
    <3> QED BY <1>6, <3>1 DEF StopRootSession, UserEnds, Agents, dispatcher
  <2>2. BeginEnd(a) /\ session' = [session EXCEPT !.owned = FALSE, !.published = published]
    BY <2>1 DEF Ends
  <2>3. session' \in Sessions /\ session'.published = published
    BY <1>5, <2>2 DEF Sessions
  <2>4. scope # "none"
    BY <2>1 DEF GuiInv, ScopeInv
  <2>5. ScopeInv' /\ scope' # "none" /\ (StopAwaits => StopAwaits')
    BY <1>3, <1>4, <1>5, <2>1, <2>2, <2>3, <2>4, EndBegins
  <2> QED BY <1>1, <1>2, <1>3, <2>4, <2>5, GuiEndings
<1>7. CASE TakeWork
  <2>1. /\ pending # <<>> /\ pending' = Tail(pending) /\ UNCHANGED session
        /\ \/ Head(pending).scope /\ BeginEnd(Ender)
           \/ UNCHANGED <<scope, endStep, endCall>>
    BY <1>7 DEF TakeWork
  <2>2. /\ pending' \in Seq([scope : BOOLEAN]) /\ 1 \in 1 .. Len(pending) /\ Head(pending) = pending[1]
        /\ \A i \in 1 .. Len(pending') : i + 1 \in 1 .. Len(pending) /\ pending'[i] = pending[i + 1]
    BY <1>5, <2>1
  <2>3. CASE Head(pending).scope /\ BeginEnd(Ender)
    <3>1. scope # "none"
      BY <2>2, <2>3 DEF GuiInv, ScopeInv
    <3>2. Ender \in Agents
      BY DEF Agents
    <3>3. ScopeInv' /\ scope' # "none" /\ (StopAwaits => StopAwaits')
      BY <1>3, <1>4, <1>5, <2>1, <2>2, <2>3, <3>1, <3>2, EndBegins
    <3> QED BY <1>1, <1>2, <1>3, <3>1, <3>3, GuiEndings
  <2>4. CASE UNCHANGED <<scope, endStep, endCall>>
    <3>1. \A i \in 1 .. Len(pending') : pending'[i].scope => scope # "none"
      BY <2>2 DEF GuiInv, ScopeInv
    <3>2. \A op \in Cleaning : Submitted(op)' <=> Submitted(op)
      BY <1>3 DEF Untouched
    <3>3. ScopeInv'
      BY <1>4, <2>1, <2>2, <2>4, <3>1, <3>2 DEF GuiInv, ScopeInv, Cleaning
    <3> QED BY <1>1, <1>2, <1>3, <2>1, <2>4, <3>3, GuiEndings DEF StopAwaits
  <2> QED BY <2>1, <2>3, <2>4
<1> QED BY <1>6, <1>7

LEMMA GuiEndReturns ==
  ASSUME GuiInv, ScopeEnded \/ \E a \in Agents : EndReturns(a)
  PROVE  GuiInv'
<1>1. UNCHANGED <<vars, executor, desktop, composition, worker, session, pending, endStep>>
  BY DEF ScopeEnded, EndReturns, running, dispatcher
<1>2. ExecutorInv' /\ Untouched(Commands) /\ SameExecuted
  BY <1>1, ExecutorQuiet DEF GuiInv, StillServed
<1>3. Untouched(Composing) /\ Untouched(Cleaning) /\ Untouched(Shutting)
  BY <1>2, UntouchedPart
<1>4. \A op \in Cleaning : Submitted(op)' <=> Submitted(op)
  BY <1>3 DEF Untouched
<1>5. UNCHANGED <<rooted, window, context>>
  BY <1>1 DEF desktop, composition
<1>6. CASE ScopeEnded
  <2>1. scope = "Ending" /\ endStep = "done" /\ scope' = "Ended" /\ UNCHANGED endCall
    BY <1>6 DEF ScopeEnded
  <2>2. ScopeInv'
    BY <1>1, <1>4, <1>5, <2>1 DEF GuiInv, ScopeInv, Cleaning
  <2> QED BY <1>1, <1>2, <1>3, <2>1, <2>2, GuiEndings DEF StopAwaits
<1>7. CASE \E a \in Agents : EndReturns(a)
  <2>1. PICK a \in Agents : /\ endCall[a] = "waiting" /\ scope # "Ending"
                            /\ endCall' = [endCall EXCEPT ![a] = "done"] /\ UNCHANGED scope
    BY <1>7 DEF EndReturns
  <2>2. /\ endCall' \in [Agents -> {"none", "waiting", "done"}] /\ endCall'[a] = "done"
        /\ \A b \in Agents \ {a} : endCall'[b] = endCall[b]
    BY <2>1 DEF GuiInv, ScopeInv
  <2>3. scope = "Ended" /\ App \in Agents
    BY <2>1 DEF GuiInv, ScopeInv, Agents
  <2>4. /\ \A b \in Agents : /\ endCall'[b] # "none" => scope' \in {"Ending", "Ended"}
                             /\ endCall'[b] = "done" => scope' = "Ended"
        /\ endCall'[App] = "none" => endCall[App] = "none"
        /\ StopAwaits => StopAwaits'
    BY <1>1, <2>1, <2>2, <2>3 DEF StopAwaits
  <2>5. ScopeInv'
    BY <1>1, <1>4, <1>5, <2>1, <2>2, <2>3, <2>4 DEF GuiInv, ScopeInv, Cleaning
  <2> QED BY <1>1, <1>2, <1>3, <2>1, <2>4, <2>5, GuiEndings
<1> QED BY <1>6, <1>7

LEMMA AfterCleanup == After("context") = "window" /\ After("window") = "done"
<1>1. \A c \in {"context", "window"} : c # "context" <=> c = "window"
  OBVIOUS
<1>2. (CHOOSE c \in {"context", "window"} : c # "context") = "window"
  BY <1>1
<1> QED BY <1>2 DEF After, FirstCleanup

LEMMA GuiCleanup == ASSUME GuiInv, Cleanup PROVE GuiInv'
<1> DEFINE op == CommandOf(endStep)
<1>1. /\ scope = "Ending" /\ endStep # "done"
      /\ UNCHANGED <<vars, desktop, composition, session, scope, endCall, worker, pending>>
      /\ \/ Submit(op) /\ UNCHANGED endStep
         \/ /\ (~Live(endStep) /\ Executor!Fresh(op)) \/ Answered(op)
            /\ endStep' = After(endStep) /\ UNCHANGED executor
  BY DEF Cleanup, dispatcher, running
<1>2. endStep \in {"context", "window"} /\ worker # "finished" /\ pc # "done"
  BY <1>1, EndedWhenDone DEF GuiInv, ScopeInv, EndedWithRoot, RootEndsWithApplication
<1>3. /\ endStep = "context" => op = "endContext"
      /\ endStep = "window" => op = "endWindow"
      /\ op \in Cleaning /\ op \in Commands
  BY <1>2 DEF CommandOf, Cleaning, Commands
<1>4. UNCHANGED <<rooted, window, context>>
  BY <1>1 DEF desktop, composition
<1>5. StopAwaits' = StopAwaits
  BY <1>1 DEF StopAwaits
<1>6. CASE Submit(op) /\ UNCHANGED endStep
  <2>1. ExecutorInv' /\ Untouched(Commands \ {op}) /\ SameExecuted
    BY <1>1, <1>3, <1>6, Submits DEF GuiInv, StillServed
  <2>2. Untouched(Composing) /\ Untouched(Shutting)
    BY <1>3, <2>1, UntouchedPart
  <2>3. endStep = "context" => (Submitted("endWindow")' <=> Submitted("endWindow"))
    BY <1>3, <2>1 DEF Untouched, Commands
  <2>4. ScopeInv'
    BY <1>1, <1>2, <1>4, <1>6, <2>3 DEF GuiInv, ScopeInv
  <2> QED BY <1>1, <1>5, <2>1, <2>2, <2>4, GuiEndings
<1>7. CASE /\ (~Live(endStep) /\ Executor!Fresh(op)) \/ Answered(op)
           /\ endStep' = After(endStep) /\ UNCHANGED executor
  <2>1. ExecutorInv' /\ Untouched(Commands) /\ SameExecuted
    BY <1>1, <1>7, ExecutorQuiet DEF GuiInv, StillServed
  <2>2. Untouched(Composing) /\ Untouched(Cleaning) /\ Untouched(Shutting)
    BY <2>1, UntouchedPart
  <2>3. \A p \in Cleaning : Submitted(p)' <=> Submitted(p)
    BY <2>2 DEF Untouched
  <2>4. IF endStep = "context" THEN context # "open" ELSE window # "open"
    <3>1. CASE ~Live(endStep)
      BY <1>2, <3>1 DEF Live, GuiInv, RootInv
    <3>2. CASE Answered(op)
      <4>1. CASE outcome[op] = "executed"
        BY <1>2, <1>3, <4>1 DEF GuiInv, RootInv, EndsWindow, EndsContext
      <4>2. CASE outcome[op] # "executed"
        BY <1>2, <1>3, <3>2, <4>2, RefusedMeansNothingMade DEF GuiInv, Answered
      <4> QED BY <4>1, <4>2
    <3> QED BY <1>7, <3>1, <3>2
  <2>5. \/ endStep = "context" /\ endStep' = "window"
        \/ endStep = "window" /\ endStep' = "done"
    BY <1>2, <1>7, AfterCleanup
  <2>6. ScopeInv'
    BY <1>1, <1>4, <2>3, <2>4, <2>5 DEF GuiInv, ScopeInv, Cleaning
  <2> QED BY <1>1, <1>5, <2>1, <2>2, <2>6, GuiEndings
<1> QED BY <1>1, <1>6, <1>7

(* The facades: what a command that has run makes of them.                   *)
LEMMA GuiDesktop ==
  ASSUME GuiInv, UNCHANGED <<vars, composition, scope, endStep, endCall, worker>>, ExecutorInv',
         Untouched(Commands), RootInv',
         (Closed /\ UNCHANGED succeeded) \/ UNCHANGED <<session, pending>>,
         coordinator \in {"rollbackWindow", "failed"} \/ endStep # "none"
           => (context # "open" => context' # "open") /\ (window # "open" => window' # "open")
  PROVE  GuiInv'
<1>1. UNCHANGED <<pc, started, stopped, coordinator, rooted>>
  BY DEF vars, app, composition
<1>2. Untouched(Composing) /\ Untouched(Cleaning) /\ Untouched(Shutting)
  BY UntouchedPart
<1>3. session \in Sessions /\ pending \in Seq([scope : BOOLEAN])
  BY DEF GuiInv, ScopeInv, Sessions
<1>4. CoordinatorInv' /\ LifeInv'
  BY <1>1, <1>2, CoordinatorQuiet, LifeUnchanged DEF GuiInv
<1>5. CASE UNCHANGED <<session, pending>>
  <2>1. ScopeInv' /\ EndedWithRoot'
    BY <1>1, <1>2, <1>5, ScopeQuiet, EndedQuiet DEF GuiInv, StopAwaits
  <2> QED BY <1>4, <2>1 DEF GuiInv
<1>6. CASE Closed /\ ~UNCHANGED <<session, pending>>
  <2>1. /\ session' = [session EXCEPT !.endQueued = TRUE, !.owned = FALSE]
        /\ pending' = Append(pending, [scope |-> session.owned])
    BY <1>6 DEF Closed
  <2>2. /\ session' \in Sessions /\ session'.published = session.published /\ session'.owned = FALSE
        /\ session.owned \in BOOLEAN
    BY <1>3, <2>1 DEF Sessions
  <2>3. /\ pending' \in Seq([scope : BOOLEAN])
        /\ \A i \in 1 .. Len(pending') : \/ i \in 1 .. Len(pending) /\ pending'[i] = pending[i]
                                         \/ pending'[i].scope = session.owned
    BY <1>3, <2>1, <2>2
  <2>4. \A i \in 1 .. Len(pending') : pending'[i].scope => scope # "none"
    BY <2>3 DEF GuiInv, ScopeInv
  <2>5. \A op \in Cleaning : Submitted(op)' <=> Submitted(op)
    BY <1>2 DEF Untouched
  <2>6. ScopeInv'
    BY <1>1, <2>2, <2>3, <2>4, <2>5 DEF GuiInv, ScopeInv, Cleaning, Sessions
  <2>7. StopAwaits' = StopAwaits
    BY <2>2 DEF StopAwaits
  <2>8. EndedWithRoot'
    BY <1>1, <1>2, <2>7, EndedQuiet DEF GuiInv
  <2> QED BY <1>4, <2>6, <2>8 DEF GuiInv
<1> QED BY <1>5, <1>6

(* Nothing that ends a facade has run, or waits, while it is being made.     *)
LEMMA MadeFirst ==
  ASSUME GuiInv
  PROVE  /\ "createWindow" \in Held
              => /\ coordinator = "window" /\ window = "none" /\ endStep = "none"
                 /\ \A op \in EndsWindow : ~Submitted(op)
         /\ "createContext" \in Held
              => /\ coordinator = "context" /\ context = "none" /\ endStep = "none"
                 /\ stoppedManagers = {}
                 /\ \A op \in EndsContext : ~Submitted(op)
<1>1. coordinator \in Busy => /\ scope = "none" /\ endStep = "none" /\ worker = "application"
                              /\ stoppedManagers = {}
  BY DEF GuiInv, CoordinatorInv, ScopeInv, EndedWithRoot, RootInv, Busy
<1>2. /\ "createWindow" \in Held => coordinator = "window"
      /\ "createContext" \in Held => coordinator = "context"
  BY DEF GuiInv, CoordinatorInv
<1>3. /\ "createWindow" \in Held => "createWindow" \notin succeeded
      /\ "createContext" \in Held => "createContext" \notin succeeded
  BY UnsubmittedMadeNothing DEF GuiInv, RootInv
<1>4. /\ "createWindow" \in Held => window = "none"
      /\ "createContext" \in Held => context = "none"
  BY <1>3 DEF GuiInv, RootInv
<1>5. coordinator = "window" => \A op \in EndsWindow : ~Submitted(op)
  BY <1>1 DEF GuiInv, CoordinatorInv, ScopeInv, EndedWithRoot, EndsWindow, Busy
<1>6. coordinator = "context" => \A op \in EndsContext : ~Submitted(op)
  BY <1>1 DEF GuiInv, CoordinatorInv, ScopeInv, EndedWithRoot, EndsContext, Busy
<1> QED BY <1>1, <1>2, <1>4, <1>5, <1>6 DEF Busy

LEMMA GuiCommand ==
  ASSUME GuiInv, NEW op \in Commands, EndCommand(op)
  PROVE  GuiInv'
<1>1. /\ active = <<op>> /\ Executor!End
      /\ UNCHANGED <<vars, composition, scope, endStep, endCall, worker>>
  BY DEF EndCommand, running
<1>2. /\ ExecutorInv' /\ Untouched(Commands)
      /\ op \in Held /\ outcome[op] = "none" /\ outcome'[op] = "executed"
      /\ \A p \in Commands \ {op} : outcome'[p] = "executed" <=> outcome[p] = "executed"
  BY <1>1, Executes DEF GuiInv
<1>3. UNCHANGED pc
  BY <1>1 DEF vars, app
<1>4. /\ EndsWindow \subseteq Commands /\ EndsContext \subseteq Commands
      /\ \A p \in succeeded : p \in Commands /\ outcome[p] = "executed"
      /\ "createWindow" \notin EndsWindow \cup EndsContext
      /\ "createContext" \notin EndsWindow \cup EndsContext
  BY DEF EndsWindow, EndsContext, Commands, GuiInv, RootInv
<1>5. \A p \in succeeded : outcome'[p] = "executed"
  BY <1>2, <1>4
<1>6. CASE op = "createWindow"
  <2>1. CreatesWindow
    BY <1>6 DEF EndCommand
  <2>2. /\ coordinator = "window" /\ window = "none" /\ endStep = "none"
        /\ \A p \in EndsWindow : outcome[p] # "executed"
    BY <1>2, <1>4, <1>6, MadeFirst DEF Submitted
  <2>3. /\ succeeded' = succeeded \cup {"createWindow"} \/ succeeded' = succeeded
        /\ window' = IF "createWindow" \in succeeded' THEN "open" ELSE window
        /\ UNCHANGED <<context, stoppedManagers, session, pending>>
    BY <2>1 DEF CreatesWindow, Created
  <2>4. \A p \in EndsWindow : outcome'[p] # "executed"
    BY <1>2, <1>4, <1>6, <2>2
  <2>5. \A p \in EndsContext : outcome'[p] = "executed" => outcome[p] = "executed"
    BY <1>2, <1>4, <1>6
  <2>6. RootInv'
    BY <1>2, <1>3, <1>5, <1>6, <2>2, <2>3, <2>4, <2>5 DEF GuiInv, RootInv, Facade
  <2> QED BY <1>1, <1>2, <2>2, <2>3, <2>6, GuiDesktop
<1>7. CASE op = "createContext"
  <2>1. CreatesContext
    BY <1>7 DEF EndCommand
  <2>2. /\ coordinator = "context" /\ context = "none" /\ endStep = "none" /\ stoppedManagers = {}
        /\ \A p \in EndsContext : outcome[p] # "executed"
    BY <1>2, <1>4, <1>7, MadeFirst DEF Submitted
  <2>3. /\ succeeded' = succeeded \cup {"createContext"} \/ succeeded' = succeeded
        /\ context' = IF "createContext" \in succeeded' THEN "open" ELSE context
        /\ UNCHANGED <<window, stoppedManagers, session, pending>>
    BY <2>1 DEF CreatesContext, Created
  <2>4. \A p \in EndsContext : outcome'[p] # "executed"
    BY <1>2, <1>4, <1>7, <2>2
  <2>5. \A p \in EndsWindow : outcome'[p] = "executed" => outcome[p] = "executed"
    BY <1>2, <1>4, <1>7
  <2>6. RootInv'
    BY <1>2, <1>3, <1>5, <1>7, <2>2, <2>3, <2>4, <2>5 DEF GuiInv, RootInv, Facade
  <2> QED BY <1>1, <1>2, <2>2, <2>3, <2>6, GuiDesktop
<1>8. CASE op \in EndsContext
  <2>1. PICK stops \in SUBSET {"input"} : DestroysContext(stops) /\ (stops # {} => op = "stopInput")
    <3>1. {} \in SUBSET {"input"} /\ {"input"} \in SUBSET {"input"}
      OBVIOUS
    <3> QED BY <1>8, <3>1 DEF EndCommand, EndsContext
  <2>2. /\ context' # "open" /\ context' \in Facade /\ (context' # "none" <=> context # "none")
        /\ stoppedManagers' = stoppedManagers \cup stops
        /\ UNCHANGED <<succeeded, window, session, pending>>
    BY <2>1 DEF DestroysContext, IfOpen, Facade, GuiInv, RootInv
  <2>3. stops # {} => pc = "done"
    BY <1>2, <2>1 DEF Submitted, GuiInv, EndedWithRoot
  <2>4. op \notin EndsWindow
    BY <1>8 DEF EndsContext, EndsWindow
  <2>5. \A p \in EndsWindow : outcome'[p] = "executed" => outcome[p] = "executed"
    BY <1>2, <1>4, <2>4
  <2>6. RootInv'
    BY <1>3, <1>5, <2>2, <2>3, <2>5 DEF GuiInv, RootInv
  <2> QED BY <1>1, <1>2, <2>2, <2>6, GuiDesktop
<1>9. CASE op \notin EndsContext \cup {"createWindow", "createContext"}
  <2>1. DestroysWindow
    BY <1>9 DEF EndCommand, EndsContext
  <2>2. /\ window' # "open" /\ window' \in Facade /\ (window' # "none" <=> window # "none")
        /\ Closed \/ UNCHANGED <<session, pending>>
        /\ UNCHANGED <<succeeded, context, stoppedManagers>>
    BY <2>1 DEF DestroysWindow, IfOpen, Facade, GuiInv, RootInv
  <2>3. \A p \in EndsContext : outcome'[p] = "executed" => outcome[p] = "executed"
    BY <1>2, <1>4, <1>9
  <2>4. RootInv'
    BY <1>3, <1>5, <2>2, <2>3 DEF GuiInv, RootInv
  <2> QED BY <1>1, <1>2, <2>2, <2>4, GuiDesktop
<1> QED BY <1>6, <1>7, <1>8, <1>9

LEMMA GuiUserCloses == ASSUME GuiInv, UserCloses PROVE GuiInv'
<1>1. /\ UNCHANGED executor /\ UNCHANGED <<vars, composition, scope, endStep, endCall, worker>>
      /\ DestroysWindow
  BY DEF UserCloses, running
<1>2. ExecutorInv' /\ Untouched(Commands) /\ SameExecuted
  BY <1>1, ExecutorQuiet DEF GuiInv, StillServed
<1>3. /\ window' # "open" /\ window' \in Facade /\ (window' # "none" <=> window # "none")
      /\ Closed \/ UNCHANGED <<session, pending>>
      /\ UNCHANGED <<succeeded, context, stoppedManagers>>
  BY <1>1 DEF DestroysWindow, IfOpen, Facade, GuiInv, RootInv
<1>4. UNCHANGED outcome /\ UNCHANGED pc
  BY <1>1 DEF executor, vars, app
<1>5. RootInv'
  BY <1>3, <1>4 DEF GuiInv, RootInv
<1> QED BY <1>1, <1>2, <1>3, <1>5, GuiDesktop

(* The backend is shut down on the worker, when the application's run is     *)
(* over.                                                                     *)
LEMMA GuiShutdown ==
  ASSUME GuiInv, ShutdownInput \/ ShutdownWindows \/ AbandonWindows
  PROVE  GuiInv'
<1>1. /\ UNCHANGED <<vars, succeeded, composition, ending, dispatcher>>
      /\ \/ /\ ShutdownInput /\ Submit("stopInput")
            /\ pc = "done" /\ worker = "application" /\ worker' = "input"
            /\ UNCHANGED <<window, context, stoppedManagers>>
         \/ /\ ShutdownWindows /\ Submit("stopWindows")
            /\ worker = "input" /\ worker' = "windows" /\ UNCHANGED window
            /\ stoppedManagers' = {"input", "windows"}
            /\ context' \in {context, IfOpen(context)}
         \/ /\ AbandonWindows /\ UNCHANGED executor
            /\ worker = "windows" /\ worker' = "runtime"
            /\ window' \in {window, IfOpen(window)} /\ UNCHANGED <<context, stoppedManagers>>
  BY DEF ShutdownInput, ShutdownWindows, AbandonWindows, desktop
<1>2. /\ UNCHANGED <<pc, started, stopped, coordinator, rooted>>
      /\ UNCHANGED <<session, scope, endStep, endCall, pending>>
      /\ StopAwaits' = StopAwaits
  BY <1>1 DEF vars, app, composition, ending, dispatcher, StopAwaits
<1>3. pc = "done" /\ StillServed /\ window # "open" /\ context # "open" /\ coordinator \notin Busy
  BY <1>1, EndedWhenDone DEF GuiInv, EndedWithRoot, StillServed, RootEndsWithApplication, CoordinatorInv
<1>4. UNCHANGED <<window, context>>
  BY <1>1, <1>3 DEF IfOpen
<1>5. "stopInput" \in Shutting /\ "stopWindows" \in Shutting /\ Shutting \subseteq Commands
  BY DEF Shutting, Commands
<1>6. PICK op \in Shutting :
        /\ ExecutorInv' /\ SameExecuted /\ Untouched(Commands \ {op})
        /\ op = "stopInput" => worker' # "application"
        /\ op = "stopWindows" => worker' \notin {"application", "input"}
  <2>1. CASE ShutdownInput /\ Submit("stopInput") /\ worker' = "input"
    BY <1>3, <1>5, <2>1, Submits DEF GuiInv
  <2>2. CASE ShutdownWindows /\ Submit("stopWindows") /\ worker' = "windows"
    BY <1>3, <1>5, <2>2, Submits DEF GuiInv
  <2>3. CASE UNCHANGED executor /\ worker' = "runtime"
    BY <1>3, <1>5, <2>3, ExecutorQuiet DEF GuiInv, Untouched
  <2> QED BY <1>1, <2>1, <2>2, <2>3
<1>7. Untouched(Composing) /\ Untouched(Cleaning)
  BY <1>6, UntouchedPart
<1>8. \A p \in Shutting \ {op} : Submitted(p)' <=> Submitted(p)
  BY <1>5, <1>6 DEF Untouched
<1>9. EndedWithRoot'
  BY <1>1, <1>2, <1>3, <1>5, <1>6, <1>8 DEF GuiInv, EndedWithRoot
<1>10. RootInv'
  <2>1. \A p \in EndsWindow \cup EndsContext \cup succeeded : outcome'[p] = "executed" <=> outcome[p] = "executed"
    BY <1>6 DEF SameExecuted, EndsWindow, EndsContext, Commands, GuiInv, RootInv
  <2> QED BY <1>1, <1>2, <1>3, <1>4, <2>1 DEF GuiInv, RootInv
<1>11. LifeInv' /\ CoordinatorInv' /\ ScopeInv'
  BY <1>2, <1>4, <1>7, LifeUnchanged, CoordinatorQuiet, ScopeQuiet DEF GuiInv
<1> QED BY <1>6, <1>9, <1>10, <1>11 DEF GuiInv

LEMMA GuiStep == GuiInv /\ [GuiNext]_guiVars => GuiInv'
<1> SUFFICES ASSUME GuiInv, [GuiNext]_guiVars PROVE GuiInv'
  OBVIOUS
<1>1. CASE UNCHANGED guiVars
  BY <1>1, GuiQuietSteps
<1>2. CASE AppStep
  <2>1. AppStep => \/ GuiEndStart \/ GuiEndStop \/ ((Otherwise \/ StopNext) /\ UNCHANGED gui)
                   \/ StopRootSession
                   \/ CreateRootWindow \/ RootWindowCreated \/ CreateForWindow \/ ContextCreated
                   \/ CreateSession
                   \/ Rollback("rollbackContext", "rollbackWindow") \/ Rollback("rollbackWindow", "failed")
                   \/ ShutdownInput \/ ShutdownWindows \/ AbandonWindows \/ StopRuntime
    BY DEF AppStep, Otherwise
  <2> QED BY <1>2, <2>1, GuiServices, GuiEndCalls, GuiCoordinator, GuiShutdown, GuiQuietSteps
<1>3. CASE EventThread
  BY <1>3, GuiQuietSteps, GuiCommand DEF EventThread
<1>4. CASE EndStep
  BY <1>4, GuiCleanup, GuiEndReturns DEF EndStep
<1>5. CASE EnderStep
  BY <1>5, GuiEndCalls, GuiQuietSteps DEF EnderStep
<1>6. CASE UserStep
  BY <1>6, GuiEndCalls, GuiUserCloses, GuiQuietSteps DEF UserStep
<1>7. CASE Deliver /\ UNCHANGED gui
  BY <1>7, GuiQuietSteps
<1> QED BY <1>1, <1>2, <1>3, <1>4, <1>5, <1>6, <1>7 DEF GuiNext

(* When the application's run is over, in whatever way its startup failed or *)
(* its window was closed, no root window and no input context is left, and   *)
(* the session's scope has ended (StartAsync's rollback, StopAsync).         *)
THEOREM RootEndsHolds == GuiSpec => []RootEndsWithApplication
<1> QED BY GuiInitInv, GuiStep, EndedWhenDone, PTL DEF GuiSpec

(* The program destroys the root window only after its input context; only   *)
(* the user may do it the other way round (WindowSession.cpp:316).           *)
THEOREM InputDetachedFirstHolds == GuiSpec => InputDetachedFirst
<1> DEFINE DetachedFirst ==
      (window = "open" /\ window' = "destroyed" /\ active # <<>> /\ active # <<"userDestroy">>)
        => context # "open"
<1>1. GuiInv /\ [GuiNext]_guiVars => [DetachedFirst]_guiVars
  <2> SUFFICES ASSUME GuiInv, GuiNext, window = "open", window' = "destroyed",
                      active # <<>>, active # <<"userDestroy">>
               PROVE  context # "open"
    BY Zenon
  <2>1. PICK op \in Commands : EndCommand(op)
    <3>1. CASE AppStep
      <4>1. CASE AbandonWindows
        BY <4>1, EndedWhenDone DEF AbandonWindows, GuiInv, EndedWithRoot, RootEndsWithApplication
      <4>2. CASE ~AbandonWindows
        <5>1. UNCHANGED window
          BY <3>1, <4>2 DEF AppStep, gui, desktop, GuiEndStart, GuiEndStop, StopRootSession,
             CreateRootWindow, RootWindowCreated, CreateForWindow, ContextCreated, CreateSession,
             Rollback, ShutdownInput, ShutdownWindows, StopRuntime
        <5> QED BY <5>1
      <4> QED BY <4>1, <4>2
    <3>2. CASE EventThread
      BY <3>2 DEF EventThread, desktop, Run, StartPump, PumpStep, PumpReturns, CallerRequestsStop, Join
    <3>3. CASE EndStep \/ EnderStep
      BY <3>3 DEF EndStep, EnderStep, desktop, Cleanup, ScopeEnded, EndReturns, TakeWork, EndingDone,
                  EnderRequestsStop
    <3>4. CASE UserStep \/ (Deliver /\ UNCHANGED gui)
      BY <3>4 DEF UserStep, gui, desktop, UserEnds, UserCloses, UserDestroys
    <3> QED BY <3>1, <3>2, <3>3, <3>4 DEF GuiNext
  <2>2. active = <<op>> /\ op \in Held /\ op # "userDestroy"
    BY <2>1, ActiveRange DEF EndCommand, Held
  <2>3. op \notin {"createWindow", "createContext", "rollbackContext", "endContext", "stopInput"}
    BY <2>1 DEF EndCommand, CreatesWindow, CreatesContext, DestroysContext
  <2>4. op \in {"rollbackWindow", "endWindow", "stopWindows"}
    BY <2>2, <2>3 DEF Commands
  <2>5. Submitted(op)
    BY <2>2 DEF Submitted
  <2>6. CASE op = "rollbackWindow"
    BY <2>5, <2>6 DEF GuiInv, CoordinatorInv
  <2>7. CASE op = "endWindow"
    BY <2>5, <2>7 DEF GuiInv, ScopeInv
  <2>8. CASE op = "stopWindows"
    BY <2>5, <2>8, EndedWhenDone DEF GuiInv, EndedWithRoot, RootEndsWithApplication
  <2> QED BY <2>4, <2>6, <2>7, <2>8
<1>2. GuiSpec => [][DetachedFirst]_guiVars
  BY <1>1, GuiInitInv, GuiStep, PTL DEF GuiSpec
<1> QED BY <1>2 DEF InputDetachedFirst
==============================================================================
