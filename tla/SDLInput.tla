------------------------------- MODULE SDLInput -------------------------------
(***************************************************************************)
(* The input half of the SDL adapter (SDLDesktopState.cpp): the windows    *)
(* that input is routed to, the input contexts bound to them, the inventory*)
(* of devices, and the pointer and text modes it asks the system for.      *)
(* Everything here runs on the event thread.  The operators take and give  *)
(* the adapter's state; the actions that use them are InputManager's.      *)
(* A context without a window receives nothing and is left out.            *)
(***************************************************************************)
EXTENDS Naturals, Sequences, FiniteSets

CONSTANTS
  Windows, NoWindow,
  Contexts,            (* identities of input contexts, each used once      *)
  Devices, MaxVersion, (* device identities; a descriptor is a version      *)
  PressKinds,          (* kinds of input with a state: key, button, touch   *)
  PlainKinds           (* kinds without: text, motion, wheel                *)

ASSUME KindsAssumption == /\ PressKinds \subseteq {"key", "button", "touch"}
                          /\ PlainKinds \cap {"key", "button", "touch"} = {}
ASSUME WindowsAssumption == NoWindow \notin Windows
ASSUME FiniteAssumption == /\ IsFiniteSet(Contexts) /\ IsFiniteSet(Devices)
                           /\ MaxVersion \in Nat \ {0}

VARIABLES
  sdl,                 (* window and context records, and the native modes  *)
  inventory,           (* the adapter's devices: 0 when absent              *)
  os                   (* the system: who has the focus, events to deliver  *)

Versions == 0..MaxVersion          (* 0: not connected *)

Kinds == PressKinds \cup PlainKinds

WindowRecord == [alive : BOOLEAN, enabled : BOOLEAN, focused : BOOLEAN, suspended : BOOLEAN]
InputContextRecord ==
  [live : BOOLEAN, target : Windows \cup {NoWindow}, enabled : BOOLEAN, captured : BOOLEAN,
   relative : BOOLEAN, wantsCapture : BOOLEAN, wantsRelative : BOOLEAN]
NoContext == [live |-> FALSE, target |-> NoWindow, enabled |-> FALSE, captured |-> FALSE,
              relative |-> FALSE, wantsCapture |-> FALSE, wantsRelative |-> FALSE]

SDLState == [win : [Windows -> WindowRecord], ctx : [Contexts -> InputContextRecord],
             capture : BOOLEAN, relative : SUBSET Windows, text : SUBSET Windows]

(* The windows were created; one of them may have the focus.                 *)
SDLInit ==
  /\ os \in [focus : Windows \cup {NoWindow}, events : {<<>>}]
  /\ sdl = [win |-> [w \in Windows |-> [alive |-> TRUE, enabled |-> TRUE,
                                        focused |-> w = os.focus, suspended |-> w # os.focus]],
            ctx |-> [c \in Contexts |-> NoContext],
            capture |-> FALSE, relative |-> {}, text |-> {}]
  /\ inventory = [d \in Devices |-> 0]

------------------------------------------------------------------------------
(* Pointer modes and text input follow the target's activation.             *)

Active(s, w) == /\ s.win[w].alive /\ s.win[w].enabled
                /\ s.win[w].focused /\ ~s.win[w].suspended

BoundTo(s, w) == {c \in Contexts : s.ctx[c].live /\ s.ctx[c].target = w}

WantsCapture(s) == \E c \in Contexts : /\ s.ctx[c].live /\ s.ctx[c].enabled
                                       /\ s.ctx[c].wantsCapture /\ Active(s, s.ctx[c].target)

WantsRelative(s, w) == /\ Active(s, w)
                       /\ \E c \in BoundTo(s, w) : s.ctx[c].enabled /\ s.ctx[c].wantsRelative

InputTargetsForWindow(s, w) ==
  {c \in BoundTo(s, w) : s.win[w].alive /\ s.win[w].enabled /\ s.ctx[c].enabled}

With(set, x, in) == IF in THEN set \cup {x} ELSE set \ {x}

(* The modes of the windows ws.  Turning a mode off succeeds; the system may *)
(* refuse to turn one on (ok).                                               *)
Refused(wants, ok) == wants /\ ~ok

RefreshedContext(s, c, ok) ==
  LET r == s.ctx[c]
      granted == Active(s, r.target) /\ r.enabled
  IN [r EXCEPT !.captured = granted /\ r.wantsCapture /\ ~Refused(WantsCapture(s), ok),
               !.relative = granted /\ r.wantsRelative /\ ~Refused(WantsRelative(s, r.target), ok)]

RefreshTargetPointerModes(s, ws, ok) ==
  LET alive == {w \in ws : s.win[w].alive}
  IN IF alive = {} THEN s
     ELSE [s EXCEPT
             !.relative = {w \in Windows : IF w \notin alive \/ Refused(WantsRelative(s, w), ok)
                                          THEN w \in s.relative ELSE WantsRelative(s, w)},
             !.capture = IF Refused(WantsCapture(s), ok) THEN @ ELSE WantsCapture(s),
             !.ctx = [c \in Contexts |-> IF s.ctx[c].live /\ s.ctx[c].target \in alive
                                        THEN RefreshedContext(s, c, ok) ELSE s.ctx[c]]]

(* The same for one window, stopped when the first context was told.         *)
RefreshedUpTo(s, w, first) ==
  LET done == RefreshTargetPointerModes(s, {w}, TRUE)
  IN [done EXCEPT !.ctx = [s.ctx EXCEPT ![first] = done.ctx[first]]]

ReadsText(s, w) == Active(s, w) /\ \E c \in BoundTo(s, w) : s.ctx[c].enabled

RefreshTextInput(s, ws) ==
  [s EXCEPT !.text = {w \in Windows : IF w \in ws /\ s.win[w].alive THEN ReadsText(s, w)
                                                                   ELSE w \in s.text}]

Refresh(s, ws, ok) == RefreshTextInput(RefreshTargetPointerModes(s, ws, ok), ws)

------------------------------------------------------------------------------
(* What the input manager asks for.                                         *)

CreateInputContext(s, c, w, wants, ok) ==
  Refresh([s EXCEPT !.ctx[c] = [NoContext EXCEPT !.live = TRUE, !.target = w, !.enabled = TRUE,
                                                 !.wantsCapture = "capture" \in wants,
                                                 !.wantsRelative = "relative" \in wants]], {w}, ok)

OnlyForgets(s, c, ok) == [s EXCEPT !.ctx[c] = NoContext]

DestroyInputContext(s, c, ok) ==
  IF s.ctx[c].live THEN Refresh([s EXCEPT !.ctx[c] = NoContext], {s.ctx[c].target}, ok) ELSE s

(* Several are destroyed one after another, and nothing is turned on then.   *)
DestroyAll(s, cs) ==
  LET live == {c \in cs : s.ctx[c].live}
  IN Refresh([s EXCEPT !.ctx = [c \in Contexts |-> IF c \in live THEN NoContext ELSE s.ctx[c]]],
             {s.ctx[c].target : c \in live}, TRUE)

SetContextEnabled(s, c, b, ok) == Refresh([s EXCEPT !.ctx[c].enabled = b], {s.ctx[c].target}, ok)

CanHoldPointer(s, c) == s.ctx[c].enabled /\ s.win[s.ctx[c].target].alive

SetContextCapture(s, c, b, ok) ==
  LET asked == [s EXCEPT !.ctx[c].wantsCapture = b]
  IN IF CanHoldPointer(s, c) THEN RefreshTargetPointerModes(asked, {s.ctx[c].target}, ok)
                             ELSE [asked EXCEPT !.ctx[c].captured = FALSE]

SetRelativePointerMode(s, c, b, ok) ==
  LET asked == [s EXCEPT !.ctx[c].wantsRelative = b]
  IN IF CanHoldPointer(s, c) THEN RefreshTargetPointerModes(asked, {s.ctx[c].target}, ok)
                             ELSE [asked EXCEPT !.ctx[c].relative = FALSE]

(* Contexts go; the modes of the windows they were bound to are turned off.  *)
ShutdownInput(s) ==
  LET targets == {s.ctx[c].target : c \in {d \in Contexts : s.ctx[d].live}}
                   \cap {w \in Windows : s.win[w].alive}
  IN [s EXCEPT !.ctx = [c \in Contexts |-> NoContext], !.capture = FALSE,
               !.relative = @ \ targets, !.text = @ \ targets]

------------------------------------------------------------------------------
(* What windows do.  A query reads the focus the system has now, which may   *)
(* be ahead of the focus events still to be delivered.                       *)

Query(s, w) == [s EXCEPT !.win[w].focused = os.focus = w]

SetInputEnabled(s, w, b, ok) ==
  LET set == [s EXCEPT !.win[w].enabled = b, !.win[w].suspended = ~b \/ ~s.win[w].focused]
  IN Query(IF s.win[w].enabled = b THEN set ELSE Refresh(set, {w}, ok), w)

PrepareWindowRemoval(s, ws) ==
  Refresh([s EXCEPT !.win = [w \in Windows |-> IF w \in ws
                                              THEN [@[w] EXCEPT !.enabled = FALSE, !.suspended = TRUE]
                                              ELSE @[w]]], ws, TRUE)

NoWindowRecord == [alive |-> FALSE, enabled |-> FALSE, focused |-> FALSE, suspended |-> TRUE]

Erase(s, ws) == [s EXCEPT !.win = [w \in Windows |-> IF w \in ws THEN NoWindowRecord ELSE @[w]],
                          !.relative = @ \ ws, !.text = @ \ ws]

(* The system took the window away: no native call on it is possible.        *)
InvalidateRemovedInputTarget(s, w, ok) ==
  LET gone == Erase(s, {w})
  IN [gone EXCEPT !.capture = WantsCapture(gone) /\ (ok \/ @),
                  !.ctx = [c \in Contexts |->
                             IF c \in BoundTo(s, w)
                             THEN [@[c] EXCEPT !.captured = FALSE, !.relative = FALSE] ELSE @[c]]]

FocusLost(s, w, ok) == Query(Refresh([s EXCEPT !.win[w].suspended = TRUE], {w}, ok), w)

FocusGained(s, w, ok) ==
  LET read == Query(s, w)
  IN IF read.win[w].enabled THEN Refresh([read EXCEPT !.win[w].suspended = FALSE], {w}, ok) ELSE read

ShutdownWindows(s) == LET left == {w \in Windows : s.win[w].alive}
                      IN Erase(PrepareWindowRemoval(s, left), left)

------------------------------------------------------------------------------
(* The device inventory: a change is reported as what it does to it.         *)

Report(d, change, version) == <<[op |-> "device", d |-> d, change |-> change, version |-> version]>>

AddOrUpdateDevice(d, version) ==
  IF inventory[d] = version THEN <<>>
  ELSE Report(d, IF inventory[d] = 0 THEN "Connected" ELSE "Updated", version)

RemoveDevice(d) == IF inventory[d] = 0 THEN <<>> ELSE Report(d, "Disconnected", 0)

SDLTypeOK == /\ sdl \in SDLState
             /\ inventory \in [Devices -> Versions]
             /\ os.focus \in Windows \cup {NoWindow}

(* The pointer is never held for nobody: it is captured, or in relative mode, *)
(* or text is read for a window, only while an enabled context that asked for *)
(* it is bound to a window that takes input, whatever was destroyed, disabled *)
(* or taken away in between (RefreshTargetPointerModes and its callers); and  *)
(* once its focus events are handled the focused window is not suspended.     *)
PointerModesFollowTarget ==
  LET settled(w) == \A i \in DOMAIN os.events : os.events[i].t \in {"lost", "gained"} => os.events[i].w # w
  IN (\A w \in Windows : settled(w)) =>
       /\ sdl.capture => WantsCapture(sdl)
       /\ \A w \in Windows :
            /\ w \in sdl.relative => WantsRelative(sdl, w)
            /\ w \in sdl.text => ReadsText(sdl, w)
            /\ (os.focus = w /\ sdl.win[w].alive /\ sdl.win[w].enabled) => Active(sdl, w)
===============================================================================
